---------------------------- MODULE Lexer_proofs ----------------------------
(***************************************************************************)
(* Proofs about the lexer, for every buffer and every window: it stays     *)
(* inside the window, no byte but white space gets lost, the parser gets   *)
(* the text in order, a call takes a bounded number of steps, and a second *)
(* call agrees with the first.                                             *)
(***************************************************************************)
EXTENDS Lexer, FiniteSetTheorems, WellFoundedInduction, TLAPS

-----------------------------------------------------------------------------
(* Scanning.                                                               *)

LEMMA LeastNatural ==
    ASSUME NEW S \in SUBSET Nat, S # {}
    PROVE  \E x \in S : \A y \in S : x <= y
<1> DEFINE R == OpToRel(<, Nat)
<1>1. IsWellFoundedOn(R, Nat)
  BY NatLessThanWellFounded
<1>2. \E x \in S : \A y \in S : ~ (<<y, x>> \in R)
  <2> HIDE DEF R
  <2> QED
    BY <1>1, WFMin
<1>3. \A x, y \in S : <<y, x>> \notin R => ~(y < x)
  BY DEF OpToRel
<1>4. \A x, y \in S : x \in Nat /\ y \in Nat /\ (~(y < x) => x <= y)
  OBVIOUS
<1> HIDE DEF R
<1> QED
  BY <1>2, <1>3, <1>4

LEMMA GreatestOf ==
    ASSUME NEW a \in Nat, NEW b \in Nat, NEW S \in SUBSET (a..b), S # {}
    PROVE  (CHOOSE x \in S : \A y \in S : y <= x) \in S
<1> DEFINE left == {b - e : e \in S}
<1>1. left \in SUBSET Nat /\ left # {}
  OBVIOUS
<1>2. PICK x \in left : \A y \in left : x <= y
  BY <1>1, LeastNatural
<1>3. PICK end \in S : x = b - end
  BY <1>2
<1>4. \A e \in S : e <= end
  <2> SUFFICES ASSUME NEW e \in S PROVE e <= end
    OBVIOUS
  <2>1. b - end <= b - e
    BY <1>2, <1>3
  <2> QED
    BY <2>1
<1>5. \E m \in S : \A e \in S : e <= m
  BY <1>3, <1>4
<1> QED
  BY <1>5

LEMMA SkipOverFacts ==
    ASSUME last \in Nat, NEW i \in 0..last, NEW chars
    PROVE  /\ SkipOver(i, chars) \in i..last
           /\ ~CharIn(SkipOver(i, chars), chars)
           /\ \A k \in i..(SkipOver(i, chars) - 1) : CharIn(k, chars)
<1> DEFINE S == {j \in i..last : ~CharIn(j, chars)}
<1>1. last \in S /\ S \in SUBSET Nat
  BY DEF CharIn
<1>2. PICK j \in S : \A k \in S : j <= k
  BY <1>1, LeastNatural
<1>3. \A k \in i..(j - 1) : CharIn(k, chars)
  BY <1>2
<1>4. \E x \in i..last : /\ ~CharIn(x, chars)
                         /\ \A k \in i..(x - 1) : CharIn(k, chars)
  BY <1>2, <1>3
<1> QED
  BY <1>4 DEF SkipOver

LEMMA SkipUntilFacts ==
    ASSUME last \in Nat, NEW i \in 0..last, NEW chars
    PROVE  SkipUntil(i, chars) \in i..last
<1> DEFINE S == {j \in i..last : j = last \/ CharIn(j, chars)}
<1>1. last \in S /\ S \in SUBSET Nat
  OBVIOUS
<1>2. PICK j \in S : \A k \in S : j <= k
  BY <1>1, LeastNatural
<1>3. \A k \in i..(j - 1) : ~CharIn(k, chars)
  BY <1>2
<1>4. \E x \in i..last : /\ x = last \/ CharIn(x, chars)
                         /\ \A k \in i..(x - 1) : ~CharIn(k, chars)
  BY <1>2, <1>3
<1> QED
  BY <1>4 DEF SkipUntil

-----------------------------------------------------------------------------
(* The inductive invariant.                                                *)

Kind == {"eof", "keyword", "identifier", "float_literal", "integer_literal",
         "string_literal", "char_literal", "doc_comment", "file_doc_comment",
         "comment", "symbol", "ReservedKeyword", "InvalidNumericLiteral",
         "UnterminatedStringLiteral", "UnterminatedCharLiteral", "EmptyCharLiteral",
         "MultiCharCharLiteral", "InvalidEscapeSequence", "InvalidUnicodeEscape",
         "UnterminatedBlockComment", "InvalidCharacter"}
Item == [error : BOOLEAN, kind : Kind, span : Nat \X Nat]

Inside == {"string", "char", "block"}

\* What has not been turned into an item yet begins here.
Front == IF routine \in Inside THEN tokStart ELSE cur

Window ==
    /\ buffer \in Buffers
    /\ first \in Nat /\ last \in Nat /\ cur \in Nat
    /\ routine \in {"loop", "done", "building", "stream"} \cup Inside
    /\ tokStart \in Nat /\ depth \in Nat /\ charCount \in Nat
    /\ heads \subseteq 0..Len(buffer)
    /\ ~InvalidSpan => cur \in first..last

\* A literal or comment that is being read lies in the window; nothing is read of
\* one that is out of bounds.
Reading ==
    /\ routine \in Inside => ~InvalidSpan /\ first <= tokStart /\ tokStart < cur
    /\ routine = "done" /\ ~InvalidSpan => cur = last

ItemsBehind ==
    /\ items \in Seq(Item)
    /\ \A k \in DOMAIN items :
           /\ items[k].span[1] <= items[k].span[2]
           /\ items[k].span[2] <= cur
           /\ Misplaced(items) \/ items[k].span[1] >= first

Lost(its, i) ==
    CharAt(i) \notin Whitespace /\ \A k \in DOMAIN its : ~Covers(its[k], i)
NoneLost ==
    ~InvalidSpan /\ ~Misplaced(items) =>
        \A i \in first..(Front - 1) : ~Lost(items, i)

\* A token ends before the next item begins, and before what is not an item yet.
\* (Errors of a literal lie within the error or the token of the literal.)
Ordered(its) ==
    \A j, k \in DOMAIN its :
        j < k /\ ~its[j].error => its[j].span[2] <= its[k].span[1]
\* An item has an extent, unless its place was lost.
Sized(it) ==
    \/ it.span[1] < it.span[2] \/ it.kind = "eof"
    \/ it = Error("InvalidNumericLiteral", 0, 0)
InOrder ==
    /\ Misplaced(items) \/ Ordered(items)
    /\ \A k \in DOMAIN items :
           /\ Sized(items[k])
           /\ ~items[k].error => items[k].span[2] <= Front
           /\ routine \in {"loop"} \cup Inside => items[k].kind # "eof"

Inv == Window /\ Reading /\ ItemsBehind /\ NoneLost /\ InOrder

\* The invariant says that no byte is skipped, and the types.
LEMMA InvFacts == Inv => TypeOK /\ NothingSkipped
<1> SUFFICES ASSUME Inv PROVE TypeOK /\ NothingSkipped
  OBVIOUS
<1>1. \A it \in Items : \E k \in DOMAIN items : it = items[k]
  BY DEF Items
<1>2. \A k \in DOMAIN items : items[k] \in Items /\ items[k] \in Item
  BY DEF Inv, ItemsBehind, Items
<1>3. TypeOK
  BY <1>1, <1>2 DEF Inv, Window, Inside, ItemsBehind, TypeOK, Item
<1>4. NothingSkipped
  BY <1>2 DEF Inv, Window, Reading, NoneLost, Lost, Front, Inside, NothingSkipped
<1> QED
  BY <1>3, <1>4

LEMMA InvInit == Init => Inv
<1> SUFFICES ASSUME Init PROVE Inv
  OBVIOUS
<1>1. Len(buffer) \in Nat
  BY BufferAssumption DEF Init
<1>2. Window
  BY <1>1 DEF Init, Window, InvalidSpan
<1>3. Reading /\ NoneLost
  BY <1>1 DEF Init, Reading, NoneLost, Front, Inside
<1>4. ItemsBehind
  BY DEF Init, ItemsBehind
<1>5. InOrder
  BY DEF Init, InOrder, Ordered
<1> QED
  BY <1>2, <1>3, <1>4, <1>5 DEF Inv

-----------------------------------------------------------------------------
(* Items are added.                                                        *)

\* Items that lie in the window up to `to`.
Fits(its, from, to) ==
    /\ its \in Seq(Item)
    /\ \A k \in DOMAIN its : /\ from <= its[k].span[1]
                             /\ its[k].span[1] <= its[k].span[2]
                             /\ its[k].span[2] <= to

LEMMA SpanType ==
    ASSUME NEW it \in Item
    PROVE  it.span[1] \in Nat /\ it.span[2] \in Nat
<1>1. it.span \in Nat \X Nat
  BY DEF Item
<1> QED
  BY <1>1

LEMMA Appended ==
    ASSUME ItemsBehind, cur \in Nat, NEW its \in Seq(Item)
    PROVE  /\ items \o its \in Seq(Item)
           /\ \A k \in DOMAIN items : k \in DOMAIN (items \o its)
                                      /\ (items \o its)[k] = items[k]
           /\ \A k \in DOMAIN its : /\ Len(items) + k \in DOMAIN (items \o its)
                                    /\ (items \o its)[Len(items) + k] = its[k]
           /\ \A k \in DOMAIN (items \o its) :
                  \/ k \in DOMAIN items /\ (items \o its)[k] = items[k]
                  \/ \E j \in DOMAIN its : (items \o its)[k] = its[j]
           /\ Misplaced(items) => Misplaced(items \o its)
           /\ \A i : Lost(items \o its, i) => Lost(items, i) /\ Lost(its, i)
<1>1. items \in Seq(Item)
  BY DEF ItemsBehind
<1>2. /\ items \o its \in Seq(Item)
      /\ \A k \in DOMAIN items : k \in DOMAIN (items \o its)
                                 /\ (items \o its)[k] = items[k]
  BY <1>1
<1>3. \A k \in DOMAIN its : /\ Len(items) + k \in DOMAIN (items \o its)
                            /\ (items \o its)[Len(items) + k] = its[k]
  BY <1>1
<1>4. ASSUME NEW k \in DOMAIN (items \o its)
      PROVE  \/ k \in DOMAIN items /\ (items \o its)[k] = items[k]
             \/ \E j \in DOMAIN its : (items \o its)[k] = its[j]
  <2>1. CASE k <= Len(items)
    BY <1>1, <2>1
  <2>2. CASE k > Len(items)
    <3>1. k - Len(items) \in DOMAIN its /\ (items \o its)[k] = its[k - Len(items)]
      BY <1>1, <2>2
    <3> QED
      BY <3>1
  <2> QED
    BY <1>1, <2>1, <2>2
<1>5. Misplaced(items) => Misplaced(items \o its)
  BY <1>2 DEF Misplaced
<1>6. \A i : Lost(items \o its, i) => Lost(items, i) /\ Lost(its, i)
  BY <1>2, <1>3 DEF Lost
<1> QED
  BY <1>2, <1>3, <1>4, <1>5, <1>6

\* The items that have been read stay behind the pointer when it moves on.
LEMMA ItemsAdded ==
    ASSUME ItemsBehind, cur \in Nat, first \in Nat, NEW to \in Nat, cur <= to,
           NEW its, Fits(its, first, to),
           items' = items \o its, cur' = to, first' = first
    PROVE  ItemsBehind'
<1>1. its \in Seq(Item)
  BY DEF Fits
<1>2. ASSUME NEW k \in DOMAIN items'
      PROVE  /\ items'[k].span[1] <= items'[k].span[2]
             /\ items'[k].span[2] <= cur'
             /\ Misplaced(items') \/ items'[k].span[1] >= first'
  <2>1. CASE k \in DOMAIN items /\ items'[k] = items[k]
    <3>0. items[k] \in Item
      BY <2>1 DEF ItemsBehind
    <3>1. items[k].span[2] \in Nat
      BY <3>0, SpanType
    <3>2. Misplaced(items) => Misplaced(items')
      BY <1>1, Appended
    <3> QED
      BY <2>1, <3>1, <3>2 DEF ItemsBehind
  <2>2. CASE \E j \in DOMAIN its : items'[k] = its[j]
    <3>1. PICK j \in DOMAIN its : items'[k] = its[j]
      BY <2>2
    <3>2. its[j].span[1] \in Nat
      BY <1>1, SpanType
    <3> QED
      BY <3>1, <3>2 DEF Fits
  <2> QED
    BY <1>1, <2>1, <2>2, Appended
<1> QED
  BY <1>1, <1>2, Appended DEF ItemsBehind

\* Items that lie, in order, in what has not been turned into items yet.
Follows(its) ==
    /\ Ordered(its)
    /\ \A k \in DOMAIN its : /\ its[k].kind # "eof" /\ Front <= its[k].span[1]
                             /\ its[k].span[1] < its[k].span[2]

\* The items that a step adds lie behind what had been turned into items.
Grown ==
    /\ Front <= Front'
    /\ \A k \in DOMAIN items' :
           k > Len(items) => Misplaced(items') \/ Front <= items'[k].span[1]

LEMMA FrontFacts ==
    ASSUME Inv
    PROVE  Front \in Nat /\ (~InvalidSpan => Front <= cur)
BY DEF Inv, Window, Reading, Front, Inside

LEMMA OrderAdded ==
    ASSUME Inv, NEW its \in Seq(Item), items' = items \o its,
           Front' \in Nat, Front <= Front',
           \/ Misplaced(its)
           \/ Ordered(its) /\ \A k \in DOMAIN its : Front <= its[k].span[1],
           \A k \in DOMAIN its :
               /\ Sized(its[k])
               /\ ~its[k].error => its[k].span[2] <= Front'
               /\ routine' \in {"loop"} \cup Inside => its[k].kind # "eof",
           routine' \in {"loop"} \cup Inside => routine \in {"loop"} \cup Inside
    PROVE  InOrder' /\ Grown
<1>1. ItemsBehind /\ InOrder /\ cur \in Nat /\ items \in Seq(Item)
  BY DEF Inv, Window, ItemsBehind
<1>2. Front \in Nat
  BY FrontFacts
<1>3. ASSUME NEW k \in DOMAIN (items \o its)
      PROVE  \/ k \in DOMAIN items /\ (items \o its)[k] = items[k]
             \/ /\ k > Len(items) /\ k - Len(items) \in DOMAIN its
                /\ (items \o its)[k] = its[k - Len(items)]
  <2>1. CASE k <= Len(items)
    BY <1>1, <2>1
  <2>2. CASE k > Len(items)
    BY <1>1, <2>2
  <2> QED
    BY <1>1, <2>1, <2>2
<1>4. \A k \in DOMAIN items : items[k].span[2] \in Nat
  BY <1>1, SpanType
<1>5. \A k \in DOMAIN its : its[k].span[1] \in Nat /\ its[k].span[2] \in Nat
  BY SpanType
<1>6. ASSUME NEW k \in DOMAIN items'
      PROVE  /\ Sized(items'[k])
             /\ ~items'[k].error => items'[k].span[2] <= Front'
             /\ routine' \in {"loop"} \cup Inside => items'[k].kind # "eof"
  <2>1. CASE k \in DOMAIN items /\ items'[k] = items[k]
    BY <1>1, <1>2, <1>4, <2>1 DEF InOrder
  <2>2. CASE k - Len(items) \in DOMAIN its /\ items'[k] = its[k - Len(items)]
    BY <2>2
  <2> QED
    BY <1>3, <2>1, <2>2
<1>7. Misplaced(items) \/ Misplaced(its) => Misplaced(items')
  <2>1. Misplaced(items) => Misplaced(items')
    BY <1>1, Appended
  <2>2. ASSUME Misplaced(its) PROVE Misplaced(items')
    <3>1. PICK k \in DOMAIN its : its[k] = Error("InvalidNumericLiteral", 0, 0)
      BY <2>2 DEF Misplaced
    <3>2. Len(items) + k \in DOMAIN (items \o its) /\ (items \o its)[Len(items) + k] = its[k]
      BY <1>1, Appended
    <3> QED
      BY <3>1, <3>2 DEF Misplaced
  <2> QED
    BY <2>1, <2>2
<1>8. ASSUME ~Misplaced(items')
      PROVE  Ordered(items')
  <2>1. Ordered(items) /\ Ordered(its) /\ \A k \in DOMAIN its : Front <= its[k].span[1]
    BY <1>1, <1>7, <1>8 DEF InOrder
  <2>2. SUFFICES ASSUME NEW j \in DOMAIN (items \o its), NEW k \in DOMAIN (items \o its),
                        j < k, ~(items \o its)[j].error
                 PROVE  (items \o its)[j].span[2] <= (items \o its)[k].span[1]
    BY DEF Ordered
  <2>0. j \in Nat /\ k \in Nat /\ Len(items) \in Nat /\ DOMAIN items = 1..Len(items)
    BY <1>1
  <2>3. CASE k \in DOMAIN items /\ (items \o its)[k] = items[k]
    <3>1. j \in DOMAIN items /\ (items \o its)[j] = items[j]
      BY <1>3, <2>0, <2>2, <2>3
    <3> QED
      BY <2>1, <2>2, <2>3, <3>1 DEF Ordered
  <2>4. CASE /\ k > Len(items) /\ k - Len(items) \in DOMAIN its
             /\ (items \o its)[k] = its[k - Len(items)]
    <3>1. CASE j \in DOMAIN items /\ (items \o its)[j] = items[j]
      <4>1. items[j].span[2] <= Front
        BY <1>1, <2>2, <3>1 DEF InOrder
      <4>2. Front <= its[k - Len(items)].span[1]
        BY <2>1, <2>4
      <4> QED
        BY <1>2, <1>4, <1>5, <2>4, <3>1, <4>1, <4>2
    <3>2. CASE /\ j > Len(items) /\ j - Len(items) \in DOMAIN its
               /\ (items \o its)[j] = its[j - Len(items)]
      <4>1. j - Len(items) < k - Len(items)
        BY <2>0, <2>2
      <4> QED
        BY <2>1, <2>2, <2>4, <3>2, <4>1 DEF Ordered
    <3> QED
      BY <1>3, <3>1, <3>2
  <2> QED
    BY <1>3, <2>3, <2>4
<1>9. ASSUME NEW k \in DOMAIN items', k > Len(items)
      PROVE  Misplaced(items') \/ Front <= items'[k].span[1]
  <2>1. /\ k - Len(items) \in DOMAIN its
        /\ (items \o its)[k] = its[k - Len(items)]
    BY <1>1, <1>3, <1>9
  <2> QED
    BY <1>7, <2>1
<1>10. InOrder'
  BY <1>6, <1>8 DEF InOrder, Sized, Error
<1> QED
  BY <1>9, <1>10 DEF Grown

\* The items are what they were.
LEMMA OrderStays ==
    ASSUME Inv, items' = items, Front' \in Nat, Front <= Front',
           routine' \in {"loop"} \cup Inside => routine \in {"loop"} \cup Inside
    PROVE  InOrder' /\ Grown
<1>1. InOrder /\ Front \in Nat /\ \A k \in DOMAIN items : items[k].span[2] \in Nat
  BY FrontFacts, SpanType DEF Inv, ItemsBehind
<1>2. InOrder'
  BY <1>1 DEF InOrder, Ordered, Misplaced, Sized, Error
<1>3. DOMAIN items = 1..Len(items)
  BY DEF Inv, ItemsBehind
<1> QED
  BY <1>2, <1>3 DEF Grown

\* The loop goes on behind items that cover all that was not yet covered.
LEMMA InvEmit ==
    ASSUME Inv, ~InvalidSpan, routine \in {"loop"} \cup Inside,
           NEW to \in cur..last, NEW its, Fits(its, first, to), Follows(its),
           \A i \in Front..(to - 1) : ~Lost(its, i),
           Emit(its, to)
    PROVE  Inv' /\ Grown
<1>1. /\ items' = items \o its /\ cur' = to /\ routine' = "loop"
      /\ heads' = heads \cup {to}
      /\ UNCHANGED <<buffer, first, last, tokStart, depth, charCount>>
  BY DEF Emit, arguments, scan
<1>2. Window /\ ItemsBehind
  BY DEF Inv
<1>3. Len(buffer) \in Nat /\ last <= Len(buffer) /\ ~InvalidSpan'
  BY <1>1, <1>2, BufferAssumption DEF Window, InvalidSpan
<1>4. Window'
  BY <1>1, <1>2, <1>3 DEF Window
<1>5. Reading'
  BY <1>1 DEF Reading, Inside
<1>6. ItemsBehind'
  <2>1. cur \in Nat /\ first \in Nat /\ to \in Nat /\ cur <= to
    BY <1>2 DEF Window
  <2> QED
    BY <1>1, <1>2, <2>1, ItemsAdded
<1>7. NoneLost'
  <2>0. its \in Seq(Item) /\ cur \in Nat /\ first \in Nat /\ last \in Nat
        /\ tokStart \in Nat /\ Front \in Nat
    BY <1>2 DEF Fits, Window, Front
  <2>1. Misplaced(items) => Misplaced(items)'
    BY <1>1, <1>2, <2>0, Appended DEF Misplaced
  <2>2. ASSUME ~Misplaced(items)', NEW i \in first..(to - 1)
        PROVE  ~Lost(items \o its, i)
    <3>1. CASE i \in first..(Front - 1)
      <4>1. ~Lost(items, i)
        BY <2>1, <2>2, <3>1 DEF Inv, NoneLost
      <4> QED
        BY <4>1, <1>2, <2>0, Appended
    <3>2. CASE i \in Front..(to - 1)
      BY <3>2, <1>2, <2>0, Appended
    <3> QED
      BY <3>1, <3>2, <2>0
  <2>3. \A i : Lost(items, i)' <=> Lost(items \o its, i)
    BY <1>1 DEF Lost, CharAt, Covers
  <2> QED
    BY <1>1, <2>2, <2>3 DEF NoneLost, Front, Inside
<1>8. InOrder' /\ Grown
  <2>1. its \in Seq(Item) /\ \A k \in DOMAIN its : its[k].span[2] <= to
    BY DEF Fits
  <2>2. Front' = to /\ to \in Nat /\ cur \in Nat /\ cur <= to
    BY <1>1, <1>2 DEF Front, Inside, Window
  <2>3. Front <= to
    BY <2>2, FrontFacts
  <2> QED
    BY <1>1, <2>1, <2>2, <2>3, OrderAdded DEF Follows, Sized
<1> QED
  BY <1>4, <1>5, <1>6, <1>7, <1>8 DEF Inv

\* A literal goes on: nothing of it is covered before it ends.
LEMMA InvGoOn ==
    ASSUME Inv, routine \in Inside, NEW to \in cur..last, NEW n \in Nat,
           NEW its, Fits(its, tokStart, to),
           \A k \in DOMAIN its : /\ its[k].error /\ its[k].kind # "eof"
                                 /\ its[k].span[1] < its[k].span[2],
           GoOn(to, n, its)
    PROVE  Inv' /\ Grown
<1>1. /\ items' = items \o its /\ cur' = to /\ charCount' = charCount + n
      /\ UNCHANGED <<buffer, first, last, routine, tokStart, depth, heads>>
  BY DEF GoOn, arguments
<1>2. Window /\ ItemsBehind /\ Reading /\ ~InvalidSpan
  BY DEF Inv, Reading
<1>3. /\ its \in Seq(Item) /\ to \in Nat /\ cur <= to
      /\ cur \in Nat /\ first \in Nat /\ last \in Nat
  BY <1>2 DEF Fits, Window
<1>4. ~InvalidSpan'
  BY <1>1, <1>2 DEF InvalidSpan
<1>5. Window'
  BY <1>1, <1>2, <1>3 DEF Window
<1>6. Reading'
  BY <1>1, <1>2, <1>3, <1>4 DEF Reading, Inside, Window
<1>0. Fits(its, first, to)
  <2>1. \A k \in DOMAIN its : its[k].span[1] \in Nat
    BY SpanType DEF Fits
  <2> QED
    BY <1>2, <1>3, <2>1 DEF Fits, Reading, Window
<1>7. ItemsBehind'
  BY <1>0, <1>1, <1>2, <1>3, ItemsAdded
<1>8. NoneLost'
  <2>1. Misplaced(items) => Misplaced(items)'
    BY <1>1, <1>2, <1>3, Appended DEF Misplaced
  <2>2. \A i : Lost(items, i)' <=> Lost(items \o its, i)
    BY <1>1 DEF Lost, CharAt, Covers
  <2>3. \A i : Lost(items \o its, i) => Lost(items, i)
    BY <1>2, <1>3, Appended
  <2>4. Front' = Front
    BY <1>1 DEF Front
  <2> QED
    BY <1>1, <1>2, <2>1, <2>2, <2>3, <2>4 DEF Inv, NoneLost
<1>9. InOrder' /\ Grown
  <2>1. Front' = Front /\ Front = tokStart /\ Front \in Nat
    BY <1>1, <1>2 DEF Front, Window
  <2>2. Ordered(its) /\ \A k \in DOMAIN its : Front <= its[k].span[1]
    BY <2>1 DEF Ordered, Fits
  <2>3. items' = items \o its /\ Front' \in Nat /\ Front <= Front'
    BY <1>1, <2>1
  <2>4. routine \in {"loop"} \cup Inside
    OBVIOUS
  <2>5. \A k \in DOMAIN its : Sized(its[k])
    BY DEF Sized
  <2> QED
    BY <1>3, <2>2, <2>3, <2>4, <2>5, OrderAdded
<1> QED
  BY <1>5, <1>6, <1>7, <1>8, <1>9 DEF Inv

LEMMA TokStartFacts ==
    ASSUME Inv, routine = "loop", ~InvalidSpan
    PROVE  /\ TokStart \in cur..last /\ cur \in first..last
           /\ first \in Nat /\ last \in Nat
           /\ \A i \in cur..(TokStart - 1) : CharAt(i) \in Whitespace
           /\ Front = cur
<1>1. first \in Nat /\ last \in Nat /\ cur \in first..last /\ cur \in 0..last
  BY DEF Inv, Window
<1>2. /\ TokStart \in cur..last
      /\ \A i \in cur..(TokStart - 1) : CharIn(i, Whitespace)
  BY <1>1, SkipOverFacts DEF TokStart
<1> QED
  BY <1>1, <1>2 DEF CharIn, Front, Inside

\* A literal or a comment is entered: only white space has been passed.
LEMMA InvEnter ==
    ASSUME Inv, routine = "loop", ~InvalidSpan, NEW loop \in Inside,
           NEW n \in Nat \ {0}, TokStart + n <= last, Enter(loop, n)
    PROVE  Inv' /\ Grown
<1>1. /\ routine' = loop /\ tokStart' = TokStart /\ cur' = TokStart + n
      /\ depth' = 1 /\ charCount' = 0
      /\ UNCHANGED <<buffer, first, last, items, heads>>
  BY DEF Enter, arguments
<1>2. /\ TokStart \in cur..last /\ cur \in first..last
      /\ first \in Nat /\ last \in Nat
      /\ \A i \in cur..(TokStart - 1) : CharAt(i) \in Whitespace
      /\ Front = cur
  BY TokStartFacts
<1>3. Window /\ ItemsBehind /\ ~InvalidSpan'
  BY <1>1 DEF Inv, InvalidSpan
<1>4. Window'
  BY <1>1, <1>2, <1>3 DEF Window
<1>5. Reading'
  BY <1>1, <1>2, <1>3 DEF Reading, Inside
<1>6. ItemsBehind'
  <2>1. \A k \in DOMAIN items : items[k].span[2] \in Nat
    BY <1>3, SpanType DEF ItemsBehind
  <2>2. Misplaced(items)' <=> Misplaced(items)
    BY <1>1 DEF Misplaced
  <2> QED
    BY <1>1, <1>2, <1>3, <2>1, <2>2 DEF ItemsBehind
<1>7. NoneLost'
  <2>1. \A i : Lost(items, i)' <=> Lost(items, i)
    BY <1>1 DEF Lost, CharAt, Covers
  <2>2. Misplaced(items)' <=> Misplaced(items)
    BY <1>1 DEF Misplaced
  <2>3. \A i \in cur..(TokStart - 1) : ~Lost(items, i)
    BY <1>2 DEF Lost
  <2>4. ~Misplaced(items) => \A i \in first..(cur - 1) : ~Lost(items, i)
    BY <1>2 DEF Inv, NoneLost
  <2>5. Front' = TokStart
    BY <1>1 DEF Front
  <2>6. \A i \in first..(TokStart - 1) : i \in first..(cur - 1) \/ i \in cur..(TokStart - 1)
    BY <1>2
  <2> QED
    BY <1>1, <2>1, <2>2, <2>3, <2>4, <2>5, <2>6 DEF NoneLost
<1>8. InOrder' /\ Grown
  <2>1. Front' = TokStart /\ Front' \in Nat /\ Front <= Front'
    BY <1>1, <1>2 DEF Front
  <2> QED
    BY <1>1, <2>1, OrderStays
<1> QED
  BY <1>4, <1>5, <1>6, <1>7, <1>8 DEF Inv

\* One item for what begins behind the white space.
LEMMA InvOneItem ==
    ASSUME Inv, routine = "loop", ~InvalidSpan, NEW to \in (TokStart + 1)..last,
           NEW it \in Item, it.span = <<TokStart, to>>, it.kind # "eof",
           Emit(<<it>>, to)
    PROVE  Inv' /\ Grown
<1>1. /\ TokStart \in cur..last /\ cur \in first..last
      /\ first \in Nat /\ last \in Nat
      /\ \A i \in cur..(TokStart - 1) : CharAt(i) \in Whitespace
      /\ Front = cur
  BY TokStartFacts
<1>2. to \in cur..last
  BY <1>1
<1>3. it.span[1] = TokStart /\ it.span[2] = to
  OBVIOUS
<1>4. Fits(<<it>>, first, to)
  BY <1>1, <1>3 DEF Fits
<1>5. ASSUME NEW i \in Front..(to - 1)
      PROVE  ~Lost(<<it>>, i)
  <2>1. CASE i \in cur..(TokStart - 1)
    BY <1>1, <2>1 DEF Lost
  <2>2. CASE i \in TokStart..(to - 1)
    <3>1. 1 \in DOMAIN <<it>> /\ <<it>>[1] = it
      OBVIOUS
    <3>2. Covers(it, i)
      BY <1>1, <1>3, <2>2 DEF Covers
    <3> QED
      BY <3>1, <3>2 DEF Lost
  <2> QED
    BY <1>1, <2>1, <2>2
<1>6. Follows(<<it>>)
  BY <1>1, <1>3 DEF Follows, Ordered
<1> QED
  BY <1>2, <1>4, <1>5, <1>6, InvEmit

\* A literal or a comment ends with an item that covers all of it.
LEMMA InvWhole ==
    ASSUME Inv, routine \in Inside, NEW to \in cur..last,
           NEW its, Fits(its, tokStart, to), Ordered(its),
           \A k \in DOMAIN its : /\ its[k].kind # "eof"
                                 /\ its[k].span[1] < its[k].span[2],
           \E k \in DOMAIN its : its[k].span = <<tokStart, to>>, Emit(its, to)
    PROVE  Inv' /\ Grown
<1>1. Window /\ Reading /\ ~InvalidSpan
  BY DEF Inv, Reading
<1>2. /\ first \in Nat /\ last \in Nat /\ cur \in Nat /\ tokStart \in Nat
      /\ first <= tokStart /\ tokStart <= cur /\ Front = tokStart
  BY <1>1 DEF Window, Reading, Front
<1>3. Fits(its, first, to)
  <2>1. \A k \in DOMAIN its : its[k].span[1] \in Nat
    BY SpanType DEF Fits
  <2> QED
    BY <1>2, <2>1 DEF Fits
<1>4. ASSUME NEW i \in Front..(to - 1)
      PROVE  ~Lost(its, i)
  <2>1. PICK k \in DOMAIN its : its[k].span = <<tokStart, to>>
    OBVIOUS
  <2>2. its[k].span[1] = tokStart /\ its[k].span[2] = to
    BY <2>1
  <2>3. Covers(its[k], i)
    BY <1>2, <2>2 DEF Covers
  <2> QED
    BY <2>3 DEF Lost
<1>5. Follows(its)
  BY <1>2 DEF Follows, Fits
<1> QED
  BY <1>1, <1>3, <1>4, <1>5, InvEmit

LEMMA Made ==
    ASSUME NEW kind \in Kind, NEW from \in Nat, NEW to \in Nat
    PROVE  /\ Token(kind, from, to) \in Item
           /\ Token(kind, from, to).span = <<from, to>>
           /\ Token(kind, from, to).kind = kind
           /\ Error(kind, from, to) \in Item
           /\ Error(kind, from, to).span = <<from, to>>
           /\ Error(kind, from, to).kind = kind /\ Error(kind, from, to).error
BY DEF Token, Error, Item

\* A sequence of one item, or of two, that fits.
LEMMA FitsOne ==
    ASSUME NEW a \in Item, NEW from \in Nat, NEW to \in Nat,
           from <= a.span[1], a.span[1] <= a.span[2], a.span[2] <= to
    PROVE  Fits(<<a>>, from, to)
BY DEF Fits

LEMMA FitsTwo ==
    ASSUME NEW a \in Item, NEW b \in Item, NEW from \in Nat, NEW to \in Nat,
           from <= a.span[1], a.span[1] <= a.span[2], a.span[2] <= to,
           from <= b.span[1], b.span[1] <= b.span[2], b.span[2] <= to
    PROVE  Fits(<<a, b>>, from, to)
BY DEF Fits

LEMMA FitsNone ==
    ASSUME NEW from \in Nat, NEW to \in Nat
    PROVE  Fits(<<>>, from, to)
BY DEF Fits

-----------------------------------------------------------------------------
(* Names, numbers, symbols and line comments.                              *)

LEMMA BeginsFacts ==
    ASSUME Inv, ~InvalidSpan, NEW chars, Begins(chars)
    PROVE  /\ routine = "loop"
           /\ TokStart \in Nat /\ TokStart + 1 \in 0..last /\ last \in Nat
           /\ TokStart \in cur..last /\ cur \in first..last /\ first \in Nat
           /\ CharAt(TokStart) \in chars
BY TokStartFacts DEF Begins, CharIn

LEMMA InvIdentifier ==
    ASSUME Inv, LexIdentifier
    PROVE  Inv' /\ Grown
<1> DEFINE end == SkipOver(TokStart + 1, NameChar)
           text == Text(TokStart, end)
           it == CASE text \in ReservedKeyword -> Error("ReservedKeyword", TokStart, end)
                   [] text \in Keyword -> Token("keyword", TokStart, end)
                   [] OTHER -> Token("identifier", TokStart, end)
<1>1. ~InvalidSpan /\ Begins(Letter \cup {"_"}) /\ Emit(<<it>>, end)
  BY DEF LexIdentifier
<1>2. /\ routine = "loop" /\ TokStart \in Nat /\ TokStart + 1 \in 0..last
      /\ last \in Nat
  BY <1>1, BeginsFacts
<1>3. end \in (TokStart + 1)..last
  BY <1>2, SkipOverFacts
<1> HIDE DEF end
<1>4. end \in (TokStart + 1)..last /\ end \in Nat
  BY <1>2, <1>3
<1>5. it \in Item /\ it.span = <<TokStart, end>> /\ it.kind # "eof"
  <2>1. {"ReservedKeyword", "keyword", "identifier"} \subseteq Kind
    BY DEF Kind
  <2>2. /\ Error("ReservedKeyword", TokStart, end) \in Item
        /\ Error("ReservedKeyword", TokStart, end).span = <<TokStart, end>>
        /\ Error("ReservedKeyword", TokStart, end).kind # "eof"
        /\ Token("keyword", TokStart, end) \in Item
        /\ Token("keyword", TokStart, end).span = <<TokStart, end>>
        /\ Token("keyword", TokStart, end).kind # "eof"
        /\ Token("identifier", TokStart, end) \in Item
        /\ Token("identifier", TokStart, end).span = <<TokStart, end>>
        /\ Token("identifier", TokStart, end).kind # "eof"
    BY <1>2, <1>4, <2>1, Made
  <2> QED
    BY <2>2
<1> HIDE DEF it
<1> QED
  BY <1>1, <1>2, <1>4, <1>5, InvOneItem

\* A digit that begins a token is followed by the digits' end.
LEMMA DigitsFacts ==
    ASSUME Inv, ~InvalidSpan, Begins(Digit)
    PROVE  /\ DigitsEnd \in (TokStart + 1)..last
           /\ FloatEnd(DigitsEnd) = 0 \/ FloatEnd(DigitsEnd) \in (TokStart + 1)..last
<1>1. TokStart \in Nat /\ TokStart + 1 \in 0..last /\ last \in Nat
  BY BeginsFacts
<1>2. DigitsStart \in (TokStart + 1)..last
  BY <1>1 DEF DigitsStart, IsHex, CharIn
<1>3. DigitsEnd \in DigitsStart..last
  <2> DEFINE end == SkipOver(DigitsStart, NumberDigit \cup {"_"})
             doubled == {k \in (DigitsStart + 1)..(end - 1) :
                             CharAt(k - 1) = "_" /\ CharAt(k) = "_"}
  <2>1. end \in DigitsStart..last
    <3>1. DigitsStart \in 0..last
      BY <1>1, <1>2
    <3> QED
      BY <1>1, <3>1, SkipOverFacts
  <2> HIDE DEF end
  <2>2. doubled \in SUBSET Nat /\ doubled \subseteq DigitsStart..last
    <3>1. DigitsStart \in Nat /\ end \in Nat /\ end <= last
      BY <1>1, <1>2, <2>1
    <3>2. \A k \in (DigitsStart + 1)..(end - 1) : k \in Nat /\ k \in DigitsStart..last
      BY <1>1, <3>1
    <3> QED
      BY <3>2
  <2>3. CASE doubled = {}
    BY <2>1, <2>3 DEF DigitsEnd, end
  <2>4. CASE doubled # {}
    <3>1. \E k \in doubled : \A l \in doubled : k <= l
      <4> HIDE DEF doubled
      <4> QED
        BY <2>2, <2>4, LeastNatural
    <3>2. DigitsEnd = CHOOSE k \in doubled : \A l \in doubled : k <= l
      BY <2>4 DEF DigitsEnd, end
    <3>3. DigitsEnd \in doubled
      <4> HIDE DEF doubled
      <4> QED
        BY <3>1, <3>2
    <3> QED
      BY <2>2, <3>3
  <2> QED
    BY <2>3, <2>4
<1>4. DigitsEnd \in (TokStart + 1)..last
  BY <1>1, <1>2, <1>3
<1>5. ASSUME NEW end \in (TokStart + 1)..last
      PROVE  FloatEnd(end) = 0 \/ FloatEnd(end) \in (TokStart + 1)..last
  <2> DEFINE fraction == SkipOver(end + 1, Digit \cup {"_"})
  <2>0. end \in Nat
    BY <1>1
  <2>1. CASE ~IsHex /\ CharIn(end, {"."}) /\ CharIn(end + 1, Digit)
    <3>1. end + 1 \in 0..last
      BY <1>1, <2>0, <2>1 DEF CharIn
    <3>2. fraction \in (end + 1)..last
      BY <1>1, <3>1, SkipOverFacts
    <3>3. FloatEnd(end) = IF CharIn(fraction, {"f"}) THEN fraction + 1 ELSE fraction
      BY <2>1 DEF FloatEnd, CharIn
    <3> HIDE DEF fraction
    <3> QED
      BY <1>1, <2>0, <3>2, <3>3 DEF CharIn
  <2>2. CASE /\ ~(~IsHex /\ CharIn(end, {"."}) /\ CharIn(end + 1, Digit))
             /\ ~IsHex /\ CharIn(end, {"f"})
    <3>1. FloatEnd(end) = end + 1
      BY <2>2 DEF FloatEnd
    <3> QED
      BY <1>1, <2>0, <2>2, <3>1 DEF CharIn
  <2>3. CASE IsHex
    BY <2>3 DEF FloatEnd
  <2>4. CASE ~IsHex /\ ~CharIn(end, {"f"})
             /\ ~(CharIn(end, {"."}) /\ CharIn(end + 1, Digit))
    BY <2>4 DEF FloatEnd
  <2> QED
    BY <2>1, <2>2, <2>3, <2>4
<1> QED
  BY <1>4, <1>5

LEMMA InvNumber ==
    ASSUME Inv, LexFloat \/ LexInteger
    PROVE  Inv' /\ Grown
<1>1. ~InvalidSpan /\ Begins(Digit)
  BY DEF LexFloat, LexInteger
<1>2. /\ routine = "loop" /\ TokStart \in Nat /\ last \in Nat
      /\ DigitsEnd \in (TokStart + 1)..last
      /\ FloatEnd(DigitsEnd) = 0 \/ FloatEnd(DigitsEnd) \in (TokStart + 1)..last
  BY <1>1, BeginsFacts, DigitsFacts
<1>0. {"float_literal", "integer_literal", "InvalidNumericLiteral"} \subseteq Kind
  BY DEF Kind
<1>3. CASE LexFloat
  <2> DEFINE end == FloatEnd(DigitsEnd)
             it == Token("float_literal", TokStart, end)
  <2>1. end \in (TokStart + 1)..last /\ end \in Nat
    BY <1>2, <1>3 DEF LexFloat
  <2>2. Emit(<<it>>, end)
    BY <1>3 DEF LexFloat
  <2> HIDE DEF end
  <2>3. it \in Item /\ it.span = <<TokStart, end>> /\ it.kind # "eof"
    BY <1>0, <1>2, <2>1, Made
  <2> HIDE DEF it
  <2> QED
    BY <1>1, <1>2, <2>1, <2>2, <2>3, InvOneItem
<1>4. CASE LexInteger
  <2> DEFINE end == DigitsEnd
             it == IF ValidInteger(end) THEN Token("integer_literal", TokStart, end)
                   ELSE Error("InvalidNumericLiteral", TokStart, end)
  <2>1. end \in (TokStart + 1)..last /\ end \in Nat
    BY <1>2
  <2>2. Emit(<<it>>, end)
    BY <1>4 DEF LexInteger
  <2> HIDE DEF end
  <2>3. it \in Item /\ it.span = <<TokStart, end>> /\ it.kind # "eof"
    <3>1. /\ Token("integer_literal", TokStart, end) \in Item
          /\ Token("integer_literal", TokStart, end).span = <<TokStart, end>>
          /\ Token("integer_literal", TokStart, end).kind # "eof"
          /\ Error("InvalidNumericLiteral", TokStart, end) \in Item
          /\ Error("InvalidNumericLiteral", TokStart, end).span = <<TokStart, end>>
          /\ Error("InvalidNumericLiteral", TokStart, end).kind # "eof"
      BY <1>0, <1>2, <2>1, Made
    <3> QED
      BY <3>1
  <2> HIDE DEF it
  <2> QED
    BY <1>1, <1>2, <2>1, <2>2, <2>3, InvOneItem
<1> QED
  BY <1>3, <1>4

\* The error without a place: from here on the items are misplaced.
LEMMA InvDoubledUnderscore ==
    ASSUME Inv, LexDoubledUnderscore
    PROVE  Inv' /\ Grown
<1> DEFINE it == Error("InvalidNumericLiteral", 0, 0)
<1>1. ~InvalidSpan /\ Begins(Digit) /\ Emit(<<it>>, DigitsEnd)
  BY DEF LexDoubledUnderscore
<1>2. /\ items' = items \o <<it>> /\ cur' = DigitsEnd /\ routine' = "loop"
      /\ heads' = heads \cup {DigitsEnd}
      /\ UNCHANGED <<buffer, first, last, tokStart, depth, charCount>>
  BY <1>1 DEF Emit, arguments, scan
<1>3. /\ TokStart \in cur..last /\ cur \in first..last
      /\ first \in Nat /\ last \in Nat /\ DigitsEnd \in (TokStart + 1)..last
  BY <1>1, BeginsFacts, DigitsFacts
<1>4. DigitsEnd \in cur..last /\ DigitsEnd \in first..last /\ DigitsEnd \in Nat
  BY <1>3
<1>5. it \in Item /\ it.span[1] = 0 /\ it.span[2] = 0 /\ it.error /\ it.kind # "eof"
  <2>1. "InvalidNumericLiteral" \in Kind
    BY DEF Kind
  <2>2. it \in Item /\ it.span = <<0, 0>> /\ it.error /\ it.kind = "InvalidNumericLiteral"
    BY <2>1, Made
  <2> QED
    BY <2>2
<1>6. Window /\ ItemsBehind
  BY DEF Inv
<1>7. Misplaced(items)'
  <2> HIDE DEF it
  <2>1. <<it>> \in Seq(Item) /\ 1 \in DOMAIN <<it>> /\ <<it>>[1] = it /\ cur \in Nat
    BY <1>5, <1>6 DEF Window
  <2>2. /\ Len(items) + 1 \in DOMAIN (items \o <<it>>)
        /\ (items \o <<it>>)[Len(items) + 1] = it
    BY <1>6, <2>1, Appended
  <2> QED
    BY <1>2, <2>2 DEF Misplaced, it
<1>8. Window'
  <2>1. Len(buffer) \in Nat /\ last <= Len(buffer)
    BY <1>1, <1>3, <1>6, BufferAssumption DEF Window, InvalidSpan
  <2> QED
    BY <1>2, <1>3, <1>4, <1>6, <2>1 DEF Window
<1>9. Reading' /\ NoneLost'
  BY <1>2, <1>7 DEF Reading, NoneLost, Inside
<1>10. ItemsBehind'
  <2> HIDE DEF it
  <2>1. <<it>> \in Seq(Item) /\ cur \in Nat /\ cur <= DigitsEnd
    BY <1>3, <1>4, <1>5, <1>6 DEF Window
  <2>2. ASSUME NEW k \in DOMAIN (items \o <<it>>)
        PROVE  /\ (items \o <<it>>)[k].span[1] <= (items \o <<it>>)[k].span[2]
               /\ (items \o <<it>>)[k].span[2] <= DigitsEnd
    <3>1. CASE k \in DOMAIN items /\ (items \o <<it>>)[k] = items[k]
      <4>1. items[k].span[2] \in Nat
        BY <1>6, <3>1, SpanType DEF ItemsBehind
      <4> QED
        BY <1>4, <1>6, <2>1, <3>1, <4>1 DEF ItemsBehind
    <3>2. CASE (items \o <<it>>)[k] = it
      BY <1>4, <1>5, <3>2
    <3>3. \A j \in DOMAIN <<it>> : <<it>>[j] = it
      OBVIOUS
    <3> QED
      BY <1>6, <2>1, <3>1, <3>2, <3>3, Appended
  <2>3. items \o <<it>> \in Seq(Item)
    BY <1>6, <2>1, Appended
  <2> QED
    BY <1>2, <1>7, <2>2, <2>3 DEF ItemsBehind
<1>11. InOrder' /\ Grown
  <2> HIDE DEF it
  <2>1. Front' = DigitsEnd /\ Front = cur /\ cur \in Nat /\ cur <= DigitsEnd
    BY <1>1, <1>2, <1>4, <1>6 DEF Front, Inside, Begins, Window
  <2>2. <<it>> \in Seq(Item) /\ \A k \in DOMAIN <<it>> : <<it>>[k] = it
    BY <1>5
  <2>3. Misplaced(<<it>>)
    BY DEF Misplaced, it
  <2>4. routine \in {"loop"} \cup Inside
    BY <1>1 DEF Begins
  <2>5. \A k \in DOMAIN <<it>> : <<it>>[k].error /\ <<it>>[k].kind # "eof"
    BY <1>5, <2>2
  <2>6. items' = items \o <<it>> /\ Front' \in Nat /\ Front <= Front'
    BY <1>2, <1>4, <2>1
  <2>8. Sized(it)
    BY DEF Sized, it
  <2> DEFINE its == <<it>>
  <2>7. /\ its \in Seq(Item) /\ items' = items \o its /\ Misplaced(its)
        /\ \A k \in DOMAIN its :
               its[k].error /\ its[k].kind # "eof" /\ Sized(its[k])
    BY <2>2, <2>3, <2>5, <2>6, <2>8
  <2> HIDE DEF its
  <2> QED
    BY <2>4, <2>6, <2>7, OrderAdded
<1> QED
  BY <1>8, <1>9, <1>10, <1>11 DEF Inv

LEMMA InvLineComment ==
    ASSUME Inv, LexLineComment
    PROVE  Inv' /\ Grown
<1> DEFINE slashes == SkipOver(TokStart, {"/"})
           kind == CASE slashes = TokStart + 3 -> "doc_comment"
                     [] slashes = TokStart + 2 /\ CharIn(slashes, {"!"}) ->
                            "file_doc_comment"
                     [] OTHER -> "comment"
           end == SkipUntil(slashes, LineEnd)
           it == Token(kind, TokStart, end)
<1>1. ~InvalidSpan /\ Begins({"/"}) /\ Emit(<<it>>, end)
  BY DEF LexLineComment
<1>2. /\ routine = "loop" /\ TokStart \in Nat /\ TokStart + 1 \in 0..last
      /\ last \in Nat
  BY <1>1, BeginsFacts
<1>3. slashes \in (TokStart + 1)..last
  <2>1. TokStart \in 0..last /\ CharIn(TokStart, {"/"})
    BY <1>1, <1>2 DEF Begins
  <2>2. slashes \in TokStart..last /\ ~CharIn(slashes, {"/"})
    BY <1>2, <2>1, SkipOverFacts
  <2> HIDE DEF slashes
  <2>3. slashes # TokStart
    BY <2>1, <2>2
  <2> QED
    BY <1>2, <2>2, <2>3
<1>4. kind \in Kind /\ kind # "eof"
  BY DEF Kind
<1> HIDE DEF kind, slashes
<1>5. end \in slashes..last
  <2>1. slashes \in 0..last
    BY <1>2, <1>3
  <2> QED
    BY <1>2, <2>1, SkipUntilFacts
<1> HIDE DEF end
<1>6. end \in (TokStart + 1)..last /\ end \in Nat
  BY <1>2, <1>3, <1>5
<1>7. it \in Item /\ it.span = <<TokStart, end>> /\ it.kind # "eof"
  BY <1>2, <1>4, <1>6, Made
<1> HIDE DEF it
<1> QED
  BY <1>1, <1>2, <1>6, <1>7, InvOneItem

LEMMA InvSymbol ==
    ASSUME Inv, LexSymbol
    PROVE  Inv' /\ Grown
<1> DEFINE ends == {end \in (TokStart + 1)..last : Text(TokStart, end) \in Symbol}
           longest == CHOOSE end \in ends : \A e \in ends : e <= end
<1>1. ~InvalidSpan /\ routine = "loop" /\ TokStart < last
  BY DEF LexSymbol
<1>2. TokStart \in Nat /\ last \in Nat /\ TokStart + 1 \in (TokStart + 1)..last
      /\ TokStart + 1 \in Nat
  BY <1>1, TokStartFacts
<1>3. IF ends = {}
      THEN Emit(<<Error("InvalidCharacter", TokStart, TokStart + 1)>>, TokStart + 1)
      ELSE Emit(<<Token("symbol", TokStart, longest)>>, longest)
  BY DEF LexSymbol
<1>4. \A e \in ends : e \in (TokStart + 1)..last /\ e \in Nat
  BY <1>2
<1>5. ends # {} => longest \in ends
  <2>1. ends \in SUBSET ((TokStart + 1)..last)
    OBVIOUS
  <2> HIDE DEF ends
  <2> QED
    BY <1>2, <2>1, GreatestOf
<1> HIDE DEF ends
<1>0. "InvalidCharacter" \in Kind /\ "symbol" \in Kind
  BY DEF Kind
<1>6. CASE ends = {}
  <2> DEFINE it == Error("InvalidCharacter", TokStart, TokStart + 1)
  <2>1. it \in Item /\ it.span = <<TokStart, TokStart + 1>> /\ it.kind # "eof"
    <3>1. TokStart \in Nat /\ TokStart + 1 \in Nat
      BY <1>2
    <3> QED
      BY <1>0, <3>1, Made
  <2>2. Emit(<<it>>, TokStart + 1)
    BY <1>3, <1>6
  <2> HIDE DEF it
  <2> QED
    BY <1>1, <1>2, <2>1, <2>2, InvOneItem
<1>7. CASE ends # {}
  <2> DEFINE it == Token("symbol", TokStart, longest)
  <2>1. longest \in (TokStart + 1)..last /\ longest \in Nat
    BY <1>4, <1>5, <1>7
  <2>2. Emit(<<it>>, longest)
    BY <1>3, <1>7
  <2> HIDE DEF longest
  <2>3. it \in Item /\ it.span = <<TokStart, longest>> /\ it.kind # "eof"
    BY <1>0, <1>2, <2>1, Made
  <2> HIDE DEF it
  <2> QED
    BY <1>1, <2>1, <2>2, <2>3, InvOneItem
<1> QED
  BY <1>6, <1>7

-----------------------------------------------------------------------------
(* Literals and block comments.                                            *)

LEMMA InsideFacts ==
    ASSUME Inv, routine \in Inside
    PROVE  /\ ~InvalidSpan
           /\ first \in Nat /\ last \in Nat /\ cur \in Nat /\ tokStart \in Nat
           /\ cur \in cur..last /\ first <= tokStart /\ tokStart < cur
           /\ depth \in Nat
BY DEF Inv, Window, Reading, Inside

LEMMA InvEnters ==
    ASSUME Inv, LexQuote \/ EnterBlockComment
    PROVE  Inv' /\ Grown
<1>1. CASE LexQuote
  <2>1. PICK loop \in Inside : \E chars : ~InvalidSpan /\ Begins(chars) /\ Enter(loop, 1)
    BY <1>1 DEF LexQuote, Inside
  <2>2. PICK chars : ~InvalidSpan /\ Begins(chars) /\ Enter(loop, 1)
    BY <2>1
  <2>3. ~InvalidSpan /\ Begins(chars)
    BY <2>2
  <2>4. routine = "loop" /\ TokStart + 1 <= last
    BY <2>3, BeginsFacts
  <2> QED
    BY <2>2, <2>4, InvEnter
<1>2. CASE EnterBlockComment
  <2>1. /\ ~InvalidSpan /\ Begins({"/"}) /\ CharIn(TokStart + 1, {"*"})
        /\ Enter("block", 2)
    BY <1>2 DEF EnterBlockComment
  <2>2. routine = "loop" /\ TokStart \in Nat /\ last \in Nat
    BY <2>1, BeginsFacts
  <2>3. TokStart + 2 <= last
    BY <2>1, <2>2 DEF CharIn
  <2>4. "block" \in Inside /\ 2 \in Nat \ {0}
    BY DEF Inside
  <2> QED
    BY <2>1, <2>2, <2>3, <2>4, InvEnter
<1> QED
  BY <1>1, <1>2

\* An item that covers all that has been read of the literal.
LEMMA InvEnd ==
    ASSUME Inv, routine \in Inside, NEW to \in cur..last, NEW it \in Item,
           it.span = <<tokStart, to>>, it.kind # "eof", Emit(<<it>>, to)
    PROVE  Inv' /\ Grown
<1>1. tokStart \in Nat /\ cur \in Nat /\ tokStart < cur /\ last \in Nat
  BY InsideFacts
<1>2. it.span[1] = tokStart /\ it.span[2] = to /\ to \in Nat /\ tokStart < to
  BY <1>1
<1>3. Fits(<<it>>, tokStart, to)
  BY <1>1, <1>2, FitsOne
<1>4. /\ 1 \in DOMAIN <<it>> /\ <<it>>[1] = it /\ Ordered(<<it>>)
      /\ \A k \in DOMAIN <<it>> : /\ <<it>>[k].kind # "eof"
                                 /\ <<it>>[k].span[1] < <<it>>[k].span[2]
  BY <1>2 DEF Ordered
<1> QED
  BY <1>3, <1>4, InvWhole

LEMMA UnterminatedMade ==
    ASSUME NEW to \in Nat, tokStart \in Nat
    PROVE  /\ Unterminated(to) \in Item /\ Unterminated(to).span = <<tokStart, to>>
           /\ Unterminated(to).error /\ Unterminated(to).kind # "eof"
<1>1. {"UnterminatedStringLiteral", "UnterminatedCharLiteral"} \subseteq Kind
  BY DEF Kind
<1> QED
  BY <1>1, Made DEF Unterminated

LEMMA InvCutOff ==
    ASSUME Inv, CutOff
    PROVE  Inv' /\ Grown
<1> DEFINE end == IF cur = last THEN cur ELSE cur + 1
<1>1. /\ routine \in Inside
      /\ cur = last \/ CharIn(cur, LineEnd)
      /\ Emit(<<Unterminated(end)>>, end)
  BY DEF CutOff, InLiteral, Inside
<1>a. routine \in Inside
  BY <1>1
<1>b. cur \in Nat /\ last \in Nat /\ cur \in cur..last /\ tokStart \in Nat
  BY <1>a, InsideFacts
<1>2. end \in cur..last /\ end \in Nat
  BY <1>1, <1>b DEF CharIn
<1> HIDE DEF end
<1>3. /\ Unterminated(end) \in Item /\ Unterminated(end).span = <<tokStart, end>>
      /\ Unterminated(end).kind # "eof"
  BY <1>2, <1>b, UnterminatedMade
<1> QED
  BY <1>1, <1>2, <1>3, InvEnd

LEMMA InvCloseQuote ==
    ASSUME Inv, CloseQuote
    PROVE  Inv' /\ Grown
<1> DEFINE it == CASE routine = "string" -> Token("string_literal", tokStart, cur + 1)
                   [] routine = "char" /\ charCount = 1 ->
                          Token("char_literal", tokStart, cur + 1)
                   [] routine = "char" /\ charCount = 0 ->
                          Error("EmptyCharLiteral", tokStart, cur + 1)
                   [] OTHER -> Error("MultiCharCharLiteral", tokStart, cur + 1)
<1>1. routine \in Inside /\ CharIn(cur, {Quote}) /\ Emit(<<it>>, cur + 1)
  BY DEF CloseQuote, InLiteral, Inside
<1>2. cur + 1 \in cur..last /\ cur + 1 \in Nat /\ tokStart \in Nat
  BY <1>1, InsideFacts DEF CharIn
<1>3. it \in Item /\ it.span = <<tokStart, cur + 1>> /\ it.kind # "eof"
  <2>1. {"string_literal", "char_literal", "EmptyCharLiteral", "MultiCharCharLiteral"}
            \subseteq Kind
    BY DEF Kind
  <2>2. /\ Token("string_literal", tokStart, cur + 1) \in Item
        /\ Token("string_literal", tokStart, cur + 1).span = <<tokStart, cur + 1>>
        /\ Token("string_literal", tokStart, cur + 1).kind # "eof"
        /\ Token("char_literal", tokStart, cur + 1) \in Item
        /\ Token("char_literal", tokStart, cur + 1).span = <<tokStart, cur + 1>>
        /\ Token("char_literal", tokStart, cur + 1).kind # "eof"
    BY <1>2, <2>1, Made
  <2>3. /\ Error("EmptyCharLiteral", tokStart, cur + 1) \in Item
        /\ Error("EmptyCharLiteral", tokStart, cur + 1).span = <<tokStart, cur + 1>>
        /\ Error("EmptyCharLiteral", tokStart, cur + 1).kind # "eof"
        /\ Error("MultiCharCharLiteral", tokStart, cur + 1) \in Item
        /\ Error("MultiCharCharLiteral", tokStart, cur + 1).span = <<tokStart, cur + 1>>
        /\ Error("MultiCharCharLiteral", tokStart, cur + 1).kind # "eof"
    BY <1>2, <2>1, Made
  <2> QED
    BY <2>2, <2>3
<1> HIDE DEF it
<1> QED
  BY <1>1, <1>2, <1>3, InvEnd

LEMMA InvPlainChar ==
    ASSUME Inv, PlainChar
    PROVE  Inv' /\ Grown
<1>1. PICK n \in {0, 1} : GoOn(cur + 1, n, <<>>)
  BY DEF PlainChar
<1>2. routine \in Inside /\ cur < last
  BY DEF PlainChar, InLiteral, Inside
<1>3. cur + 1 \in cur..last /\ cur + 1 \in Nat /\ tokStart \in Nat
  BY <1>2, InsideFacts
<1> QED
  <2> DEFINE its == <<>>
  <2>1. Fits(its, tokStart, cur + 1) /\ DOMAIN its = {}
    BY <1>3, FitsNone
  <2>2. GoOn(cur + 1, n, its) /\ n \in Nat
    BY <1>1
  <2> HIDE DEF its
  <2> QED
    BY <1>2, <1>3, <2>1, <2>2, InvGoOn

\* Escapes.  Their errors lie in the literal.
LEMMA InvEscapeCutOff ==
    ASSUME Inv, EscapeCutOff
    PROVE  Inv' /\ Grown
<1> DEFINE a == Error("InvalidEscapeSequence", cur, last)
           b == Unterminated(last)
<1>1. /\ routine \in Inside /\ cur + 1 = last /\ Emit(<<a, b>>, last)
  BY DEF EscapeCutOff, InLiteral, Inside
<1>2. /\ last \in cur..last /\ last \in Nat /\ tokStart \in Nat /\ cur \in Nat
      /\ tokStart < cur /\ cur < last
  BY <1>1, InsideFacts
<1>3. "InvalidEscapeSequence" \in Kind
  BY DEF Kind
<1>4. /\ a \in Item /\ a.span = <<cur, last>> /\ a.error /\ a.kind # "eof"
      /\ b \in Item /\ b.span = <<tokStart, last>> /\ b.error /\ b.kind # "eof"
  BY <1>2, <1>3, Made, UnterminatedMade
<1> HIDE DEF a, b
<1>5. /\ a.span[1] = cur /\ a.span[2] = last
      /\ b.span[1] = tokStart /\ b.span[2] = last
  BY <1>4
<1>6. Fits(<<a, b>>, tokStart, last)
  BY <1>2, <1>4, <1>5, FitsTwo
<1>7. 2 \in DOMAIN <<a, b>> /\ <<a, b>>[2].span = <<tokStart, last>>
  BY <1>4
<1>8. /\ Ordered(<<a, b>>)
      /\ \A k \in DOMAIN <<a, b>> : /\ <<a, b>>[k].kind # "eof"
                                    /\ <<a, b>>[k].span[1] < <<a, b>>[k].span[2]
  BY <1>2, <1>4, <1>5 DEF Ordered
<1> QED
  BY <1>1, <1>2, <1>6, <1>7, <1>8, InvWhole

LEMMA EscapeErrors ==
    ASSUME Inv, routine \in Inside, NEW to \in (cur + 1)..last, NEW kind \in Kind \ {"eof"},
           NEW its \in {<<>>, <<Error(kind, cur, to)>>}
    PROVE  /\ Fits(its, tokStart, to)
           /\ \A k \in DOMAIN its : /\ its[k].error /\ its[k].kind # "eof"
                                    /\ its[k].span[1] < its[k].span[2]
<1> DEFINE a == Error(kind, cur, to)
<1>1. /\ tokStart \in Nat /\ cur \in Nat /\ last \in Nat /\ to \in Nat
      /\ tokStart <= cur /\ cur < to
  BY InsideFacts
<1>2. a \in Item /\ a.span = <<cur, to>> /\ a.error /\ a.kind # "eof"
  BY <1>1, Made
<1> HIDE DEF a
<1>3. a.span[1] = cur /\ a.span[2] = to
  BY <1>2
<1>4. Fits(<<a>>, tokStart, to)
  <2>1. tokStart <= a.span[1] /\ a.span[1] <= a.span[2] /\ a.span[2] <= to
    BY <1>1, <1>3
  <2> QED
    BY <1>1, <1>2, <2>1, FitsOne
<1>5. its = <<>> \/ its = <<a>>
  BY DEF a
<1> QED
  BY <1>1, <1>2, <1>3, <1>4, <1>5, FitsNone

LEMMA InvEscape ==
    ASSUME Inv, UnicodeEscape \/ SimpleEscape
    PROVE  Inv' /\ Grown
<1>0. /\ "InvalidUnicodeEscape" \in Kind \ {"eof"}
      /\ "InvalidEscapeSequence" \in Kind \ {"eof"} /\ 1 \in Nat
  BY DEF Kind
<1>1. CASE UnicodeEscape
  <2> DEFINE digits == SkipOver(cur + 3, HexDigit)
             closed == CharIn(digits, {"}"})
             end == IF closed THEN digits + 1 ELSE digits
             its == IF closed /\ digits > cur + 3 THEN <<>>
                    ELSE <<Error("InvalidUnicodeEscape", cur, end)>>
  <2>1. routine \in Inside /\ AtUnicodeEscape /\ GoOn(end, 1, its)
    BY <1>1 DEF UnicodeEscape, InLiteral, Inside
  <2>2. cur \in Nat /\ last \in Nat /\ cur + 3 \in 0..last
    <3>1. routine \in Inside
      BY <2>1
    <3>2. cur \in Nat /\ last \in Nat
      BY <3>1, InsideFacts
    <3>3. cur + 2 < last
      BY <2>1 DEF AtUnicodeEscape, CharIn
    <3> QED
      BY <3>2, <3>3
  <2>3. digits \in (cur + 3)..last
    BY <2>2, SkipOverFacts
  <2> HIDE DEF digits
  <2>4. end \in (cur + 1)..last /\ end \in cur..last
    <3>1. digits \in Nat /\ cur < digits /\ digits <= last
      BY <2>2, <2>3
    <3>2. closed => digits < last
      BY DEF CharIn
    <3> HIDE DEF closed
    <3> QED
      BY <2>2, <3>1, <3>2
  <2> HIDE DEF end
  <2>5. /\ Fits(its, tokStart, end)
        /\ \A k \in DOMAIN its : /\ its[k].error /\ its[k].kind # "eof"
                                 /\ its[k].span[1] < its[k].span[2]
    BY <1>0, <2>1, <2>4, EscapeErrors
  <2> HIDE DEF its
  <2> QED
    BY <1>0, <2>1, <2>4, <2>5, InvGoOn
<1>2. CASE SimpleEscape
  <2> DEFINE end == cur + 2
             its == IF CharAt(cur + 1) \in {"n", "t", "r", "0", "\\", "\"", "'"} THEN <<>>
                    ELSE <<Error("InvalidEscapeSequence", cur, end)>>
  <2>1. routine \in Inside /\ cur + 1 < last /\ GoOn(end, 1, its)
    BY <1>2 DEF SimpleEscape, InLiteral, Inside
  <2>2. end \in (cur + 1)..last /\ end \in cur..last
    <3>1. routine \in Inside /\ cur + 1 < last
      BY <2>1
    <3>2. cur \in Nat /\ last \in Nat
      BY <3>1, InsideFacts
    <3> QED
      BY <3>1, <3>2
  <2> HIDE DEF end
  <2>3. /\ Fits(its, tokStart, end)
        /\ \A k \in DOMAIN its : /\ its[k].error /\ its[k].kind # "eof"
                                 /\ its[k].span[1] < its[k].span[2]
    BY <1>0, <2>1, <2>2, EscapeErrors
  <2> HIDE DEF its
  <2> QED
    BY <1>0, <2>1, <2>2, <2>3, InvGoOn
<1> QED
  BY <1>1, <1>2

\* The round of a block comment is a step of a literal that adds nothing, but for
\* the depth.
LEMMA InvBlockComment ==
    ASSUME Inv, BlockComment
    PROVE  Inv' /\ Grown
<1>1. /\ routine \in Inside /\ cur < last /\ depth > 0
      /\ UNCHANGED <<buffer, first, last, routine, tokStart, charCount, items, heads>>
  BY DEF BlockComment, Inside, arguments
<1>2. depth \in Nat /\ cur \in Nat /\ last \in Nat /\ first \in Nat /\ tokStart \in Nat
      /\ tokStart < cur /\ first <= tokStart /\ ~InvalidSpan
  BY <1>1, InsideFacts
<1>3. depth' \in Nat /\ cur' \in cur..last /\ cur' \in Nat
  <2> DEFINE opens == CharIn(cur, {"/"}) /\ CharIn(cur + 1, {"*"})
             closes == CharIn(cur, {"*"}) /\ CharIn(cur + 1, {"/"})
  <2>1. /\ depth' = CASE opens -> depth + 1 [] closes -> depth - 1 [] OTHER -> depth
        /\ cur' = IF opens \/ closes THEN cur + 2 ELSE cur + 1
    BY DEF BlockComment
  <2>2. opens \/ closes => cur + 1 < last
    BY DEF CharIn
  <2>3. ~(opens /\ closes)
    BY DEF CharIn
  <2> HIDE DEF opens, closes
  <2> QED
    BY <1>1, <1>2, <2>1, <2>2, <2>3
<1>4. Window /\ Reading /\ ItemsBehind /\ NoneLost
  BY DEF Inv
<1>5. ~InvalidSpan'
  BY <1>1, <1>2 DEF InvalidSpan
<1>6. Window'
  BY <1>1, <1>2, <1>3, <1>4 DEF Window
<1>7. Reading'
  BY <1>1, <1>2, <1>3, <1>5 DEF Reading, Inside
<1>8. Misplaced(items)' <=> Misplaced(items)
  BY <1>1 DEF Misplaced
<1>9. ItemsBehind'
  <2>1. \A k \in DOMAIN items : items[k].span[2] \in Nat
    BY <1>4, SpanType DEF ItemsBehind
  <2> QED
    BY <1>1, <1>2, <1>3, <1>4, <1>8, <2>1 DEF ItemsBehind
<1>10. NoneLost'
  <2>1. \A i : Lost(items, i)' <=> Lost(items, i)
    BY <1>1 DEF Lost, CharAt, Covers
  <2>2. Front' = Front
    BY <1>1 DEF Front
  <2> QED
    BY <1>1, <1>2, <1>4, <1>8, <2>1, <2>2 DEF NoneLost
<1>11. InOrder' /\ Grown
  <2>1. Front' = Front /\ Front \in Nat
    BY <1>1, FrontFacts DEF Front
  <2> QED
    BY <1>1, <2>1, OrderStays
<1> QED
  BY <1>6, <1>7, <1>9, <1>10, <1>11 DEF Inv

LEMMA InvEndBlockComment ==
    ASSUME Inv, EndBlockComment
    PROVE  Inv' /\ Grown
<1> DEFINE a == Error("UnterminatedBlockComment", tokStart, cur)
           b == Token("comment", tokStart, cur)
<1>1. routine \in Inside
      /\ Emit((IF depth > 0 THEN <<a>> ELSE <<>>) \o <<b>>, cur)
  BY DEF EndBlockComment, Inside
<1>2. cur \in cur..last /\ cur \in Nat /\ tokStart \in Nat /\ tokStart < cur
  BY <1>1, InsideFacts
<1>3. "UnterminatedBlockComment" \in Kind /\ "comment" \in Kind
  BY DEF Kind
<1>4. /\ a \in Item /\ a.span = <<tokStart, cur>> /\ a.error /\ a.kind # "eof"
      /\ b \in Item /\ b.span = <<tokStart, cur>> /\ b.kind # "eof"
  BY <1>2, <1>3, Made
<1> HIDE DEF a, b
<1>5. /\ a.span[1] = tokStart /\ a.span[2] = cur
      /\ b.span[1] = tokStart /\ b.span[2] = cur
  BY <1>4
<1>6. CASE depth > 0
  <2> DEFINE its == <<a>> \o <<b>>
  <2>1. Emit(its, cur)
    BY <1>1, <1>6
  <2>2. <<a>> \in Seq(Item) /\ <<b>> \in Seq(Item)
    BY <1>4
  <2>3. its \in Seq(Item) /\ Len(its) = 2 /\ its[1] = a /\ its[2] = b
    BY <2>2
  <2> HIDE DEF its
  <2>4. DOMAIN its = {1, 2}
    BY <2>3
  <2>5. Fits(its, tokStart, cur)
    BY <1>2, <1>5, <2>3, <2>4 DEF Fits
  <2>6. 1 \in DOMAIN its /\ its[1].span = <<tokStart, cur>>
    BY <1>4, <2>3, <2>4
  <2>7. /\ Ordered(its)
        /\ \A k \in DOMAIN its : its[k].kind # "eof" /\ its[k].span[1] < its[k].span[2]
    BY <1>2, <1>4, <1>5, <2>3, <2>4 DEF Ordered
  <2> QED
    BY <1>1, <1>2, <2>1, <2>5, <2>6, <2>7, InvWhole
<1>7. CASE ~(depth > 0)
  <2>1. (IF depth > 0 THEN <<a>> ELSE <<>>) \o <<b>> = <<b>>
    BY <1>7
  <2>2. Emit(<<b>>, cur)
    BY <1>1, <2>1
  <2> QED
    BY <1>1, <1>2, <1>4, <2>2, InvEnd
<1> QED
  BY <1>6, <1>7

-----------------------------------------------------------------------------
(* Where a call begins and ends.                                           *)

\* Nothing but the routine changes.
LEMMA InvRests ==
    ASSUME Inv, routine \in {"loop", "done", "building"},
           routine' \in {"done", "building", "stream"},
           routine' = "done" => InvalidSpan,
           UNCHANGED <<buffer, first, last, cur, tokStart, depth, charCount, items, heads>>
    PROVE  Inv'
<1>1. Window /\ Reading /\ ItemsBehind /\ NoneLost
  BY DEF Inv
<1>2. InvalidSpan' <=> InvalidSpan
  BY DEF InvalidSpan
<1>3. Window'
  BY <1>1, <1>2 DEF Window
<1>4. Reading'
  BY <1>2 DEF Reading, Inside
<1>5. Misplaced(items)' <=> Misplaced(items)
  BY DEF Misplaced
<1>6. ItemsBehind'
  BY <1>1, <1>5 DEF ItemsBehind
<1>7. NoneLost'
  <2>1. \A i : Lost(items, i)' <=> Lost(items, i)
    BY DEF Lost, CharAt, Covers
  <2>2. Front = cur /\ Front' = cur
    BY DEF Front, Inside
  <2> QED
    BY <1>1, <1>2, <1>5, <2>1, <2>2 DEF NoneLost
<1>8. InOrder'
  <2>1. Front = cur /\ Front' = cur /\ cur \in Nat
    BY <1>1 DEF Front, Inside, Window
  <2> QED
    BY <2>1, OrderStays DEF Inside
<1> QED
  BY <1>3, <1>4, <1>6, <1>7, <1>8 DEF Inv

LEMMA InvFinish ==
    ASSUME Inv, Finish
    PROVE  Inv' /\ Grown
<1> DEFINE its == IF first = 0 /\ last = Len(buffer) THEN EndOfFile ELSE <<>>
<1>1. /\ routine = "loop" /\ ~InvalidSpan /\ TokStart = last
      /\ cur' = last /\ routine' = "done" /\ items' = items \o its
      /\ UNCHANGED <<buffer, first, last, tokStart, depth, charCount, heads>>
  BY DEF Finish, arguments, scan
<1>2. /\ cur \in first..last /\ first \in Nat /\ last \in Nat /\ cur \in Nat
      /\ cur <= last /\ first <= last
      /\ \A i \in cur..(last - 1) : CharAt(i) \in Whitespace
      /\ Front = cur
  BY <1>1, TokStartFacts
<1>3. Window /\ ItemsBehind /\ NoneLost /\ ~InvalidSpan'
  BY <1>1 DEF Inv, InvalidSpan
<1>4. Fits(its, first, last)
  <2>1. CASE first = 0 /\ last = Len(buffer)
    <3> DEFINE it == Token("eof", last, last)
    <3>1. its = <<it>>
      BY <2>1 DEF EndOfFile
    <3>2. "eof" \in Kind
      BY DEF Kind
    <3>3. it \in Item /\ it.span = <<last, last>>
      BY <1>2, <3>2, Made
    <3> HIDE DEF it, its
    <3>4. it.span[1] = last /\ it.span[2] = last
      BY <3>3
    <3> QED
      BY <1>2, <3>1, <3>3, <3>4, FitsOne
  <2>2. CASE ~(first = 0 /\ last = Len(buffer))
    BY <1>2, <2>2, FitsNone
  <2> QED
    BY <2>1, <2>2
<1> HIDE DEF its
<1>5. its \in Seq(Item) /\ \A k \in DOMAIN its : its[k].span[2] <= last
  BY <1>4 DEF Fits
<1>6. Window'
  BY <1>1, <1>2, <1>3 DEF Window
<1>7. Reading'
  BY <1>1 DEF Reading, Inside
<1>8. ItemsBehind'
  BY <1>1, <1>2, <1>3, <1>4, ItemsAdded
<1>9. NoneLost'
  <2>1. Misplaced(items) => Misplaced(items)'
    BY <1>1, <1>2, <1>3, <1>5, Appended DEF Misplaced
  <2>2. \A i : Lost(items, i)' <=> Lost(items \o its, i)
    BY <1>1 DEF Lost, CharAt, Covers
  <2>3. \A i : Lost(items \o its, i) => Lost(items, i)
    BY <1>2, <1>3, <1>5, Appended
  <2>4. \A i \in cur..(last - 1) : ~Lost(items, i)
    BY <1>2 DEF Lost
  <2>5. ~Misplaced(items) => \A i \in first..(cur - 1) : ~Lost(items, i)
    BY <1>1, <1>2, <1>3 DEF NoneLost
  <2>6. \A i \in first..(last - 1) : i \in first..(cur - 1) \/ i \in cur..(last - 1)
    BY <1>2
  <2>7. Front' = last
    BY <1>1 DEF Front, Inside
  <2> QED
    BY <1>1, <2>1, <2>2, <2>3, <2>4, <2>5, <2>6, <2>7 DEF NoneLost
<1>10. InOrder' /\ Grown
  <2>1. Front = cur /\ Front' = last
    BY <1>1, <1>2 DEF Front, Inside
  <2>2. Ordered(its) /\ \A k \in DOMAIN its : Front <= its[k].span[1] /\ Sized(its[k])
    <3>1. CASE first = 0 /\ last = Len(buffer)
      <4>1. its = <<Token("eof", last, last)>>
        BY <3>1 DEF its, EndOfFile
      <4>2. Token("eof", last, last).span[1] = last /\ Sized(Token("eof", last, last))
        BY DEF Token, Sized
      <4> QED
        BY <1>2, <2>1, <4>1, <4>2 DEF Ordered
    <3>2. CASE its = <<>>
      BY <3>2 DEF Ordered
    <3> QED
      BY <3>1, <3>2 DEF its
  <2>3. routine' \notin {"loop"} \cup Inside
    BY <1>1 DEF Inside
  <2> QED
    BY <1>1, <1>2, <1>5, <2>1, <2>2, <2>3, OrderAdded
<1> QED
  BY <1>6, <1>7, <1>8, <1>9, <1>10 DEF Inv

LEMMA InvRelex ==
    ASSUME Inv, Relex
    PROVE  Inv'
<1>1. PICK from, to \in heads : first' = from /\ last' = to /\ cur' = from
  BY DEF Relex
<1>2. /\ items' = <<>> /\ tokStart' = 0 /\ depth' = 0 /\ charCount' = 0
      /\ routine' = "loop" /\ UNCHANGED <<buffer, heads>>
  BY DEF Relex
<1>3. Window
  BY DEF Inv
<1>4. /\ Len(buffer) \in Nat /\ heads \subseteq 0..Len(buffer)
      /\ buffer \in Buffers
  BY <1>3, BufferAssumption DEF Window
<1>5. /\ from \in Nat /\ to \in Nat
      /\ from <= Len(buffer) /\ to <= Len(buffer)
  BY <1>4
<1>6. Window'
  BY <1>1, <1>2, <1>4, <1>5 DEF Window, InvalidSpan
<1>7. Reading' /\ ItemsBehind'
  BY <1>2 DEF Reading, Inside, ItemsBehind
<1>8. NoneLost'
  <2>1. Front' = first'
    BY <1>1, <1>2 DEF Front, Inside
  <2>2. first' \in Nat
    BY <1>1, <1>5
  <2> DEFINE n == first'
  <2>3. \A i \in n..(n - 1) : FALSE
    <3> HIDE DEF n
    <3>1. n \in Nat
      BY <2>2 DEF n
    <3> QED
      BY <3>1
  <2> QED
    BY <2>1, <2>3 DEF NoneLost
<1>9. InOrder'
  BY <1>2 DEF InOrder, Ordered
<1> QED
  BY <1>6, <1>7, <1>8, <1>9 DEF Inv

LEMMA InvStutter ==
    ASSUME Inv, UNCHANGED vars \/ TakeItem
    PROVE  Inv'
<1>1. UNCHANGED <<buffer, first, last, cur, routine, tokStart, depth, charCount,
                  items, heads>>
  BY DEF vars, arguments, scan, TakeItem
<1>2. Window /\ Reading /\ ItemsBehind /\ NoneLost
  BY DEF Inv
<1>3. InvalidSpan' <=> InvalidSpan
  BY <1>1 DEF InvalidSpan
<1>4. Window' /\ Reading'
  BY <1>1, <1>2, <1>3 DEF Window, Reading
<1>5. Misplaced(items)' <=> Misplaced(items)
  BY <1>1 DEF Misplaced
<1>6. ItemsBehind'
  BY <1>1, <1>2, <1>5 DEF ItemsBehind
<1>7. NoneLost'
  <2>1. \A i : Lost(items, i)' <=> Lost(items, i)
    BY <1>1 DEF Lost, CharAt, Covers
  <2>2. Front' = Front
    BY <1>1 DEF Front
  <2> QED
    BY <1>1, <1>2, <1>3, <1>5, <2>1, <2>2 DEF NoneLost
<1>8. InOrder'
  <2>1. Front' = Front /\ Front \in Nat
    BY <1>1, FrontFacts DEF Front
  <2> QED
    BY <1>1, <2>1, OrderStays
<1> QED
  BY <1>4, <1>6, <1>7, <1>8 DEF Inv

-----------------------------------------------------------------------------
(* The theorems.                                                           *)

LEMMA InvNext == Inv /\ [Next]_vars => Inv'
<1> SUFFICES ASSUME Inv, [Next]_vars PROVE Inv'
  OBVIOUS
<1>1. CASE RejectSpan
  BY <1>1, InvRests DEF RejectSpan, arguments, scan
<1>2. CASE BuildStream \/ EndStream
  BY <1>2, InvRests DEF BuildStream, EndStream, arguments, scan
<1>3. CASE LexIdentifier \/ LexDoubledUnderscore \/ LexFloat \/ LexInteger
  BY <1>3, InvIdentifier, InvDoubledUnderscore, InvNumber
<1>4. CASE LexQuote \/ CutOff \/ CloseQuote \/ PlainChar
  BY <1>4, InvEnters, InvCutOff, InvCloseQuote, InvPlainChar
<1>5. CASE EscapeCutOff \/ UnicodeEscape \/ SimpleEscape
  BY <1>5, InvEscapeCutOff, InvEscape
<1>6. CASE LexLineComment \/ EnterBlockComment \/ BlockComment \/ EndBlockComment
  BY <1>6, InvLineComment, InvEnters, InvBlockComment, InvEndBlockComment
<1>7. CASE Finish \/ LexSymbol \/ Relex
  BY <1>7, InvFinish, InvSymbol, InvRelex
<1>8. CASE TakeItem \/ UNCHANGED vars
  BY <1>8, InvStutter
<1> QED
  BY <1>1, <1>2, <1>3, <1>4, <1>5, <1>6, <1>7, <1>8 DEF Next

\* Whatever has been passed in the window is covered by an item or is white
\* space, and the items lie in it (the loop of lex, Lexer.cpp:122).
THEOREM Invariance == Spec => []Inv
BY InvInit, InvNext, PTL DEF Spec

\* For every buffer and every window, the pointer and the spans stay inside the
\* window, though escapes, comments and numbers look two bytes ahead
\* (Lexer.cpp:717).
THEOREM Types == Spec => []TypeOK
BY Invariance, InvFacts, PTL

\* No byte gets lost, wherever the end of the line or of the window cuts off a
\* literal, an escape or a comment (Lexer.cpp:614), unless a number has two
\* underscores in a row (Lexer.cpp:505).
THEOREM NothingLost == Spec => []NothingSkipped
BY Invariance, InvFacts, PTL

-----------------------------------------------------------------------------
(* The stream.                                                             *)

Lexing == {"loop"} \cup Inside
Streams == {"building", "stream"}

\* The items of a whole buffer end with the end of the file, and nowhere else.
Ended ==
    /\ items # <<>> /\ items[Len(items)] = Token("eof", last, last)
    /\ \A k \in 1..(Len(items) - 1) : items[k].kind # "eof"

\* The whole buffer is lexed before a part of it, and a stream is made of it.
WholeFirst ==
    /\ whole = <<>> => first = 0 /\ last \in {Len(buffer), Len(buffer) + 1}
    /\ routine \in Streams => whole = <<>>
    /\ routine \in {"done"} \cup Streams /\ whole = <<>> /\ ~InvalidSpan => Ended

StreamToken == [kind : Kind \cup {"unknown"}, span : Nat \X Nat]
Unknown(toks) == {k \in DOMAIN toks : toks[k].kind = "unknown"}
InTurn(toks) ==
    \A j, k \in DOMAIN toks :
        j < k /\ toks[j].kind # "unknown" => toks[j].span[2] <= toks[k].span[1]
EndsOnce(toks) ==
    /\ toks # <<>> /\ toks[Len(toks)] = [kind |-> "eof", span |-> <<last, last>>]
    /\ \A k \in 1..(Len(toks) - 1) : toks[k].kind # "eof"

\* A token has been made of one of the items taken.
Built ==
    /\ taken \in 0..Len(items)
    /\ tokens \in Seq(StreamToken) /\ lexErrors \in Seq(Item)
    /\ routine \notin Streams => taken = 0 /\ tokens = <<>> /\ lexErrors = <<>>
    /\ routine = "stream" => taken = Len(items)
    /\ \A k \in DOMAIN tokens : \E i \in 1..taken : tokens[k] = Taken(items[i])
    /\ Misplaced(items) \/ InTurn(tokens)
    /\ Len(lexErrors) = Cardinality(Unknown(tokens))
    /\ routine \in Streams /\ ~InvalidSpan =>
           IF taken < Len(items) THEN \A k \in DOMAIN tokens : tokens[k].kind # "eof"
           ELSE EndsOnce(tokens)

StreamInv == Inv /\ WholeFirst /\ Built

LEMMA UnknownAppended ==
    ASSUME NEW toks \in Seq(StreamToken), NEW t \in StreamToken
    PROVE  /\ IsFiniteSet(Unknown(toks))
           /\ Cardinality(Unknown(Append(toks, t))) =
                  Cardinality(Unknown(toks)) + IF t.kind = "unknown" THEN 1 ELSE 0
<1> DEFINE n == Len(toks)
<1>1. n \in Nat /\ DOMAIN toks = 1..n
  OBVIOUS
<1>2. /\ DOMAIN Append(toks, t) = 1..(n + 1) /\ Append(toks, t)[n + 1] = t
      /\ \A k \in 1..n : Append(toks, t)[k] = toks[k]
  OBVIOUS
<1> HIDE DEF n
<1>3. IsFiniteSet(1..n) /\ Unknown(toks) \subseteq 1..n
  BY <1>1, FS_Interval DEF Unknown
<1>4. IsFiniteSet(Unknown(toks))
  BY <1>3, FS_Subset
<1>5. n + 1 \notin Unknown(toks)
  BY <1>1 DEF Unknown
<1>6. CASE t.kind = "unknown"
  <2>1. Unknown(Append(toks, t)) = Unknown(toks) \cup {n + 1}
    BY <1>1, <1>2, <1>6 DEF Unknown
  <2> QED
    BY <1>4, <1>5, <1>6, <2>1, FS_AddElement
<1>7. CASE t.kind # "unknown"
  <2>1. Unknown(Append(toks, t)) = Unknown(toks)
    BY <1>1, <1>2, <1>7 DEF Unknown
  <2>2. Cardinality(Unknown(toks)) \in Nat
    BY <1>4, FS_CardinalityType
  <2> QED
    BY <1>4, <1>7, <2>1, <2>2
<1> QED
  BY <1>4, <1>6, <1>7

LEMMA NoUnknown == Len(<<>>) = Cardinality(Unknown(<<>>))
<1>1. Unknown(<<>>) = {}
  BY DEF Unknown
<1> QED
  BY <1>1, FS_EmptySet

\* What a step of lex leaves alone.
LEMMA LexSteps ==
    ASSUME Inv,
           \/ LexIdentifier \/ LexDoubledUnderscore \/ LexFloat \/ LexInteger
           \/ LexQuote \/ CutOff \/ CloseQuote \/ PlainChar
           \/ EscapeCutOff \/ UnicodeEscape \/ SimpleEscape
           \/ LexLineComment \/ EnterBlockComment \/ BlockComment \/ EndBlockComment
           \/ LexSymbol
    PROVE  /\ routine \in Lexing /\ routine' \in Lexing
           /\ UNCHANGED <<buffer, first, last, tokens, lexErrors, taken, whole>>
<1>1. CASE LexIdentifier \/ LexDoubledUnderscore \/ LexFloat \/ LexInteger
  <2>1. routine = "loop"
    BY <1>1 DEF LexIdentifier, LexDoubledUnderscore, LexFloat, LexInteger, Begins
  <2> QED
    BY <1>1, <2>1 DEF LexIdentifier, LexDoubledUnderscore, LexFloat, LexInteger, Emit,
       arguments, stream, Lexing
<1>2. CASE LexLineComment \/ LexSymbol
  <2>1. routine = "loop"
    BY <1>2 DEF LexLineComment, LexSymbol, Begins
  <2> QED
    BY <1>2, <2>1 DEF LexLineComment, LexSymbol, Emit, arguments, stream, Lexing
<1>3. CASE LexQuote \/ EnterBlockComment
  BY <1>3 DEF LexQuote, EnterBlockComment, Begins, Enter, arguments, stream, Lexing, Inside
<1>4. CASE CutOff \/ CloseQuote \/ EscapeCutOff
  <2>1. routine \in Inside
    BY <1>4 DEF CutOff, CloseQuote, EscapeCutOff, InLiteral, Inside
  <2> QED
    BY <1>4, <2>1 DEF CutOff, CloseQuote, EscapeCutOff, Emit, arguments, stream, Lexing
<1>5. CASE PlainChar \/ UnicodeEscape \/ SimpleEscape
  <2>1. routine \in Inside
    BY <1>5 DEF PlainChar, UnicodeEscape, SimpleEscape, InLiteral, Inside
  <2> QED
    BY <1>5, <2>1 DEF PlainChar, UnicodeEscape, SimpleEscape, GoOn, arguments, stream,
       Lexing
<1>6. CASE BlockComment \/ EndBlockComment
  BY <1>6 DEF BlockComment, EndBlockComment, Emit, arguments, stream, Lexing, Inside
<1> QED
  BY <1>1, <1>2, <1>3, <1>4, <1>5, <1>6

LEMMA WholeFirstNext ==
    ASSUME Inv, WholeFirst, [Next]_vars
    PROVE  WholeFirst'
<1>1. CASE /\ routine' \in Lexing
           /\ UNCHANGED <<buffer, first, last, whole>>
  BY <1>1 DEF WholeFirst, Lexing, Inside, Streams
<1>2. CASE RejectSpan
  BY <1>2 DEF RejectSpan, WholeFirst, arguments, InvalidSpan, Streams
<1>3. CASE Finish
  <2>1. /\ routine = "loop" /\ ~InvalidSpan /\ routine' = "done"
        /\ items' = items \o IF first = 0 /\ last = Len(buffer) THEN EndOfFile ELSE <<>>
        /\ UNCHANGED <<buffer, first, last, whole>>
    BY <1>3 DEF Finish, arguments
  <2>2. CASE whole = <<>>
    <3>1. first = 0 /\ last = Len(buffer) /\ Len(buffer) \in Nat
      BY <2>1, <2>2, BufferAssumption DEF WholeFirst, InvalidSpan, Inv, Window
    <3>2. items' = items \o <<Token("eof", last, last)>>
      BY <2>1, <3>1 DEF EndOfFile
    <3>3. items \in Seq(Item) /\ \A k \in DOMAIN items : items[k].kind # "eof"
      BY <2>1 DEF Inv, ItemsBehind, InOrder
    <3> DEFINE it == Token("eof", last, last)
    <3>4. it \in Item
      <4>1. "eof" \in Kind
        BY DEF Kind
      <4> QED
        BY <3>1, <4>1, Made
    <3> HIDE DEF it
    <3>5. Len(items') = Len(items) + 1 /\ items'[Len(items')] = it /\ items' # <<>>
          /\ \A k \in 1..Len(items) : items'[k] = items[k]
      BY <3>2, <3>3, <3>4 DEF it
    <3>6. \A k \in 1..(Len(items') - 1) : items'[k].kind # "eof"
      BY <3>3, <3>5
    <3>7. Ended'
      BY <2>1, <3>5, <3>6 DEF Ended, it, Token
    <3> QED
      BY <2>1, <2>2, <3>7 DEF WholeFirst, Streams
  <2>3. CASE whole # <<>>
    BY <2>1, <2>3 DEF WholeFirst, Streams
  <2> QED
    BY <2>2, <2>3
<1>4. CASE BuildStream \/ TakeItem \/ EndStream \/ UNCHANGED vars
  <2>1. /\ UNCHANGED <<buffer, first, last, items, whole>>
        /\ \/ routine' = routine
           \/ routine = "done" /\ whole = <<>> /\ routine' \in Streams
           \/ routine \in Streams /\ routine' \in Streams
    BY <1>4 DEF BuildStream, TakeItem, EndStream, vars, arguments, Streams
  <2>2. (Ended' <=> Ended) /\ (InvalidSpan' <=> InvalidSpan)
    BY <2>1 DEF Ended, Token, InvalidSpan
  <2>3. routine' \in Streams => whole = <<>>
    BY <2>1 DEF WholeFirst
  <2>4. routine' \in {"done"} \cup Streams => routine \in {"done"} \cup Streams
    BY <2>1
  <2> QED
    BY <2>1, <2>2, <2>3, <2>4 DEF WholeFirst
<1>5. CASE Relex
  <2>1. routine = "done" /\ whole = <<>> /\ ~InvalidSpan /\ whole' = items
        /\ routine' = "loop"
    BY <1>5 DEF Relex
  <2>2. whole' # <<>>
    BY <2>1 DEF WholeFirst, Ended
  <2> QED
    BY <2>1, <2>2 DEF WholeFirst, Streams
<1> QED
  BY <1>1, <1>2, <1>3, <1>4, <1>5, LexSteps DEF Next

\* Nothing has been taken yet.
LEMMA NothingBuilt ==
    ASSUME items' \in Seq(Item), taken' = 0, tokens' = <<>>, lexErrors' = <<>>,
           routine' # "stream", routine' \in Streams => items' # <<>> \/ InvalidSpan'
    PROVE  Built'
<1>1. Len(items') \in Nat
  OBVIOUS
<1>2. (Len(lexErrors) = Cardinality(Unknown(tokens)))'
  BY NoUnknown DEF Unknown
<1>3. routine' \in Streams /\ ~InvalidSpan' => taken' < Len(items')
  OBVIOUS
<1>4. InTurn(tokens)'
  BY DEF InTurn
<1> QED
  BY <1>1, <1>2, <1>3, <1>4 DEF Built

LEMMA TakenFacts ==
    ASSUME NEW it \in Item
    PROVE  /\ Taken(it) \in StreamToken /\ Taken(it).span = it.span
           /\ Taken(it).kind = "unknown" <=> it.error
           /\ ~it.error => Taken(it).kind = it.kind
           /\ it.error => Taken(it).kind = "unknown"
<1>1. it.error \in BOOLEAN /\ it.kind \in Kind /\ it.span \in Nat \X Nat
  BY DEF Item
<1>2. "unknown" \notin Kind
  BY DEF Kind
<1> QED
  BY <1>1, <1>2 DEF Taken, StreamToken

\* An item is taken: nothing changes in the stream for a comment, else it gets one
\* token more.
LEMMA TakeItemBuilt ==
    ASSUME Inv, WholeFirst, Built, TakeItem
    PROVE  Built'
<1> DEFINE it == items[taken + 1]
           t == Taken(it)
<1>1. /\ routine = "building" /\ taken < Len(items) /\ taken' = taken + 1
      /\ tokens' = IF Kept(it) THEN Append(tokens, t) ELSE tokens
      /\ lexErrors' = IF it.error THEN Append(lexErrors, it) ELSE lexErrors
      /\ UNCHANGED <<buffer, first, last, routine, items, whole>>
  BY DEF TakeItem, arguments
<1>2. /\ items \in Seq(Item) /\ Len(items) \in Nat /\ DOMAIN items = 1..Len(items)
      /\ Misplaced(items) \/ Ordered(items)
  BY DEF Inv, ItemsBehind, InOrder
<1>3. /\ taken \in Nat /\ taken + 1 \in 1..Len(items)
      /\ tokens \in Seq(StreamToken) /\ lexErrors \in Seq(Item)
      /\ \A k \in DOMAIN tokens : \E i \in 1..taken : tokens[k] = Taken(items[i])
      /\ Misplaced(items) \/ InTurn(tokens)
      /\ Len(lexErrors) = Cardinality(Unknown(tokens))
  BY <1>1, <1>2 DEF Built
<1>4. it \in Item
  BY <1>2, <1>3
<1>5. /\ t \in StreamToken /\ t.span = it.span
      /\ t.kind = "unknown" <=> it.error
      /\ ~it.error => t.kind = it.kind
  BY <1>4, TakenFacts
<1>6. it.error => Kept(it)
  BY DEF Kept
<1> HIDE DEF t
<1>7. /\ Len(tokens) \in Nat /\ DOMAIN tokens = 1..Len(tokens)
      /\ Len(Append(tokens, t)) = Len(tokens) + 1
      /\ DOMAIN Append(tokens, t) = 1..(Len(tokens) + 1)
      /\ Append(tokens, t)[Len(tokens) + 1] = t
      /\ \A k \in DOMAIN tokens : Append(tokens, t)[k] = tokens[k]
      /\ Append(tokens, t) \in Seq(StreamToken)
  BY <1>3, <1>5
<1>8. /\ taken' \in 0..Len(items') /\ tokens' \in Seq(StreamToken)
      /\ lexErrors' \in Seq(Item)
      /\ routine' \in Streams /\ routine' # "stream"
  BY <1>1, <1>2, <1>3, <1>4, <1>7 DEF Streams
<1>9. ASSUME NEW k \in DOMAIN tokens'
      PROVE  \E i \in 1..(taken + 1) : tokens'[k] = Taken(items[i])
  <2>1. CASE k \in DOMAIN tokens /\ tokens'[k] = tokens[k]
    <3>1. PICK i \in 1..taken : tokens[k] = Taken(items[i])
      BY <1>3, <2>1
    <3>2. i \in 1..(taken + 1)
      BY <1>3
    <3> QED
      BY <2>1, <3>1, <3>2
  <2>2. CASE tokens'[k] = t
    BY <1>3, <2>2 DEF t
  <2>3. \/ k \in DOMAIN tokens /\ tokens'[k] = tokens[k]
        \/ tokens'[k] = t
    BY <1>1, <1>7
  <2> QED
    BY <2>1, <2>2, <2>3
<1>10. ASSUME Ordered(items), InTurn(tokens)
       PROVE  InTurn(Append(tokens, t))
  <2>1. SUFFICES ASSUME NEW j \in DOMAIN Append(tokens, t), NEW k \in DOMAIN Append(tokens, t),
                        j < k, Append(tokens, t)[j].kind # "unknown"
                 PROVE  Append(tokens, t)[j].span[2] <= Append(tokens, t)[k].span[1]
    BY DEF InTurn
  <2>2. CASE k \in DOMAIN tokens
    <3>1. j \in DOMAIN tokens
      BY <1>7, <2>1, <2>2
    <3> QED
      BY <1>7, <1>10, <2>1, <2>2, <3>1 DEF InTurn
  <2>3. CASE k = Len(tokens) + 1
    <3>1. j \in DOMAIN tokens
      BY <1>7, <2>1, <2>3
    <3>2. PICK i \in 1..taken : tokens[j] = Taken(items[i])
      BY <1>3, <3>1
    <3>3. i \in DOMAIN items /\ taken + 1 \in DOMAIN items /\ i < taken + 1
      BY <1>2, <1>3
    <3>4. items[i] \in Item
      BY <1>2, <3>3
    <3>5. tokens[j].span = items[i].span /\ ~items[i].error
      BY <1>7, <2>1, <3>1, <3>2, <3>4, TakenFacts
    <3>6. items[i].span[2] <= it.span[1]
      BY <1>10, <3>3, <3>5 DEF Ordered
    <3> QED
      BY <1>5, <1>7, <2>3, <3>1, <3>5, <3>6
  <2> QED
    BY <1>7, <2>2, <2>3
<1>11. Misplaced(items') \/ InTurn(tokens')
  BY <1>1, <1>2, <1>3, <1>10
<1>12. Len(lexErrors') = Cardinality(Unknown(tokens'))
  <2>1. Cardinality(Unknown(Append(tokens, t))) =
            Cardinality(Unknown(tokens)) + IF it.error THEN 1 ELSE 0
    BY <1>3, <1>5, UnknownAppended
  <2>2. Len(Append(lexErrors, it)) = Len(lexErrors) + 1 /\ Len(lexErrors) \in Nat
    BY <1>3
  <2>3. CASE Kept(it)
    BY <1>1, <1>3, <2>1, <2>2, <2>3
  <2>4. CASE ~Kept(it)
    BY <1>1, <1>3, <1>6, <2>4
  <2> QED
    BY <2>3, <2>4
<1>13. ASSUME ~InvalidSpan
       PROVE  IF taken + 1 < Len(items) THEN \A k \in DOMAIN tokens' : tokens'[k].kind # "eof"
              ELSE EndsOnce(tokens')
  <2>1. Ended
    BY <1>1, <1>13 DEF WholeFirst, Streams
  <2>2. \A k \in DOMAIN tokens : tokens[k].kind # "eof"
    BY <1>1, <1>13 DEF Built, Streams
  <2>3. CASE taken + 1 < Len(items)
    <3>1. it.kind # "eof"
      BY <1>2, <1>3, <2>1, <2>3 DEF Ended
    <3>2. t.kind # "eof"
      <4>1. it.error => t.kind # "eof"
        BY <1>5
      <4> QED
        BY <1>5, <3>1, <4>1
    <3>3. \A k \in DOMAIN Append(tokens, t) : Append(tokens, t)[k].kind # "eof"
      BY <1>7, <2>2, <3>2
    <3> QED
      BY <1>1, <2>2, <2>3, <3>3
  <2>4. CASE taken + 1 = Len(items)
    <3>1. it = Token("eof", last, last)
      BY <2>1, <2>4 DEF Ended
    <3>2. t = [kind |-> "eof", span |-> <<last, last>>] /\ Kept(it)
      BY <3>1 DEF t, Token, Taken, Kept
    <3>3. tokens' = Append(tokens, t) /\ Append(tokens, t) # <<>>
      BY <1>1, <1>7, <3>2
    <3>4. \A k \in 1..(Len(Append(tokens, t)) - 1) : Append(tokens, t)[k].kind # "eof"
      BY <1>7, <2>2
    <3>5. Append(tokens, t)[Len(Append(tokens, t))] = [kind |-> "eof", span |-> <<last, last>>]
      BY <1>7, <3>2
    <3> QED
      BY <2>4, <3>3, <3>4, <3>5 DEF EndsOnce
  <2>5. taken + 1 < Len(items) \/ taken + 1 = Len(items)
    <3> DEFINE n == Len(items)
    <3>1. taken \in Nat /\ n \in Nat /\ taken < n
      BY <1>1, <1>2, <1>3
    <3> HIDE DEF n
    <3>2. taken + 1 < n \/ taken + 1 = n
      BY <3>1
    <3> QED
      BY <3>2 DEF n
  <2> QED
    BY <2>3, <2>4, <2>5, Zenon
<1>14. ~InvalidSpan' =>
           IF taken' < Len(items') THEN \A k \in DOMAIN tokens' : tokens'[k].kind # "eof"
           ELSE EndsOnce(tokens)'
  BY <1>1, <1>13 DEF InvalidSpan, EndsOnce
<1>15. \A k \in DOMAIN tokens' : \E i \in 1..taken' : tokens'[k] = Taken(items'[i])
  BY <1>1, <1>9
<1> QED
  BY <1>8, <1>11, <1>12, <1>14, <1>15 DEF Built, InTurn, Unknown, Misplaced, Taken

LEMMA BuiltNext ==
    ASSUME Inv, WholeFirst, Built, [Next]_vars
    PROVE  Built'
<1>0. Inv' /\ WholeFirst'
  BY InvNext, WholeFirstNext
<1>1. items' \in Seq(Item)
  BY <1>0 DEF Inv, ItemsBehind
<1>2. CASE routine \in Lexing /\ routine' \in Lexing /\ UNCHANGED <<tokens, lexErrors, taken>>
  BY <1>1, <1>2, NothingBuilt DEF Built, Lexing, Inside, Streams
<1>3. CASE RejectSpan \/ Finish \/ Relex
  <2>1. routine \notin Streams /\ routine' \notin Streams
        /\ UNCHANGED <<tokens, lexErrors, taken>>
    BY <1>3 DEF RejectSpan, Finish, Relex, stream, Streams
  <2> QED
    BY <1>1, <2>1, NothingBuilt DEF Built, Streams
<1>4. CASE BuildStream
  <2>1. /\ routine = "done" /\ routine' = "building" /\ UNCHANGED <<tokens, lexErrors, taken>>
    BY <1>4 DEF BuildStream, stream
  <2>2. ~InvalidSpan' => items' # <<>>
    BY <1>0, <2>1 DEF WholeFirst, Ended, Streams
  <2> QED
    BY <1>1, <2>1, <2>2, NothingBuilt DEF Built, Streams
<1>5. CASE TakeItem
  BY <1>5, TakeItemBuilt
<1>6. CASE EndStream \/ UNCHANGED vars
  <2>1. /\ UNCHANGED <<buffer, first, last, items, tokens, lexErrors, taken>>
        /\ \/ routine' = routine
           \/ routine = "building" /\ routine' = "stream" /\ taken = Len(items)
    BY <1>6 DEF EndStream, vars, arguments, stream
  <2>2. (InvalidSpan' <=> InvalidSpan) /\ (Misplaced(items)' <=> Misplaced(items))
    BY <2>1 DEF InvalidSpan, Misplaced
  <2>3. (routine \in Streams)' <=> routine \in Streams
    BY <2>1 DEF Streams
  <2> QED
    BY <2>1, <2>2, <2>3 DEF Built, InTurn, Unknown, EndsOnce, Taken
<1> QED
  BY <1>2, <1>3, <1>4, <1>5, <1>6, LexSteps DEF Next

LEMMA StreamInvInit == Init => StreamInv
<1> SUFFICES ASSUME Init PROVE StreamInv
  OBVIOUS
<1>1. Inv
  BY InvInit
<1>2. WholeFirst
  BY DEF Init, WholeFirst, Streams
<1>3. Built
  BY NoUnknown DEF Init, Built, Streams, InTurn
<1> QED
  BY <1>1, <1>2, <1>3 DEF StreamInv

LEMMA StreamInvNext == StreamInv /\ [Next]_vars => StreamInv'
BY InvNext, WholeFirstNext, BuiltNext DEF StreamInv

LEMMA StreamInvFacts == StreamInv => StreamInOrder
<1> SUFFICES ASSUME StreamInv, routine = "stream", ~InvalidSpan PROVE StreamInOrder
  BY DEF StreamInOrder
<1>1. /\ taken = Len(items)
      /\ Misplaced(items) \/ InTurn(tokens)
      /\ Len(lexErrors) = Cardinality(Unknown(tokens))
      /\ Len(items) \in Nat
  BY DEF StreamInv, Built, Inv, ItemsBehind
<1>2. EndsOnce(tokens)
  BY <1>1 DEF StreamInv, Built, Streams
<1> QED
  BY <1>1, <1>2 DEF StreamInOrder, EndsOnce, InTurn, Unknown

\* The parser gets the text of every buffer once and in order, an unknown token for
\* each error, however errors, comments and cut-off literals are mixed, and one eof
\* behind them (the constructor of TokenStream, TokenStream.cpp:15).  The order is
\* lost with a number that has two underscores in a row (Lexer.cpp:505).
THEOREM StreamKeepsOrder == Spec => []StreamInOrder
BY StreamInvInit, StreamInvNext, StreamInvFacts, PTL DEF Spec

-----------------------------------------------------------------------------
(* How long a call takes.                                                  *)

\* What is left of a call: at most two steps for each byte (a literal has to be left
\* once more), and the last one.
Left ==
    CASE routine \in Inside -> 2 * (last - cur) + 2
      [] routine = "loop" /\ ~InvalidSpan -> 2 * (last - cur) + 1
      [] routine = "loop" /\ InvalidSpan -> 1
      [] OTHER -> 0

Consumes == routine \in Lexing => Left \in Nat /\ Left' \in Nat /\ Left' < Left

\* Where the pointer goes in a step of lex.
LEMMA PointerMoves ==
    ASSUME Inv,
           \/ LexIdentifier \/ LexDoubledUnderscore \/ LexFloat \/ LexInteger
           \/ LexQuote \/ CutOff \/ CloseQuote \/ PlainChar
           \/ EscapeCutOff \/ UnicodeEscape \/ SimpleEscape
           \/ LexLineComment \/ EnterBlockComment \/ BlockComment \/ EndBlockComment
           \/ LexSymbol
    PROVE  /\ ~InvalidSpan /\ cur' >= cur
           /\ cur' = cur => routine \in Inside /\ routine' = "loop"
<1>0. ASSUME ~InvalidSpan, routine = "loop"
      PROVE  /\ cur \in Nat /\ last \in Nat /\ TokStart \in cur..last /\ TokStart \in Nat
             /\ \A to \in (TokStart + 1)..last : to > cur
  BY <1>0, TokStartFacts
<1>1. CASE LexIdentifier
  <2>1. ~InvalidSpan /\ Begins(Letter \cup {"_"})
        /\ cur' = SkipOver(TokStart + 1, NameChar)
    BY <1>1 DEF LexIdentifier, Emit
  <2>2. routine = "loop" /\ TokStart + 1 \in 0..last /\ last \in Nat
    BY <2>1, BeginsFacts
  <2>3. cur' \in (TokStart + 1)..last
    BY <2>1, <2>2, SkipOverFacts
  <2>4. cur' >= cur /\ cur' # cur
    <3>1. /\ cur \in Nat /\ last \in Nat /\ TokStart \in Nat
          /\ \A to \in (TokStart + 1)..last : to > cur
      BY <1>0, <2>1, <2>2
    <3> QED
      BY <2>3, <3>1
  <2> QED
    BY <2>1, <2>4
<1>2. CASE LexDoubledUnderscore \/ LexFloat \/ LexInteger
  <2>1. ~InvalidSpan /\ Begins(Digit)
    BY <1>2 DEF LexDoubledUnderscore, LexFloat, LexInteger
  <2>2. /\ DigitsEnd \in (TokStart + 1)..last
        /\ FloatEnd(DigitsEnd) = 0 \/ FloatEnd(DigitsEnd) \in (TokStart + 1)..last
    BY <2>1, DigitsFacts
  <2>3. cur' \in (TokStart + 1)..last
    BY <1>2, <2>2 DEF LexDoubledUnderscore, LexFloat, LexInteger, Emit
  <2>4. routine = "loop"
    BY <2>1 DEF Begins
  <2> QED
    BY <1>0, <2>1, <2>3, <2>4
<1>3. CASE LexLineComment
  <2> DEFINE slashes == SkipOver(TokStart, {"/"})
  <2>1. /\ ~InvalidSpan /\ Begins({"/"}) /\ cur' = SkipUntil(slashes, LineEnd)
    BY <1>3 DEF LexLineComment, Emit
  <2>2. routine = "loop" /\ CharIn(TokStart, {"/"})
    BY <2>1 DEF Begins
  <2>3. TokStart \in 0..last /\ last \in Nat /\ TokStart \in Nat
    BY <1>0, <2>1, <2>2
  <2>4. slashes \in TokStart..last /\ ~CharIn(slashes, {"/"})
    BY <2>3, SkipOverFacts
  <2> HIDE DEF slashes
  <2>5. slashes # TokStart
    BY <2>2, <2>4
  <2>6. slashes \in (TokStart + 1)..last /\ slashes \in 0..last
    BY <2>3, <2>4, <2>5
  <2>7. cur' \in slashes..last
    BY <2>1, <2>3, <2>6, SkipUntilFacts
  <2>8. cur' \in (TokStart + 1)..last
    BY <2>3, <2>6, <2>7
  <2> QED
    BY <1>0, <2>1, <2>2, <2>8
<1>4. CASE LexSymbol
  <2> DEFINE ends == {end \in (TokStart + 1)..last : Text(TokStart, end) \in Symbol}
             longest == CHOOSE end \in ends : \A e \in ends : e <= end
  <2>1. ~InvalidSpan /\ routine = "loop" /\ TokStart < last
        /\ IF ends = {} THEN cur' = TokStart + 1 ELSE cur' = longest
    BY <1>4 DEF LexSymbol, Emit
  <2>2. cur \in Nat /\ last \in Nat /\ TokStart \in cur..last /\ TokStart \in Nat
    BY <1>0, <2>1
  <2>3. ends # {} => longest \in ends
    <3>1. ends \in SUBSET ((TokStart + 1)..last) /\ TokStart + 1 \in Nat
      BY <2>2
    <3> HIDE DEF ends
    <3> QED
      BY <2>2, <3>1, GreatestOf
  <2>5. \A end \in ends : end \in (TokStart + 1)..last
    OBVIOUS
  <2>6. TokStart + 1 \in (TokStart + 1)..last
    BY <2>1, <2>2
  <2> HIDE DEF ends, longest
  <2>4. cur' \in (TokStart + 1)..last
    BY <2>1, <2>3, <2>5, <2>6
  <2> QED
    BY <1>0, <2>1, <2>4
<1>5. CASE LexQuote \/ EnterBlockComment
  <2>1. ~InvalidSpan
    BY <1>5 DEF LexQuote, EnterBlockComment
  <2>2. routine = "loop" /\ cur' \in {TokStart + 1, TokStart + 2}
    BY <1>5 DEF LexQuote, EnterBlockComment, Begins, Enter
  <2> QED
    BY <1>0, <2>1, <2>2
<1>6. CASE CutOff \/ CloseQuote \/ EscapeCutOff \/ EndBlockComment
  <2>1. routine \in Inside /\ routine' = "loop"
    BY <1>6 DEF CutOff, CloseQuote, EscapeCutOff, EndBlockComment, Emit, InLiteral, Inside
  <2>2. ~InvalidSpan /\ cur \in Nat /\ last \in Nat
    BY <2>1, InsideFacts
  <2>3. cur' \in {cur, cur + 1}
    BY <1>6, <2>2 DEF CutOff, CloseQuote, EscapeCutOff, EndBlockComment, Emit
  <2> QED
    BY <2>1, <2>2, <2>3
<1>7. CASE PlainChar \/ SimpleEscape \/ BlockComment
  <2>1. routine \in Inside
    BY <1>7 DEF PlainChar, SimpleEscape, BlockComment, InLiteral, Inside
  <2>2. ~InvalidSpan /\ cur \in Nat
    BY <2>1, InsideFacts
  <2>3. cur' \in {cur + 1, cur + 2}
    BY <1>7 DEF PlainChar, SimpleEscape, BlockComment, GoOn
  <2> QED
    BY <2>2, <2>3
<1>8. CASE UnicodeEscape
  <2> DEFINE digits == SkipOver(cur + 3, HexDigit)
  <2>1. routine \in Inside /\ AtUnicodeEscape /\ cur' \in {digits, digits + 1}
    BY <1>8 DEF UnicodeEscape, GoOn, InLiteral, Inside
  <2>2. ~InvalidSpan /\ cur \in Nat /\ last \in Nat
    BY <2>1, InsideFacts
  <2>3. cur + 3 \in 0..last
    <3>1. cur + 2 < last
      BY <2>1 DEF AtUnicodeEscape, CharIn
    <3> QED
      BY <2>2, <3>1
  <2>4. digits \in (cur + 3)..last
    BY <2>2, <2>3, SkipOverFacts
  <2> HIDE DEF digits
  <2> QED
    BY <2>1, <2>2, <2>4
<1> QED
  BY <1>1, <1>2, <1>3, <1>4, <1>5, <1>6, <1>7, <1>8

LEMMA StepConsumes == Inv /\ [Next]_vars => [Consumes]_vars
<1> SUFFICES ASSUME Inv, Next, routine \in Lexing
             PROVE  Left \in Nat /\ Left' \in Nat /\ Left' < Left
  BY DEF Consumes
<1>1. /\ first \in Nat /\ last \in Nat /\ cur \in Nat /\ (~InvalidSpan => cur \in first..last)
      /\ routine \in Inside => ~InvalidSpan
  BY DEF Inv, Window, Reading
<1>2. "loop" \notin Inside /\ "done" \notin Lexing
  BY DEF Inside, Lexing
<1>3. ~InvalidSpan => cur <= last
  BY <1>1
<1>4. CASE RejectSpan
  <2>1. routine = "loop" /\ InvalidSpan /\ routine' = "done"
    BY <1>4 DEF RejectSpan
  <2>2. Left = 1 /\ Left' = 0
    BY <1>2, <2>1 DEF Left, Lexing
  <2> QED
    BY <2>2
<1>5. CASE Finish
  <2>1. routine = "loop" /\ ~InvalidSpan /\ routine' = "done"
    BY <1>5 DEF Finish
  <2>2. Left = 2 * (last - cur) + 1 /\ Left' = 0
    BY <1>2, <2>1 DEF Left, Lexing
  <2> QED
    BY <1>1, <1>3, <2>1, <2>2
<1>6. CASE \/ LexIdentifier \/ LexDoubledUnderscore \/ LexFloat \/ LexInteger
           \/ LexQuote \/ CutOff \/ CloseQuote \/ PlainChar
           \/ EscapeCutOff \/ UnicodeEscape \/ SimpleEscape
           \/ LexLineComment \/ EnterBlockComment \/ BlockComment \/ EndBlockComment
           \/ LexSymbol
  <2>1. /\ ~InvalidSpan /\ cur' >= cur
        /\ cur' = cur => routine \in Inside /\ routine' = "loop"
    BY <1>6, PointerMoves
  <2>2. routine' \in Lexing /\ UNCHANGED <<buffer, first, last>>
    BY <1>6, LexSteps
  <2>3. ~InvalidSpan'
    BY <2>1, <2>2 DEF InvalidSpan
  <2>4. cur' \in Nat /\ cur' <= last
    <3>1. Inv'
      BY InvNext
    <3>2. (cur \in Nat /\ (~InvalidSpan => cur \in first..last) /\ last \in Nat /\ first \in Nat)'
      BY <3>1 DEF Inv, Window
    <3> QED
      BY <2>2, <2>3, <3>2
  <2>5. Left = 2 * (last - cur) + IF routine \in Inside THEN 2 ELSE 1
    BY <1>2, <2>1 DEF Left, Lexing
  <2>6. Left' = 2 * (last - cur') + IF routine' \in Inside THEN 2 ELSE 1
    BY <1>2, <2>2, <2>3 DEF Left, Lexing
  <2>7. routine' = "loop" => ~(routine' \in Inside)
    BY <1>2
  <2> DEFINE a == IF routine \in Inside THEN 2 ELSE 1
             b == IF routine' \in Inside THEN 2 ELSE 1
             c == cur'
  <2>8. /\ a \in 1..2 /\ b \in 1..2 /\ c \in Nat /\ c <= last /\ c >= cur
        /\ c = cur => a = 2 /\ b = 1
    BY <2>1, <2>4, <2>7
  <2> HIDE DEF a, b, c
  <2>9. /\ 2 * (last - cur) + a \in Nat /\ 2 * (last - c) + b \in Nat
        /\ 2 * (last - c) + b < 2 * (last - cur) + a
    BY <1>1, <1>3, <2>1, <2>8
  <2> QED
    BY <2>5, <2>6, <2>9 DEF a, b, c
<1>7. CASE BuildStream \/ TakeItem \/ EndStream \/ Relex
  BY <1>7 DEF BuildStream, TakeItem, EndStream, Relex, Lexing, Inside
<1> QED
  BY <1>4, <1>5, <1>6, <1>7 DEF Next

\* Every round of every loop of lex consumes, so a call of lex takes at most two
\* steps for each byte and the last one: none of its loops runs for ever, whatever
\* is in the buffer (lexComment, Lexer.cpp:717).
THEOREM EveryStepConsumes == Spec => [][Consumes]_vars
BY Invariance, StepConsumes, PTL DEF Spec

-----------------------------------------------------------------------------
(* A round of lex, as a function of the end of the window.                 *)

In(l, i, chars) == i < l /\ CharAt(i) \in chars
Over(l, i, chars) ==
    CHOOSE j \in i..l : /\ ~In(l, j, chars)
                        /\ \A k \in i..(j - 1) : In(l, k, chars)
Until(l, i, chars) ==
    CHOOSE j \in i..l : /\ j = l \/ In(l, j, chars)
                        /\ \A k \in i..(j - 1) : ~In(l, k, chars)

\* Where a round ends: the items it adds, and where it leaves the lexer.
Loop(to) == [cur |-> to, routine |-> "loop", tokStart |-> 0, depth |-> 0, charCount |-> 0]
Ends(its, to) == [at |-> Loop(to), its |-> its]
Enters(loop, a, n) ==
    [at |-> [cur |-> a + n, routine |-> loop, tokStart |-> a, depth |-> 1, charCount |-> 0],
     its |-> <<>>]
Goes(p, to, n, its) ==
    [at |-> [cur |-> to, routine |-> p.routine, tokStart |-> p.tokStart,
             depth |-> p.depth, charCount |-> p.charCount + n],
     its |-> its]

NameItem(a, end) ==
    CASE Text(a, end) \in ReservedKeyword -> Error("ReservedKeyword", a, end)
      [] Text(a, end) \in Keyword -> Token("keyword", a, end)
      [] OTHER -> Token("identifier", a, end)
NameRound(l, a) ==
    Ends(<<NameItem(a, Over(l, a + 1, NameChar))>>, Over(l, a + 1, NameChar))

Hex(l, a) == CharAt(a) = "0" /\ In(l, a + 1, {"x", "X"})
DigitsFrom(l, a) == IF Hex(l, a) THEN a + 2 ELSE a + 1
DigitsTo(l, a) ==
    Over(l, DigitsFrom(l, a), (IF Hex(l, a) THEN HexDigit ELSE Digit) \cup {"_"})
NoDouble(l, a) ==
    \A k \in (DigitsFrom(l, a) + 1)..(DigitsTo(l, a) - 1) :
        ~(CharAt(k - 1) = "_" /\ CharAt(k) = "_")
Fraction(l, end) == Over(l, end + 1, Digit \cup {"_"})
FloatTo(l, a, end) ==
    IF Hex(l, a) THEN 0
    ELSE IF In(l, end, {"."}) /\ In(l, end + 1, Digit)
    THEN IF In(l, Fraction(l, end), {"f"}) THEN Fraction(l, end) + 1 ELSE Fraction(l, end)
    ELSE IF In(l, end, {"f"}) THEN end + 1 ELSE 0
Valid(l, a, end) ==
    /\ Hex(l, a) => \E k \in DigitsFrom(l, a)..(end - 1) : CharAt(k) \in HexDigit
    /\ CharAt(end - 1) # "_"
NumberOf(l, a, end) ==
    IF FloatTo(l, a, end) # 0
    THEN Ends(<<Token("float_literal", a, FloatTo(l, a, end))>>, FloatTo(l, a, end))
    ELSE Ends(<<IF Valid(l, a, end) THEN Token("integer_literal", a, end)
                ELSE Error("InvalidNumericLiteral", a, end)>>, end)
NumberRound(l, a) == NumberOf(l, a, DigitsTo(l, a))

CommentKind(l, a, slashes) ==
    CASE slashes = a + 3 -> "doc_comment"
      [] slashes = a + 2 /\ In(l, slashes, {"!"}) -> "file_doc_comment"
      [] OTHER -> "comment"
CommentOf(l, a, slashes) ==
    Ends(<<Token(CommentKind(l, a, slashes), a, Until(l, slashes, LineEnd))>>,
         Until(l, slashes, LineEnd))
CommentRound(l, a) == CommentOf(l, a, Over(l, a, {"/"}))

SymbolEnds(l, a) == {end \in (a + 1)..l : Text(a, end) \in Symbol}
Longest(S) == CHOOSE end \in S : \A e \in S : e <= end
SymbolRound(l, a) ==
    IF SymbolEnds(l, a) = {}
    THEN Ends(<<Error("InvalidCharacter", a, a + 1)>>, a + 1)
    ELSE Ends(<<Token("symbol", a, Longest(SymbolEnds(l, a)))>>, Longest(SymbolEnds(l, a)))

LoopRound(l, a) ==
    IF CharAt(a) \in Letter \cup {"_"} THEN NameRound(l, a)
    ELSE IF CharAt(a) \in Digit THEN NumberRound(l, a)
    ELSE IF CharAt(a) = "\"" THEN Enters("string", a, 1)
    ELSE IF CharAt(a) = "'" THEN Enters("char", a, 1)
    ELSE IF CharAt(a) = "/" /\ In(l, a + 1, {"/"}) THEN CommentRound(l, a)
    ELSE IF CharAt(a) = "/" /\ In(l, a + 1, {"*"}) THEN Enters("block", a, 2)
    ELSE SymbolRound(l, a)

Broken(p, to) ==
    Error(IF p.routine = "string" THEN "UnterminatedStringLiteral"
          ELSE "UnterminatedCharLiteral", p.tokStart, to)
Closed(p) ==
    CASE p.routine = "string" -> Token("string_literal", p.tokStart, p.cur + 1)
      [] p.routine = "char" /\ p.charCount = 1 ->
             Token("char_literal", p.tokStart, p.cur + 1)
      [] p.routine = "char" /\ p.charCount = 0 ->
             Error("EmptyCharLiteral", p.tokStart, p.cur + 1)
      [] OTHER -> Error("MultiCharCharLiteral", p.tokStart, p.cur + 1)
UnicodeOf(l, p, digits) ==
    LET closed == In(l, digits, {"}"})
        end == IF closed THEN digits + 1 ELSE digits
    IN  Goes(p, end, 1, IF closed /\ digits > p.cur + 3 THEN <<>>
                        ELSE <<Error("InvalidUnicodeEscape", p.cur, end)>>)
UnicodeRound(l, p) == UnicodeOf(l, p, Over(l, p.cur + 3, HexDigit))
SimpleRound(p) ==
    Goes(p, p.cur + 2, 1,
         IF CharAt(p.cur + 1) \in {"n", "t", "r", "0", "\\", "\"", "'"} THEN <<>>
         ELSE <<Error("InvalidEscapeSequence", p.cur, p.cur + 2)>>)
LiteralRound(l, p) ==
    IF p.cur = l THEN Ends(<<Broken(p, p.cur)>>, p.cur)
    ELSE IF CharAt(p.cur) \in LineEnd THEN Ends(<<Broken(p, p.cur + 1)>>, p.cur + 1)
    ELSE IF CharAt(p.cur) = (IF p.routine = "string" THEN "\"" ELSE "'")
         THEN Ends(<<Closed(p)>>, p.cur + 1)
    ELSE IF CharAt(p.cur) # "\\"
         THEN Goes(p, p.cur + 1, IF CharAt(p.cur) \in Continuation THEN 0 ELSE 1, <<>>)
    ELSE IF p.cur + 1 = l
         THEN Ends(<<Error("InvalidEscapeSequence", p.cur, l), Broken(p, l)>>, l)
    ELSE IF In(l, p.cur + 1, {"u"}) /\ In(l, p.cur + 2, {"{"}) THEN UnicodeRound(l, p)
    ELSE SimpleRound(p)

BlockRound(l, p) ==
    LET opens == In(l, p.cur, {"/"}) /\ In(l, p.cur + 1, {"*"})
        closes == In(l, p.cur, {"*"}) /\ In(l, p.cur + 1, {"/"})
    IN  IF p.cur = l \/ p.depth = 0
        THEN Ends((IF p.depth > 0 THEN <<Error("UnterminatedBlockComment", p.tokStart, p.cur)>>
                   ELSE <<>>) \o <<Token("comment", p.tokStart, p.cur)>>, p.cur)
        ELSE [at |-> [cur |-> IF opens \/ closes THEN p.cur + 2 ELSE p.cur + 1,
                      routine |-> p.routine, tokStart |-> p.tokStart,
                      depth |-> CASE opens -> p.depth + 1 [] closes -> p.depth - 1
                                  [] OTHER -> p.depth,
                      charCount |-> p.charCount],
              its |-> <<>>]

Begin(l, p) == Over(l, p.cur, Whitespace)
Round(l, p) ==
    IF p.routine = "loop" THEN LoopRound(l, Begin(l, p))
    ELSE IF p.routine = "block" THEN BlockRound(l, p)
    ELSE LiteralRound(l, p)

\* A token begins, and if it is a number, it has not two underscores in a row.
Plain(l, p) ==
    p.routine = "loop" =>
        Begin(l, p) < l /\ (CharAt(Begin(l, p)) \in Digit => NoDouble(l, Begin(l, p)))

Place == [cur : Nat, routine : Lexing, tokStart : Nat, depth : Nat, charCount : Nat]
Here ==
    [cur |-> cur, routine |-> routine,
     tokStart |-> IF routine = "loop" THEN 0 ELSE tokStart,
     depth |-> IF routine = "loop" THEN 0 ELSE depth,
     charCount |-> IF routine = "loop" THEN 0 ELSE charCount]

\* In the window of the call they are what the lexer does.
LEMMA SameScan ==
    /\ \A i, chars : CharIn(i, chars) <=> In(last, i, chars)
    /\ \A i, chars : SkipOver(i, chars) = Over(last, i, chars)
    /\ \A i, chars : SkipUntil(i, chars) = Until(last, i, chars)
<1>1. \A i, chars : CharIn(i, chars) <=> In(last, i, chars)
  BY DEF CharIn, In
<1>2. ASSUME NEW i, NEW chars PROVE SkipOver(i, chars) = Over(last, i, chars)
  BY DEF SkipOver, Over, CharIn, In
<1>3. ASSUME NEW i, NEW chars PROVE SkipUntil(i, chars) = Until(last, i, chars)
  BY DEF SkipUntil, Until, CharIn, In
<1> QED
  BY <1>1, <1>2, <1>3

LEMMA SameStart == Begin(last, Here) = TokStart
BY SameScan DEF Begin, Here, TokStart

\* The loop's places.
LEMMA HereFacts ==
    /\ Here.cur = cur /\ Here.routine = routine
    /\ routine = "loop" => Here = Loop(cur)
    /\ routine # "loop" =>
           Here.tokStart = tokStart /\ Here.depth = depth /\ Here.charCount = charCount
BY DEF Here, Loop

\* What a step leaves is what the round says.
LEMMA HereEmitted ==
    ASSUME NEW its, NEW to, Emit(its, to)
    PROVE  Here' = Ends(its, to).at /\ items' = items \o Ends(its, to).its
BY DEF Emit, Here, Ends, Loop

LEMMA HereEntered ==
    ASSUME NEW loop \in Inside, NEW n, Enter(loop, n), items \in Seq(Item)
    PROVE  /\ Here' = Enters(loop, TokStart, n).at
           /\ items' = items \o Enters(loop, TokStart, n).its
BY DEF Enter, Here, Enters, Inside

LEMMA HereGone ==
    ASSUME NEW its, NEW n, NEW to, routine \in Inside, GoOn(to, n, its)
    PROVE  Here' = Goes(Here, to, n, its).at /\ items' = items \o Goes(Here, to, n, its).its
BY DEF GoOn, Here, Goes, Inside

\* What a step of lex does.
IsRound(r) == Here' = r.at /\ items' = items \o r.its

\* An item ends the round.
LEMMA EmitsRound ==
    ASSUME NEW its, NEW to, Emit(its, to)
    PROVE  IsRound(Ends(its, to))
BY HereEmitted DEF IsRound

\* A round of the loop begins behind the white space.
LEMMA LoopBegins ==
    ASSUME routine = "loop"
    PROVE  Round(last, Here) = LoopRound(last, TokStart)
BY SameStart, HereFacts DEF Round

\* Which bytes begin what.
LEMMA LetterFacts ==
    \A c : /\ c \in Digit => c \notin Letter \cup {"_"} /\ c # "\"" /\ c # "'" /\ c # "/"
           /\ c \in {"\"", "'", "/"} => c \notin Letter \cup {"_"} /\ c \notin Digit
<1>1. \A c : c \in Letter => c \notin Digit \cup {"\"", "'", "/"}
  BY LetterAssumption
<1>2. \A c \in Digit : c # "_" /\ c # "\"" /\ c # "'" /\ c # "/"
  BY DEF Digit
<1> QED
  BY <1>1, <1>2

\* The rounds, action by action.
LEMMA RoundOfName ==
    ASSUME LexIdentifier
    PROVE  IsRound(Round(last, Here))
<1> DEFINE a == TokStart
           end == Over(last, TokStart + 1, NameChar)
<1>1. routine = "loop" /\ CharAt(a) \in Letter \cup {"_"}
  BY DEF LexIdentifier, Begins, CharIn
<1>2. Emit(<<NameItem(a, end)>>, end)
  BY SameScan DEF LexIdentifier, NameItem
<1>3. Round(last, Here) = Ends(<<NameItem(a, end)>>, end)
  BY <1>1, LoopBegins DEF LoopRound, NameRound
<1> HIDE DEF a, end
<1> QED
  BY <1>2, <1>3, EmitsRound

\* A number without two underscores in a row ends where its digits do.
LEMMA SameNumber ==
    ASSUME routine = "loop", Plain(last, Here), CharAt(TokStart) \in Digit
    PROVE  /\ DigitsEnd = DigitsTo(last, TokStart)
           /\ DigitsStart = DigitsFrom(last, TokStart)
           /\ \A end : FloatEnd(end) = FloatTo(last, TokStart, end)
           /\ \A end : ValidInteger(end) <=> Valid(last, TokStart, end)
<1>1. IsHex <=> Hex(last, TokStart)
  BY SameScan DEF IsHex, Hex
<1>2. DigitsStart = DigitsFrom(last, TokStart)
  BY <1>1 DEF DigitsStart, DigitsFrom
<1>3. SkipOver(DigitsStart, NumberDigit \cup {"_"}) = DigitsTo(last, TokStart)
  <2>1. NumberDigit = IF Hex(last, TokStart) THEN HexDigit ELSE Digit
    BY <1>1 DEF NumberDigit
  <2> QED
    BY <1>2, <2>1, SameScan DEF DigitsTo
<1>4. NoDouble(last, TokStart)
  BY HereFacts, SameStart DEF Plain
<1>5. DigitsEnd = DigitsTo(last, TokStart)
  <2> DEFINE end == SkipOver(DigitsStart, NumberDigit \cup {"_"})
             doubled == {k \in (DigitsStart + 1)..(end - 1) :
                             CharAt(k - 1) = "_" /\ CharAt(k) = "_"}
  <2>1. doubled = {}
    BY <1>2, <1>3, <1>4 DEF NoDouble
  <2>2. DigitsEnd = IF doubled = {} THEN end
                    ELSE CHOOSE k \in doubled : \A l \in doubled : k <= l
    BY DEF DigitsEnd
  <2> QED
    BY <1>3, <2>1, <2>2
<1>6. ASSUME NEW end PROVE FloatEnd(end) = FloatTo(last, TokStart, end)
  <2> DEFINE fraction == SkipOver(end + 1, Digit \cup {"_"})
  <2>1. fraction = Fraction(last, end)
    BY SameScan DEF Fraction
  <2>2. FloatEnd(end) =
          CASE IsHex -> 0
            [] ~IsHex /\ CharIn(end, {"."}) /\ CharIn(end + 1, Digit) ->
                   IF CharIn(fraction, {"f"}) THEN fraction + 1 ELSE fraction
            [] ~IsHex /\ CharIn(end, {"f"}) -> end + 1
            [] OTHER -> 0
    BY DEF FloatEnd
  <2>3. /\ CharIn(end, {"."}) <=> In(last, end, {"."})
        /\ CharIn(end + 1, Digit) <=> In(last, end + 1, Digit)
        /\ CharIn(fraction, {"f"}) <=> In(last, Fraction(last, end), {"f"})
        /\ CharIn(end, {"f"}) <=> In(last, end, {"f"})
    BY <2>1, SameScan
  <2>4. ~(CharIn(end, {"."}) /\ CharIn(end, {"f"}))
    BY DEF CharIn
  <2> HIDE DEF fraction
  <2> QED
    BY <1>1, <2>1, <2>2, <2>3, <2>4 DEF FloatTo
<1>7. ASSUME NEW end PROVE ValidInteger(end) <=> Valid(last, TokStart, end)
  BY <1>1, <1>2 DEF ValidInteger, Valid
<1> QED
  BY <1>2, <1>5, <1>6, <1>7

LEMMA NotDoubled ==
    ASSUME Inv, ~InvalidSpan, Begins(Digit), Plain(last, Here)
    PROVE  ~Doubled(DigitsEnd)
<1>1. /\ routine = "loop" /\ TokStart \in Nat /\ TokStart + 1 \in 0..last /\ last \in Nat
      /\ CharAt(TokStart) \in Digit
  BY BeginsFacts
<1>2. DigitsStart \in (TokStart + 1)..last
  BY <1>1 DEF DigitsStart, IsHex, CharIn
<1>3. DigitsEnd = SkipOver(DigitsStart, NumberDigit \cup {"_"})
  <2>1. DigitsStart = DigitsFrom(last, TokStart) /\ DigitsEnd = DigitsTo(last, TokStart)
    BY <1>1, SameNumber
  <2>2. NumberDigit = IF Hex(last, TokStart) THEN HexDigit ELSE Digit
    BY SameScan DEF NumberDigit, IsHex, Hex
  <2> QED
    BY <2>1, <2>2, SameScan DEF DigitsTo
<1>4. ~CharIn(DigitsEnd, NumberDigit \cup {"_"})
  <2>1. DigitsStart \in 0..last
    BY <1>1, <1>2
  <2> QED
    BY <1>1, <1>3, <2>1, SkipOverFacts
<1> QED
  BY <1>4 DEF Doubled, CharIn

LEMMA RoundOfNumber ==
    ASSUME Inv, Plain(last, Here), LexDoubledUnderscore \/ LexFloat \/ LexInteger
    PROVE  IsRound(Round(last, Here))
<1> DEFINE a == TokStart
           end == DigitsTo(last, TokStart)
           fend == FloatTo(last, TokStart, end)
           it == IF Valid(last, a, end) THEN Token("integer_literal", a, end)
                 ELSE Error("InvalidNumericLiteral", a, end)
<1>1. ~InvalidSpan /\ Begins(Digit)
  BY DEF LexDoubledUnderscore, LexFloat, LexInteger
<1>2. routine = "loop" /\ CharAt(TokStart) \in Digit
  BY <1>1, BeginsFacts
<1>3. /\ DigitsEnd = end
      /\ FloatEnd(DigitsEnd) = fend
      /\ ValidInteger(DigitsEnd) <=> Valid(last, TokStart, end)
  BY <1>2, SameNumber
<1>4. ~LexDoubledUnderscore
  BY <1>1, NotDoubled DEF LexDoubledUnderscore
<1>5. Round(last, Here) = NumberRound(last, TokStart)
  BY <1>2, LoopBegins, LetterFacts DEF LoopRound
<1>6. IF fend # 0 THEN Emit(<<Token("float_literal", a, fend)>>, fend)
      ELSE Emit(<<it>>, end)
  BY <1>3, <1>4 DEF LexFloat, LexInteger
<1>7. Round(last, Here) = IF fend # 0 THEN Ends(<<Token("float_literal", a, fend)>>, fend)
                          ELSE Ends(<<it>>, end)
  BY <1>5 DEF NumberRound, NumberOf
<1> HIDE DEF a, end, fend, it
<1> QED
  BY <1>6, <1>7, EmitsRound

LEMMA RoundOfComment ==
    ASSUME LexLineComment
    PROVE  IsRound(Round(last, Here))
<1> DEFINE a == TokStart
           slashes == SkipOver(TokStart, {"/"})
           kind == CASE slashes = TokStart + 3 -> "doc_comment"
                     [] slashes = TokStart + 2 /\ CharIn(slashes, {"!"}) ->
                            "file_doc_comment"
                     [] OTHER -> "comment"
           end == SkipUntil(slashes, LineEnd)
<1>1. routine = "loop" /\ CharAt(a) = "/" /\ In(last, a + 1, {"/"})
  BY SameScan DEF LexLineComment, Begins, In
<1>2. Emit(<<Token(kind, a, end)>>, end)
  BY DEF LexLineComment
<1>3. Round(last, Here) = CommentRound(last, a)
  BY <1>1, LoopBegins, LetterFacts DEF LoopRound
<1>4. slashes = Over(last, a, {"/"})
  BY SameScan
<1>5. kind = CommentKind(last, a, slashes)
  BY SameScan DEF CommentKind
<1>6. end = Until(last, slashes, LineEnd)
  BY SameScan
<1>7. Round(last, Here) = Ends(<<Token(kind, a, end)>>, end)
  <2> HIDE DEF slashes, kind, end
  <2> QED
    BY <1>3, <1>4, <1>5, <1>6 DEF CommentRound, CommentOf
<1> HIDE DEF a, kind, end
<1> QED
  BY <1>2, <1>7, EmitsRound

LEMMA RoundOfSymbol ==
    ASSUME LexSymbol
    PROVE  IsRound(Round(last, Here))
<1> DEFINE a == TokStart
           ends == {end \in (TokStart + 1)..last : Text(TokStart, end) \in Symbol}
           longest == CHOOSE end \in ends : \A e \in ends : e <= end
<1>1. /\ routine = "loop" /\ CharAt(a) \notin NameChar \cup {"\"", "'"}
      /\ CharAt(a) = "/" => ~In(last, a + 1, {"/"}) /\ ~In(last, a + 1, {"*"})
  BY SameScan DEF LexSymbol, In
<1>2. IF ends = {} THEN Emit(<<Error("InvalidCharacter", a, a + 1)>>, a + 1)
      ELSE Emit(<<Token("symbol", a, longest)>>, longest)
  BY DEF LexSymbol
<1>3. Round(last, Here) = SymbolRound(last, a)
  BY <1>1, LoopBegins DEF LoopRound, NameChar
<1>4. Round(last, Here) =
        IF ends = {} THEN Ends(<<Error("InvalidCharacter", a, a + 1)>>, a + 1)
        ELSE Ends(<<Token("symbol", a, longest)>>, longest)
  BY <1>3 DEF SymbolRound, SymbolEnds, Longest
<1> HIDE DEF a, ends, longest
<1> QED
  BY <1>2, <1>4, EmitsRound

LEMMA RoundOfEnter ==
    ASSUME Inv, LexQuote \/ EnterBlockComment
    PROVE  IsRound(Round(last, Here))
<1>0. items \in Seq(Item)
  BY DEF Inv, ItemsBehind
<1>1. ASSUME NEW loop \in Inside, NEW n, Enter(loop, n),
             Round(last, Here) = Enters(loop, TokStart, n)
      PROVE  IsRound(Round(last, Here))
  BY <1>0, <1>1, HereEntered DEF IsRound
<1>2. CASE Begins({"\""}) /\ Enter("string", 1)
  <2>1. routine = "loop" /\ CharAt(TokStart) = "\""
    BY <1>2 DEF Begins, CharIn
  <2>2. Round(last, Here) = Enters("string", TokStart, 1)
    BY <2>1, LoopBegins, LetterFacts DEF LoopRound
  <2> QED
    BY <1>1, <1>2, <2>2 DEF Inside
<1>3. CASE Begins({"'"}) /\ Enter("char", 1)
  <2>1. routine = "loop" /\ CharAt(TokStart) = "'"
    BY <1>3 DEF Begins, CharIn
  <2>2. Round(last, Here) = Enters("char", TokStart, 1)
    BY <2>1, LoopBegins, LetterFacts DEF LoopRound
  <2> QED
    BY <1>1, <1>3, <2>2 DEF Inside
<1>4. CASE EnterBlockComment
  <2>1. /\ routine = "loop" /\ CharAt(TokStart) = "/"
        /\ In(last, TokStart + 1, {"*"}) /\ ~In(last, TokStart + 1, {"/"})
    BY <1>4, SameScan DEF EnterBlockComment, Begins, In
  <2>2. Round(last, Here) = Enters("block", TokStart, 2)
    BY <2>1, LoopBegins, LetterFacts DEF LoopRound
  <2>3. Enter("block", 2)
    BY <1>4 DEF EnterBlockComment
  <2> QED
    BY <1>1, <2>2, <2>3 DEF Inside
<1> QED
  BY <1>2, <1>3, <1>4 DEF LexQuote

\* In a literal the round is that of the literal.
LEMMA LiteralFacts ==
    ASSUME InLiteral
    PROVE  /\ routine \in Inside /\ routine # "loop" /\ routine # "block"
           /\ Round(last, Here) = LiteralRound(last, Here)
           /\ Here.cur = cur /\ Here.routine = routine /\ Here.tokStart = tokStart
           /\ Here.depth = depth /\ Here.charCount = charCount
           /\ \A to : Broken(Here, to) = Unterminated(to)
           /\ Quote = IF routine = "string" THEN "\"" ELSE "'"
<1>1. routine \in Inside /\ routine # "loop" /\ routine # "block"
  BY DEF InLiteral, Inside
<1>2. /\ Here.cur = cur /\ Here.routine = routine /\ Here.tokStart = tokStart
      /\ Here.depth = depth /\ Here.charCount = charCount
  BY <1>1, HereFacts
<1>3. Round(last, Here) = LiteralRound(last, Here)
  BY <1>1, <1>2 DEF Round
<1>4. \A to : Broken(Here, to) = Unterminated(to)
  BY <1>2 DEF Broken, Unterminated
<1> QED
  BY <1>1, <1>2, <1>3, <1>4 DEF Quote

LEMMA RoundOfCutOff ==
    ASSUME Inv, CutOff
    PROVE  IsRound(Round(last, Here))
<1> DEFINE end == IF cur = last THEN cur ELSE cur + 1
<1>1. InLiteral /\ (cur = last \/ CharAt(cur) \in LineEnd)
  BY DEF CutOff, CharIn
<1>2. Emit(<<Unterminated(end)>>, end)
  BY DEF CutOff
<1>3. Round(last, Here) = Ends(<<Unterminated(end)>>, end)
  <2>1. CASE cur = last
    BY <1>1, <2>1, LiteralFacts DEF LiteralRound
  <2>2. CASE cur # last
    BY <1>1, <2>2, LiteralFacts DEF LiteralRound
  <2> QED
    BY <2>1, <2>2
<1> HIDE DEF end
<1> QED
  BY <1>2, <1>3, EmitsRound

LEMMA RoundOfClose ==
    ASSUME Inv, CloseQuote
    PROVE  IsRound(Round(last, Here))
<1>1. InLiteral /\ cur < last /\ CharAt(cur) = Quote
  BY DEF CloseQuote, CharIn
<1>2. cur # last
  BY <1>1 DEF Inv, Window
<1>3. CharAt(cur) \notin LineEnd
  BY <1>1, LiteralFacts DEF LineEnd
<1>4. Round(last, Here) = Ends(<<Closed(Here)>>, cur + 1)
  BY <1>1, <1>2, <1>3, LiteralFacts DEF LiteralRound
<1>5. Emit(<<Closed(Here)>>, cur + 1)
  BY <1>1, LiteralFacts DEF CloseQuote, Closed
<1> QED
  BY <1>4, <1>5, EmitsRound

LEMMA RoundOfPlainChar ==
    ASSUME Inv, PlainChar
    PROVE  IsRound(Round(last, Here))
<1> DEFINE n == IF CharAt(cur) \in Continuation THEN 0 ELSE 1
<1>1. InLiteral /\ cur < last /\ CharAt(cur) \notin LineEnd \cup {Quote, "\\"}
  BY DEF PlainChar
<1>2. cur # last
  BY <1>1 DEF Inv, Window
<1>3. Round(last, Here) = Goes(Here, cur + 1, n, <<>>)
  BY <1>1, <1>2, LiteralFacts DEF LiteralRound
<1>4. GoOn(cur + 1, n, <<>>)
  BY DEF PlainChar
<1> HIDE DEF n
<1> QED
  BY <1>1, <1>3, <1>4, HereGone, LiteralFacts DEF IsRound

LEMMA BackslashFacts ==
    ASSUME Inv, InLiteral, CharIn(cur, {"\\"})
    PROVE  Round(last, Here) =
             IF cur + 1 = last
             THEN Ends(<<Error("InvalidEscapeSequence", cur, last), Unterminated(last)>>, last)
             ELSE IF AtUnicodeEscape THEN UnicodeRound(last, Here)
             ELSE SimpleRound(Here)
<1>1. cur # last /\ CharAt(cur) = "\\"
  BY DEF Inv, Window, CharIn
<1>2. CharAt(cur) \notin LineEnd /\ CharAt(cur) # Quote
  BY <1>1, LiteralFacts DEF LineEnd
<1>3. AtUnicodeEscape <=> In(last, cur + 1, {"u"}) /\ In(last, cur + 2, {"{"})
  BY SameScan DEF AtUnicodeEscape
<1> QED
  BY <1>1, <1>2, <1>3, LiteralFacts DEF LiteralRound

LEMMA RoundOfEscape ==
    ASSUME Inv, EscapeCutOff \/ UnicodeEscape \/ SimpleEscape
    PROVE  IsRound(Round(last, Here))
<1>0. cur \in Nat /\ last \in Nat
  BY DEF Inv, Window
<1>1. InLiteral /\ CharIn(cur, {"\\"})
  BY DEF EscapeCutOff, UnicodeEscape, SimpleEscape
<1>2. CASE EscapeCutOff
  <2> DEFINE its == <<Error("InvalidEscapeSequence", cur, last), Unterminated(last)>>
  <2>1. Round(last, Here) = Ends(its, last)
    BY <1>1, <1>2, BackslashFacts DEF EscapeCutOff
  <2>2. Emit(its, last)
    BY <1>2 DEF EscapeCutOff
  <2> HIDE DEF its
  <2> QED
    BY <2>1, <2>2, EmitsRound
<1>3. CASE UnicodeEscape
  <2> DEFINE digits == SkipOver(cur + 3, HexDigit)
             closed == CharIn(digits, {"}"})
             end == IF closed THEN digits + 1 ELSE digits
             its == IF closed /\ digits > cur + 3 THEN <<>>
                    ELSE <<Error("InvalidUnicodeEscape", cur, end)>>
  <2>0. AtUnicodeEscape
    BY <1>3 DEF UnicodeEscape
  <2>1. AtUnicodeEscape /\ cur + 1 # last
    <3> HIDE DEF its
    <3>1. cur + 1 < last
      BY <2>0 DEF AtUnicodeEscape, CharIn
    <3> QED
      BY <1>0, <2>0, <3>1
  <2>2. GoOn(end, 1, its)
    BY <1>3 DEF UnicodeEscape
  <2>3. Round(last, Here) = UnicodeOf(last, Here, digits)
    <3>1. digits = Over(last, cur + 3, HexDigit)
      BY SameScan
    <3> QED
      BY <1>1, <2>1, <3>1, BackslashFacts, LiteralFacts DEF UnicodeRound
  <2>4. UnicodeOf(last, Here, digits) = Goes(Here, end, 1, its)
    <3>1. closed <=> In(last, digits, {"}"})
      BY SameScan
    <3> HIDE DEF digits
    <3> QED
      BY <1>1, <3>1, LiteralFacts DEF UnicodeOf
  <2> HIDE DEF its, end
  <2> QED
    BY <1>1, <2>2, <2>3, <2>4, HereGone, LiteralFacts DEF IsRound
<1>4. CASE SimpleEscape
  <2> DEFINE its ==
        IF CharAt(cur + 1) \in {"n", "t", "r", "0", "\\", "\"", "'"} THEN <<>>
        ELSE <<Error("InvalidEscapeSequence", cur, cur + 2)>>
  <2>0. ~AtUnicodeEscape /\ cur + 1 < last
    BY <1>4 DEF SimpleEscape
  <2>1. ~AtUnicodeEscape /\ cur + 1 # last
    BY <1>0, <2>0
  <2>2. GoOn(cur + 2, 1, its)
    BY <1>4 DEF SimpleEscape
  <2>3. Round(last, Here) = Goes(Here, cur + 2, 1, its)
    BY <1>1, <2>1, BackslashFacts, LiteralFacts DEF SimpleRound
  <2> HIDE DEF its
  <2> QED
    BY <1>1, <2>2, <2>3, HereGone, LiteralFacts DEF IsRound
<1> QED
  BY <1>2, <1>3, <1>4

LEMMA RoundOfBlock ==
    ASSUME Inv, BlockComment \/ EndBlockComment
    PROVE  IsRound(Round(last, Here))
<1> DEFINE opens == In(last, cur, {"/"}) /\ In(last, cur + 1, {"*"})
           closes == In(last, cur, {"*"}) /\ In(last, cur + 1, {"/"})
           its == (IF depth > 0 THEN <<Error("UnterminatedBlockComment", tokStart, cur)>>
                   ELSE <<>>) \o <<Token("comment", tokStart, cur)>>
           to == IF opens \/ closes THEN cur + 2 ELSE cur + 1
           d == CASE opens -> depth + 1 [] closes -> depth - 1 [] OTHER -> depth
<1>0. cur \in Nat /\ last \in Nat /\ depth \in Nat /\ items \in Seq(Item)
  BY DEF Inv, Window, ItemsBehind
<1>1. routine = "block"
  BY DEF BlockComment, EndBlockComment
<1>2. /\ Here.cur = cur /\ Here.routine = "block" /\ Here.tokStart = tokStart
      /\ Here.depth = depth /\ Here.charCount = charCount
  BY <1>1, HereFacts
<1>3. Round(last, Here) =
        IF cur = last \/ depth = 0 THEN Ends(its, cur)
        ELSE [at |-> [cur |-> to, routine |-> "block", tokStart |-> tokStart, depth |-> d,
                      charCount |-> charCount],
              its |-> <<>>]
  BY <1>2 DEF Round, BlockRound
<1>4. CASE EndBlockComment
  <2>1. Round(last, Here) = Ends(its, cur)
    BY <1>3, <1>4 DEF EndBlockComment
  <2>2. Emit(its, cur)
    BY <1>4 DEF EndBlockComment
  <2> HIDE DEF its
  <2> QED
    BY <2>1, <2>2, EmitsRound
<1>5. CASE BlockComment
  <2>1. cur # last /\ depth # 0
    BY <1>0, <1>5 DEF BlockComment
  <2>2. /\ cur' = to /\ depth' = d /\ items' = items /\ routine' = routine
        /\ tokStart' = tokStart /\ charCount' = charCount
    BY <1>5, SameScan DEF BlockComment
  <2>3. Here' = [cur |-> to, routine |-> "block", tokStart |-> tokStart, depth |-> d,
                 charCount |-> charCount]
    <3> HIDE DEF to, d
    <3> QED
      BY <1>1, <2>2 DEF Here
  <2>4. items' = items \o <<>>
    BY <1>0, <2>2
  <2> HIDE DEF to, d, its
  <2>5. Round(last, Here) =
          [at |-> [cur |-> to, routine |-> "block", tokStart |-> tokStart, depth |-> d,
                   charCount |-> charCount],
           its |-> <<>>]
    BY <1>3, <2>1
  <2>6. Round(last, Here).at = Here' /\ Round(last, Here).its = <<>>
    BY <2>3, <2>5
  <2> QED
    BY <2>4, <2>6 DEF IsRound
<1> QED
  BY <1>4, <1>5

Lexes ==
    \/ LexIdentifier \/ LexDoubledUnderscore \/ LexFloat \/ LexInteger
    \/ LexQuote \/ CutOff \/ CloseQuote \/ PlainChar
    \/ EscapeCutOff \/ UnicodeEscape \/ SimpleEscape
    \/ LexLineComment \/ EnterBlockComment \/ BlockComment \/ EndBlockComment
    \/ LexSymbol

\* Every step of lex is the round that begins where the lexer is.
LEMMA StepIsRound ==
    ASSUME Inv, Lexes, Plain(last, Here)
    PROVE  IsRound(Round(last, Here))
BY RoundOfName, RoundOfNumber, RoundOfEnter, RoundOfCutOff, RoundOfClose, RoundOfPlainChar,
   RoundOfEscape, RoundOfComment, RoundOfBlock, RoundOfSymbol DEF Lexes

\* The first of some places between two.
LEMMA LeastBetween ==
    ASSUME NEW a \in Nat, NEW b \in Nat, NEW S \in SUBSET ((a + 1)..(b - 1)), S # {}
    PROVE  LET k == CHOOSE k \in S : \A l \in S : k <= l
           IN  k \in S /\ k > a /\ k < b
<1>1. \A k \in (a + 1)..(b - 1) : k \in Nat /\ k > a /\ k < b
  OBVIOUS
<1>2. S \in SUBSET Nat
  BY <1>1
<1>3. \E k \in S : \A l \in S : k <= l
  BY <1>2, LeastNatural
<1>4. (CHOOSE k \in S : \A l \in S : k <= l) \in S
  BY <1>3
<1> QED
  BY <1>1, <1>4

\* A step that loses no place is plain.
LEMMA StepIsPlain ==
    ASSUME Inv, Lexes, ~Misplaced(items')
    PROVE  Plain(last, Here)
<1> SUFFICES ASSUME routine = "loop"
             PROVE  /\ TokStart < last
                    /\ CharAt(TokStart) \in Digit => NoDouble(last, TokStart)
  BY SameStart, HereFacts DEF Plain
<1>1. TokStart < last
  BY DEF Lexes, LexIdentifier, LexDoubledUnderscore, LexFloat, LexInteger, LexQuote, CutOff,
     CloseQuote, PlainChar, EscapeCutOff, UnicodeEscape, SimpleEscape, LexLineComment,
     EnterBlockComment, BlockComment, EndBlockComment, LexSymbol, Begins, CharIn, InLiteral
<1>2. ASSUME CharAt(TokStart) \in Digit
      PROVE  NoDouble(last, TokStart)
  <2>1. Begins(Digit) /\ routine \notin {"string", "char", "block"}
    BY <1>1, <1>2 DEF Begins, CharIn
  <2>2. LexDoubledUnderscore \/ LexFloat \/ LexInteger
    <3>1. \A chars : Begins(chars) => CharAt(TokStart) \in chars
      BY DEF Begins, CharIn
    <3>2. ~Begins(Letter \cup {"_"}) /\ ~Begins({"\""}) /\ ~Begins({"'"}) /\ ~Begins({"/"})
      BY <1>2, <3>1, LetterFacts
    <3>3. CharAt(TokStart) \in NameChar
      BY <1>2 DEF NameChar
    <3> QED
      BY <2>1, <3>2, <3>3 DEF Lexes, LexIdentifier, LexQuote, CutOff, CloseQuote, PlainChar,
         EscapeCutOff, UnicodeEscape, SimpleEscape, LexLineComment, EnterBlockComment,
         BlockComment, EndBlockComment, LexSymbol, InLiteral
  <2>3. ~LexDoubledUnderscore
    <3> SUFFICES ASSUME LexDoubledUnderscore PROVE FALSE
      OBVIOUS
    <3> DEFINE it == Error("InvalidNumericLiteral", 0, 0)
    <3>1. items' = items \o <<it>>
      BY DEF LexDoubledUnderscore, Emit
    <3>2. items \in Seq(Item)
      BY DEF Inv, ItemsBehind
    <3>3. it \in Item
      BY DEF Item, Kind, Error
    <3> HIDE DEF it
    <3>4. (items \o <<it>>)[Len(items) + 1] = it /\ Len(items) + 1 \in DOMAIN (items \o <<it>>)
      BY <3>2, <3>3
    <3>5. Misplaced(items')
      BY <3>1, <3>4 DEF Misplaced, it
    <3> QED
      BY <3>5
  <2>4. ~Doubled(DigitsEnd)
    BY <2>2, <2>3 DEF LexFloat, LexInteger
  <2> DEFINE end == SkipOver(DigitsStart, NumberDigit \cup {"_"})
             doubled == {k \in (DigitsStart + 1)..(end - 1) :
                             CharAt(k - 1) = "_" /\ CharAt(k) = "_"}
  <2>5. ~InvalidSpan
    BY <2>2 DEF LexDoubledUnderscore, LexFloat, LexInteger
  <2>6. /\ TokStart \in Nat /\ last \in Nat /\ DigitsStart \in (TokStart + 1)..last
    <3>1. TokStart \in Nat /\ TokStart + 1 \in 0..last /\ last \in Nat
      BY <2>1, <2>5, BeginsFacts
    <3> QED
      BY <3>1 DEF DigitsStart, IsHex, CharIn
  <2>7. end \in DigitsStart..last
    <3>1. DigitsStart \in 0..last
      BY <2>6
    <3> QED
      BY <2>6, <3>1, SkipOverFacts
  <2> HIDE DEF end
  <2>8. doubled = {}
    <3> SUFFICES ASSUME doubled # {} PROVE FALSE
      OBVIOUS
    <3>1. DigitsEnd = CHOOSE k \in doubled : \A l \in doubled : k <= l
      BY DEF DigitsEnd, end
    <3>2. doubled \in SUBSET ((DigitsStart + 1)..(end - 1))
      OBVIOUS
    <3>3. \A k \in doubled : CharAt(k - 1) = "_" /\ CharAt(k) = "_"
      OBVIOUS
    <3> HIDE DEF doubled
    <3>4. DigitsStart \in Nat /\ end \in Nat /\ end <= last
      BY <2>6, <2>7
    <3>5. DigitsEnd \in doubled /\ DigitsEnd > DigitsStart /\ DigitsEnd < end
      BY <3>1, <3>2, <3>4, LeastBetween
    <3>6. DigitsEnd < last
      <4> DEFINE D == DigitsEnd
      <4>1. D \in Int /\ D < end
        BY <3>2, <3>4, <3>5
      <4> HIDE DEF D
      <4>2. D < last
        BY <2>6, <3>4, <4>1
      <4> QED
        BY <4>2 DEF D
    <3> QED
      BY <2>4, <3>3, <3>5, <3>6 DEF Doubled, CharIn
  <2>9. /\ DigitsStart = DigitsFrom(last, TokStart)
        /\ end = DigitsTo(last, TokStart)
    <3>1. IsHex <=> Hex(last, TokStart)
      BY SameScan DEF IsHex, Hex
    <3>2. DigitsStart = DigitsFrom(last, TokStart)
      BY <3>1 DEF DigitsStart, DigitsFrom
    <3> QED
      BY <3>1, <3>2, SameScan DEF DigitsTo, NumberDigit, end
  <2> QED
    BY <2>8, <2>9 DEF NoDouble
<1> QED
  BY <1>1, <1>2

-----------------------------------------------------------------------------
(* A round that does not reach beyond the window is the same in a longer one. *)

LEMMA OverFacts ==
    ASSUME NEW l \in Nat, NEW i \in 0..l, NEW chars
    PROVE  /\ Over(l, i, chars) \in i..l /\ Over(l, i, chars) \in Nat
           /\ ~In(l, Over(l, i, chars), chars)
           /\ \A k \in i..(Over(l, i, chars) - 1) : In(l, k, chars)
<1> DEFINE S == {j \in i..l : ~In(l, j, chars)}
<1>1. l \in S /\ S \in SUBSET Nat
  BY DEF In
<1>2. PICK j \in S : \A k \in S : j <= k
  BY <1>1, LeastNatural
<1>3. \A k \in i..(j - 1) : In(l, k, chars)
  BY <1>2
<1>4. \E x \in i..l : /\ ~In(l, x, chars)
                      /\ \A k \in i..(x - 1) : In(l, k, chars)
  BY <1>2, <1>3
<1>5. /\ Over(l, i, chars) \in i..l
      /\ ~In(l, Over(l, i, chars), chars)
      /\ \A k \in i..(Over(l, i, chars) - 1) : In(l, k, chars)
  BY <1>4 DEF Over
<1> QED
  BY <1>5

LEMMA UntilFacts ==
    ASSUME NEW l \in Nat, NEW i \in 0..l, NEW chars
    PROVE  /\ Until(l, i, chars) \in i..l /\ Until(l, i, chars) \in Nat
           /\ Until(l, i, chars) = l \/ In(l, Until(l, i, chars), chars)
           /\ \A k \in i..(Until(l, i, chars) - 1) : ~In(l, k, chars)
<1> DEFINE S == {j \in i..l : j = l \/ In(l, j, chars)}
<1>1. l \in S /\ S \in SUBSET Nat
  OBVIOUS
<1>2. PICK j \in S : \A k \in S : j <= k
  BY <1>1, LeastNatural
<1>3. \A k \in i..(j - 1) : ~In(l, k, chars)
  BY <1>2
<1>4. \E x \in i..l : /\ x = l \/ In(l, x, chars)
                      /\ \A k \in i..(x - 1) : ~In(l, k, chars)
  BY <1>2, <1>3
<1>5. /\ Until(l, i, chars) \in i..l
      /\ Until(l, i, chars) = l \/ In(l, Until(l, i, chars), chars)
      /\ \A k \in i..(Until(l, i, chars) - 1) : ~In(l, k, chars)
  BY <1>4 DEF Until
<1> QED
  BY <1>5

\* A byte that is there in a window is there in a longer one.
LEMMA SameIn ==
    ASSUME NEW m \in Nat, NEW l \in 0..m
    PROVE  /\ \A i \in Nat : \A chars : i < l => (In(l, i, chars) <=> In(m, i, chars))
           /\ \A i \in Nat : \A chars : In(l, i, chars) => In(m, i, chars)
           /\ \A i \in Nat : \A chars : In(m, i, chars) => i < m
           /\ \A i \in Nat : \A chars : In(l, i, chars) => i < l
BY DEF In

LEMMA SameOver ==
    ASSUME NEW m \in Nat, NEW l \in 0..m, NEW i \in 0..l, NEW chars,
           Over(m, i, chars) <= l
    PROVE  Over(l, i, chars) = Over(m, i, chars)
<1> DEFINE x == Over(m, i, chars)
           y == Over(l, i, chars)
<1>1. i \in Nat /\ i \in 0..m /\ l \in Nat
  OBVIOUS
<1>2. x \in i..m /\ x \in Nat /\ ~In(m, x, chars) /\ \A k \in i..(x - 1) : In(m, k, chars)
  BY <1>1, OverFacts
<1>3. y \in i..l /\ y \in Nat /\ ~In(l, y, chars) /\ \A k \in i..(y - 1) : In(l, k, chars)
  BY <1>1, OverFacts
<1>4. x <= l
  OBVIOUS
<1> HIDE DEF x, y
<1>5. ~(x < y)
  <2>1. x < y => In(l, x, chars)
    BY <1>2, <1>3
  <2> QED
    BY <1>2, <2>1, SameIn
<1>6. ~(y < x)
  <2>1. y < x => In(m, y, chars) /\ y < l
    BY <1>1, <1>2, <1>3, <1>4
  <2> QED
    BY <1>3, <2>1, SameIn
<1>7. x = y
  BY <1>2, <1>3, <1>5, <1>6
<1> QED
  BY <1>7 DEF x, y

LEMMA SameUntil ==
    ASSUME NEW m \in Nat, NEW l \in 0..m, NEW i \in 0..l, NEW chars,
           Until(m, i, chars) <= l
    PROVE  Until(l, i, chars) = Until(m, i, chars)
<1> DEFINE x == Until(m, i, chars)
           y == Until(l, i, chars)
<1>1. i \in Nat /\ i \in 0..m /\ l \in Nat
  OBVIOUS
<1>2. /\ x \in i..m /\ x \in Nat /\ (x = m \/ In(m, x, chars))
      /\ \A k \in i..(x - 1) : ~In(m, k, chars)
  BY <1>1, UntilFacts
<1>3. /\ y \in i..l /\ y \in Nat /\ (y = l \/ In(l, y, chars))
      /\ \A k \in i..(y - 1) : ~In(l, k, chars)
  BY <1>1, UntilFacts
<1>4. x <= l
  OBVIOUS
<1> HIDE DEF x, y
<1>5. ~(x < y)
  <2>1. x < y => ~In(l, x, chars) /\ x < l /\ x # m
    BY <1>1, <1>2, <1>3
  <2> QED
    BY <1>2, <2>1, SameIn
<1>6. ~(y < x)
  <2>1. y < x => ~In(m, y, chars) /\ y # l
    BY <1>1, <1>2, <1>3, <1>4
  <2> QED
    BY <1>3, <2>1, SameIn
<1>7. x = y
  BY <1>2, <1>3, <1>5, <1>6
<1> QED
  BY <1>7 DEF x, y

LEMMA EndsFacts ==
    ASSUME NEW its, NEW to
    PROVE  Ends(its, to).at.cur = to
BY DEF Ends, Loop

LEMMA SameName ==
    ASSUME NEW m \in Nat, NEW l \in 0..m, NEW a \in Nat, a < m,
           NameRound(m, a).at.cur <= l
    PROVE  NameRound(l, a) = NameRound(m, a) /\ a < l
<1> DEFINE x == Over(m, a + 1, NameChar)
<1>1. NameRound(m, a) = Ends(<<NameItem(a, x)>>, x)
  BY DEF NameRound
<1>2. x <= l /\ NameRound(m, a).at.cur = x
  BY <1>1, EndsFacts
<1>3. a + 1 \in 0..m
  OBVIOUS
<1>4. x \in (a + 1)..m
  BY <1>3, OverFacts
<1> HIDE DEF x
<1>5. a + 1 \in 0..l /\ a < l
  BY <1>2, <1>4
<1>6. Over(l, a + 1, NameChar) = x
  BY <1>2, <1>5, SameOver DEF x
<1> QED
  BY <1>1, <1>2, <1>5, <1>6 DEF NameRound

LEMMA SameComment ==
    ASSUME NEW m \in Nat, NEW l \in 0..m, NEW a \in Nat, In(m, a, {"/"}), In(m, a + 1, {"/"}),
           CommentRound(m, a).at.cur <= l
    PROVE  /\ CommentRound(l, a) = CommentRound(m, a) /\ a < l
           /\ In(l, a + 1, {"/"})
<1> DEFINE x == Over(m, a, {"/"})
           end == Until(m, x, LineEnd)
<1>1. CommentRound(m, a) = Ends(<<Token(CommentKind(m, a, x), a, end)>>, end)
  BY DEF CommentRound, CommentOf
<1>2. end <= l /\ CommentRound(m, a).at.cur = end
  BY <1>1, EndsFacts
<1>3. a \in 0..m
  BY SameIn
<1>4. x \in a..m /\ x \in Nat /\ ~In(m, x, {"/"})
  BY <1>3, OverFacts
<1>5. x \in 0..m
  BY <1>4
<1>6. end \in x..m /\ end \in Nat
  BY <1>5, UntilFacts
<1>7. \A k \in x..(end - 1) : ~In(m, k, LineEnd)
  BY <1>5, UntilFacts
<1>8. end = m \/ In(m, end, LineEnd)
  BY <1>5, UntilFacts
<1> HIDE DEF end
<1>9. x # a /\ x # a + 1
  BY <1>4
<1> HIDE DEF x
<1>10. x >= a + 2 /\ x <= end
  BY <1>4, <1>6, <1>9
<1>11. a \in 0..l /\ x \in 0..l /\ a + 1 < l /\ a < l /\ x <= l
  BY <1>2, <1>4, <1>6, <1>10
<1>12. Over(l, a, {"/"}) = x
  BY <1>11, SameOver DEF x
<1>13. Until(l, x, LineEnd) = end
  BY <1>2, <1>11, SameUntil DEF end
<1>14. In(l, x, {"!"}) <=> In(m, x, {"!"})
  <2>1. CASE x < l
    BY <1>4, <2>1, SameIn
  <2>2. CASE x = l
    <3>1. end = x
      BY <1>2, <1>6, <1>10, <2>2
    <3>2. ~In(m, x, {"!"})
      BY <1>8, <3>1 DEF In, LineEnd
    <3> QED
      BY <2>2, <3>2 DEF In
  <2> QED
    BY <1>4, <1>11, <2>1, <2>2
<1>15. CommentKind(l, a, x) = CommentKind(m, a, x)
  BY <1>14 DEF CommentKind
<1>16. CommentRound(l, a) = CommentRound(m, a)
  BY <1>1, <1>12, <1>13, <1>15 DEF CommentRound, CommentOf
<1>17. In(l, a + 1, {"/"})
  BY <1>11, SameIn
<1> QED
  BY <1>2, <1>11, <1>16, <1>17

LEMMA SameSymbol ==
    ASSUME NEW m \in Nat, NEW l \in 0..m, NEW a \in Nat, a < m,
           SymbolRound(m, a).at.cur <= l
    PROVE  SymbolRound(l, a) = SymbolRound(m, a) /\ a < l
<1> DEFINE S == SymbolEnds(m, a)
           T == SymbolEnds(l, a)
<1>0. S \in SUBSET ((a + 1)..m) /\ T \in SUBSET ((a + 1)..l)
  BY DEF SymbolEnds
<1>1. T = {e \in S : e <= l}
  BY DEF SymbolEnds
<1>2. SymbolRound(m, a) =
        IF S = {} THEN Ends(<<Error("InvalidCharacter", a, a + 1)>>, a + 1)
        ELSE Ends(<<Token("symbol", a, Longest(S))>>, Longest(S))
  BY DEF SymbolRound
<1>3. SymbolRound(l, a) =
        IF T = {} THEN Ends(<<Error("InvalidCharacter", a, a + 1)>>, a + 1)
        ELSE Ends(<<Token("symbol", a, Longest(T))>>, Longest(T))
  BY DEF SymbolRound
<1> HIDE DEF S, T
<1>4. CASE S = {}
  <2>1. T = {}
    BY <1>1, <1>4
  <2>2. SymbolRound(m, a).at.cur = a + 1
    BY <1>2, <1>4, EndsFacts
  <2> QED
    BY <1>2, <1>3, <1>4, <2>1, <2>2
<1>5. CASE S # {}
  <2>1. SymbolRound(m, a).at.cur = Longest(S)
    BY <1>2, <1>5, EndsFacts
  <2>2. Longest(S) \in S
    <3>1. a + 1 \in Nat
      OBVIOUS
    <3> QED
      BY <1>0, <1>5, <3>1, GreatestOf DEF Longest
  <2>3. Longest(S) \in (a + 1)..m /\ Longest(S) <= l
    BY <1>0, <2>1, <2>2
  <2>4. \A e \in S : e \in Nat /\ e <= m
    BY <1>0
  <2>5. \A e \in S : e <= Longest(S)
    <3> DEFINE left == {m - e : e \in S}
    <3>1. left \in SUBSET Nat /\ left # {}
      BY <1>5, <2>4
    <3>2. PICK x \in left : \A y \in left : x <= y
      BY <3>1, LeastNatural
    <3>3. PICK end \in S : x = m - end
      BY <3>2
    <3>4. \A e \in S : m - end <= m - e
      BY <3>2, <3>3
    <3>5. \A e \in S : e <= end
      BY <2>4, <3>4
    <3> QED
      BY <3>5 DEF Longest
  <2>6. S = T
    <3> DEFINE x == Longest(S)
    <3>1. x \in Nat /\ x <= l /\ \A e \in S : e <= x
      BY <2>3, <2>5
    <3> HIDE DEF x
    <3>2. \A e \in S : e <= l
      BY <2>4, <3>1
    <3> QED
      BY <1>1, <3>2
  <2>7. a < l
    <3> DEFINE x == Longest(S)
    <3>1. x \in (a + 1)..m /\ x <= l
      BY <2>3
    <3> HIDE DEF x
    <3> QED
      BY <3>1
  <2> QED
    BY <1>2, <1>3, <2>1, <2>6, <2>7
<1> QED
  BY <1>4, <1>5

LEMMA NumberFacts ==
    ASSUME NEW m \in Nat, NEW a \in Nat, a < m
    PROVE  /\ DigitsFrom(m, a) \in (a + 1)..m /\ DigitsFrom(m, a) \in Nat
           /\ Hex(m, a) => DigitsFrom(m, a) = a + 2
           /\ DigitsTo(m, a) \in DigitsFrom(m, a)..m /\ DigitsTo(m, a) \in Nat
<1>1. DigitsFrom(m, a) \in (a + 1)..m
  BY DEF DigitsFrom, Hex, In
<1> DEFINE d == DigitsFrom(m, a)
<1>2. d \in 0..m /\ d \in Nat
  BY <1>1
<1>3. DigitsTo(m, a) \in d..m /\ DigitsTo(m, a) \in Nat
  BY <1>2, OverFacts DEF DigitsTo
<1>4. Hex(m, a) => DigitsFrom(m, a) = a + 2
  BY DEF DigitsFrom
<1> QED
  BY <1>1, <1>2, <1>3, <1>4

LEMMA FloatFacts ==
    ASSUME NEW m \in Nat, NEW a \in Nat, NEW end \in 0..m
    PROVE  FloatTo(m, a, end) = 0 \/ FloatTo(m, a, end) \in (end + 1)..m
<1>1. CASE ~Hex(m, a) /\ In(m, end, {"."}) /\ In(m, end + 1, Digit)
  <2> DEFINE x == Fraction(m, end)
  <2>1. end + 1 \in 0..m /\ end \in Nat
    BY <1>1 DEF In
  <2>2. x \in (end + 1)..m
    BY <2>1, OverFacts DEF Fraction
  <2>3. FloatTo(m, a, end) = IF In(m, x, {"f"}) THEN x + 1 ELSE x
    BY <1>1 DEF FloatTo
  <2> HIDE DEF x
  <2> QED
    BY <2>1, <2>2, <2>3 DEF In
<1>2. CASE ~Hex(m, a) /\ In(m, end, {"f"}) /\ ~(In(m, end, {"."}) /\ In(m, end + 1, Digit))
  BY <1>2 DEF FloatTo, In
<1>3. CASE Hex(m, a)
  BY <1>3 DEF FloatTo
<1>4. CASE ~In(m, end, {"f"}) /\ ~(In(m, end, {"."}) /\ In(m, end + 1, Digit))
  BY <1>4 DEF FloatTo
<1> QED
  BY <1>1, <1>2, <1>3, <1>4

LEMMA SameDigits ==
    ASSUME NEW m \in Nat, NEW l \in 0..m, NEW a \in Nat, a < m, DigitsTo(m, a) <= l
    PROVE  /\ Hex(l, a) <=> Hex(m, a)
           /\ DigitsFrom(l, a) = DigitsFrom(m, a)
           /\ DigitsTo(l, a) = DigitsTo(m, a)
           /\ NoDouble(l, a) <=> NoDouble(m, a)
<1> DEFINE d == DigitsFrom(m, a)
           x == DigitsTo(m, a)
<1>1. d \in (a + 1)..m /\ d \in Nat /\ (Hex(m, a) => d = a + 2) /\ x \in d..m /\ x \in Nat
  BY NumberFacts
<1>2. x <= l
  OBVIOUS
<1> HIDE DEF d, x
<1>3. d \in 0..l /\ a < l
  BY <1>1, <1>2
<1>4. Hex(l, a) <=> Hex(m, a)
  <2>1. Hex(m, a) => a + 1 < l
    BY <1>1, <1>3
  <2>2. Hex(l, a) => Hex(m, a)
    BY SameIn DEF Hex
  <2>3. Hex(m, a) => Hex(l, a)
    BY <2>1, SameIn DEF Hex
  <2> QED
    BY <2>2, <2>3
<1>5. DigitsFrom(l, a) = DigitsFrom(m, a)
  BY <1>4 DEF DigitsFrom
<1>6. DigitsTo(l, a) = DigitsTo(m, a)
  <2> DEFINE chars == (IF Hex(m, a) THEN HexDigit ELSE Digit) \cup {"_"}
  <2>1. x = Over(m, d, chars)
    BY DEF x, d, DigitsTo
  <2>2. DigitsTo(l, a) = Over(l, d, chars)
    BY <1>4, <1>5 DEF DigitsTo, d
  <2> HIDE DEF chars
  <2>3. Over(l, d, chars) = Over(m, d, chars)
    BY <1>2, <1>3, <2>1, SameOver
  <2> QED
    BY <2>1, <2>2, <2>3 DEF x
<1>7. NoDouble(l, a) <=> NoDouble(m, a)
  BY <1>5, <1>6 DEF NoDouble
<1> QED
  BY <1>4, <1>5, <1>6, <1>7

LEMMA SameFloat ==
    ASSUME NEW m \in Nat, NEW l \in 0..m, NEW a \in Nat, NEW end \in 0..l,
           Hex(l, a) <=> Hex(m, a), FloatTo(m, a, end) <= l
    PROVE  FloatTo(l, a, end) = FloatTo(m, a, end)
<1>0. end \in Nat /\ end \in 0..m /\ l \in Nat
  OBVIOUS
<1>1. CASE ~Hex(m, a) /\ In(m, end, {"."}) /\ In(m, end + 1, Digit)
  <2> DEFINE x == Fraction(m, end)
  <2>1. end + 1 \in 0..m
    BY <1>0, <1>1 DEF In
  <2>2. x \in (end + 1)..m /\ x \in Nat
    BY <2>1, OverFacts DEF Fraction
  <2>3. FloatTo(m, a, end) = IF In(m, x, {"f"}) THEN x + 1 ELSE x
    BY <1>1 DEF FloatTo
  <2> HIDE DEF x
  <2>4. x <= l /\ (In(m, x, {"f"}) => x < l)
    BY <1>0, <2>2, <2>3
  <2>5. In(m, x, {"f"}) <=> In(l, x, {"f"})
    BY <2>2, <2>4, SameIn
  <2>6. Fraction(l, end) = x
    <3>1. end + 1 \in 0..l
      BY <1>0, <2>2, <2>4
    <3> QED
      BY <2>4, <3>1, SameOver DEF Fraction, x
  <2>6a. In(m, end + 1, Digit) /\ end + 1 < x
    <3>1. x # end + 1
      <4>1. ~In(m, x, Digit \cup {"_"})
        BY <2>1, OverFacts DEF x, Fraction
      <4>2. In(m, end + 1, Digit \cup {"_"})
        BY <1>1 DEF In
      <4> QED
        BY <4>1, <4>2
    <3> QED
      BY <1>0, <1>1, <2>2, <3>1
  <2>7. In(l, end, {"."}) /\ In(l, end + 1, Digit)
    <3>1. end < l /\ end + 1 < l
      BY <1>0, <2>2, <2>4, <2>6a
    <3> QED
      BY <1>0, <1>1, <3>1, SameIn
  <2>8. FloatTo(l, a, end) = IF In(l, x, {"f"}) THEN x + 1 ELSE x
    BY <1>1, <2>6, <2>7 DEF FloatTo
  <2> QED
    BY <2>3, <2>5, <2>8
<1>2. CASE ~Hex(m, a) /\ In(m, end, {"f"}) /\ ~(In(m, end, {"."}) /\ In(m, end + 1, Digit))
  <2>1. FloatTo(m, a, end) = end + 1
    BY <1>2 DEF FloatTo
  <2>2. end < l
    BY <1>0, <2>1
  <2>3. In(l, end, {"f"})
    BY <1>0, <1>2, <2>2, SameIn
  <2>4. ~(In(l, end, {"."}) /\ In(l, end + 1, Digit))
    BY <1>0, <1>2, SameIn
  <2> QED
    BY <1>2, <2>1, <2>3, <2>4 DEF FloatTo
<1>3. CASE Hex(m, a)
  BY <1>3 DEF FloatTo
<1>4. CASE ~Hex(m, a) /\ ~In(m, end, {"f"}) /\ ~(In(m, end, {"."}) /\ In(m, end + 1, Digit))
  <2>1. ~In(l, end, {"f"}) /\ ~(In(l, end, {"."}) /\ In(l, end + 1, Digit))
    BY <1>0, <1>4, SameIn
  <2> QED
    BY <1>4, <2>1 DEF FloatTo
<1> QED
  BY <1>1, <1>2, <1>3, <1>4

LEMMA SameNumberRound ==
    ASSUME NEW m \in Nat, NEW l \in 0..m, NEW a \in Nat, a < m,
           NumberRound(m, a).at.cur <= l
    PROVE  /\ NumberRound(l, a) = NumberRound(m, a) /\ a < l
           /\ NoDouble(l, a) <=> NoDouble(m, a)
<1> DEFINE x == DigitsTo(m, a)
           f == FloatTo(m, a, x)
           to == IF f # 0 THEN f ELSE x
<1>0. l \in Nat /\ x \in (a + 1)..m /\ x \in Nat /\ x \in 0..m
  BY NumberFacts
<1>1. NumberRound(m, a).at.cur = to
  BY EndsFacts DEF NumberRound, NumberOf
<1>2. f = 0 \/ f \in (x + 1)..m
  BY <1>0, FloatFacts
<1>3. to <= l
  BY <1>1
<1>4. x <= l /\ f <= l /\ a < l
  <2> HIDE DEF x, f
  <2> QED
    BY <1>0, <1>2, <1>3
<1>5. /\ Hex(l, a) <=> Hex(m, a)
      /\ DigitsFrom(l, a) = DigitsFrom(m, a)
      /\ DigitsTo(l, a) = x
      /\ NoDouble(l, a) <=> NoDouble(m, a)
  BY <1>4, SameDigits
<1>6. FloatTo(l, a, x) = f
  <2>1. x \in 0..l
    <3> HIDE DEF x
    <3> QED
      BY <1>0, <1>4
  <2> QED
    BY <1>4, <1>5, <2>1, SameFloat
<1>7. Valid(l, a, x) <=> Valid(m, a, x)
  BY <1>5 DEF Valid
<1>8. NumberRound(l, a) = NumberRound(m, a)
  <2> HIDE DEF to
  <2> QED
    BY <1>5, <1>6, <1>7 DEF NumberRound, NumberOf
<1> QED
  BY <1>1, <1>4, <1>5, <1>8

LEMMA SameLoopRound ==
    ASSUME NEW m \in Nat, NEW l \in 0..m, NEW a \in Nat, a < m,
           LoopRound(m, a).at.cur <= l
    PROVE  /\ LoopRound(l, a) = LoopRound(m, a) /\ a < l
           /\ CharAt(a) \in Digit => (NoDouble(l, a) <=> NoDouble(m, a))
<1>0. l \in Nat
  OBVIOUS
<1>1. CASE CharAt(a) \in Letter \cup {"_"}
  <2>1. \A n : LoopRound(n, a) = NameRound(n, a)
    BY <1>1 DEF LoopRound
  <2>2. CharAt(a) \notin Digit
    BY <1>1, LetterFacts
  <2> QED
    BY <2>1, <2>2, SameName
<1>2. CASE CharAt(a) \in Digit
  <2>1. \A n : LoopRound(n, a) = NumberRound(n, a)
    BY <1>2, LetterFacts DEF LoopRound
  <2> QED
    BY <2>1, SameNumberRound
<1>3. CASE CharAt(a) \in {"\"", "'"}
  <2>1. PICK loop \in Inside : \A n : LoopRound(n, a) = Enters(loop, a, 1)
    BY <1>3, LetterFacts DEF LoopRound, Inside
  <2>2. Enters(loop, a, 1).at.cur = a + 1 /\ CharAt(a) \notin Digit
    BY <1>3, LetterFacts DEF Enters
  <2>3. a < l
    BY <2>1, <2>2
  <2> QED
    BY <2>1, <2>2, <2>3
<1>4. CASE CharAt(a) = "/" /\ In(m, a + 1, {"/"})
  <2>1. CharAt(a) \notin Digit /\ CharAt(a) \notin Letter \cup {"_"} /\ In(m, a, {"/"})
    BY <1>4, LetterFacts DEF In
  <2>2. LoopRound(m, a) = CommentRound(m, a)
    BY <1>4, <2>1 DEF LoopRound
  <2>3. /\ CommentRound(l, a) = CommentRound(m, a) /\ a < l
        /\ In(l, a + 1, {"/"})
    BY <1>4, <2>1, <2>2, SameComment
  <2>4. LoopRound(l, a) = CommentRound(l, a)
    BY <1>4, <2>1, <2>3 DEF LoopRound
  <2> QED
    BY <2>1, <2>2, <2>3, <2>4
<1>5. CASE CharAt(a) = "/" /\ In(m, a + 1, {"*"})
  <2>1. /\ CharAt(a) \notin Digit /\ CharAt(a) \notin Letter \cup {"_"}
        /\ \A n : ~(In(n, a + 1, {"/"}) /\ In(n, a + 1, {"*"}))
    BY <1>5, LetterFacts DEF In
  <2>2. LoopRound(m, a) = Enters("block", a, 2)
    BY <1>5, <2>1 DEF LoopRound
  <2>3. LoopRound(m, a).at.cur = a + 2
    BY <2>2 DEF Enters
  <2>4. In(l, a + 1, {"*"})
    BY <1>0, <1>5, <2>3, SameIn
  <2>5. LoopRound(l, a) = Enters("block", a, 2)
    BY <1>5, <2>1, <2>4 DEF LoopRound
  <2>6. a < l
    BY <2>3
  <2>7. LoopRound(l, a) = LoopRound(m, a)
    BY <2>2, <2>5
  <2> QED
    BY <2>1, <2>6, <2>7
<1>6. CASE /\ CharAt(a) \notin Letter \cup {"_"} /\ CharAt(a) \notin Digit
           /\ CharAt(a) \notin {"\"", "'"}
           /\ ~(CharAt(a) = "/" /\ (In(m, a + 1, {"/"}) \/ In(m, a + 1, {"*"})))
  <2>1. LoopRound(m, a) = SymbolRound(m, a)
    BY <1>6 DEF LoopRound
  <2>2. \A chars : In(l, a + 1, chars) => In(m, a + 1, chars)
    BY SameIn
  <2>3. LoopRound(l, a) = SymbolRound(l, a)
    BY <1>6, <2>2 DEF LoopRound
  <2> QED
    BY <1>6, <2>1, <2>3, SameSymbol
<1> QED
  BY <1>1, <1>2, <1>3, <1>4, <1>5, <1>6

LEMMA GoesFacts ==
    ASSUME NEW p, NEW to, NEW n, NEW its
    PROVE  Goes(p, to, n, its).at.cur = to
BY DEF Goes

LEMMA SameUnicode ==
    ASSUME NEW m \in Nat, NEW l \in 0..m, NEW p \in Place, p.cur + 2 < m,
           UnicodeRound(m, p).at.cur <= l
    PROVE  UnicodeRound(l, p) = UnicodeRound(m, p) /\ p.cur + 2 < l
<1> DEFINE c == p.cur
           x == Over(m, c + 3, HexDigit)
           closed == In(m, x, {"}"})
           end == IF closed THEN x + 1 ELSE x
           its == IF closed /\ x > c + 3 THEN <<>>
                  ELSE <<Error("InvalidUnicodeEscape", c, end)>>
<1>0. c \in Nat /\ l \in Nat
  BY DEF Place
<1>1. x \in (c + 3)..m /\ x \in Nat
  <2> HIDE DEF c
  <2>1. c + 3 \in 0..m
    <3>1. c + 2 < m
      BY DEF c
    <3> QED
      BY <1>0, <3>1
  <2> QED
    BY <1>0, <2>1, OverFacts
<1>2. UnicodeRound(m, p) = Goes(p, end, 1, its)
  BY DEF UnicodeRound, UnicodeOf
<1>3. end <= l
  <2> HIDE DEF end, its
  <2>1. UnicodeRound(m, p).at.cur = end
    BY <1>2, GoesFacts
  <2> QED
    BY <2>1
<1> HIDE DEF x
<1>4. x <= l /\ (closed => x < l)
  <2> HIDE DEF c, closed
  <2>1. CASE closed
    BY <1>0, <1>1, <1>3, <2>1
  <2>2. CASE ~closed
    BY <1>0, <1>1, <1>3, <2>2
  <2> QED
    BY <2>1, <2>2
<1>5. c + 2 < l /\ c + 3 \in 0..l
  <2> HIDE DEF c, closed
  <2>1. x >= c + 3 /\ x <= l
    BY <1>0, <1>1, <1>4
  <2> QED
    BY <1>0, <1>1, <2>1
<1>6. Over(l, c + 3, HexDigit) = x
  BY <1>4, <1>5, SameOver DEF x
<1>7. In(l, x, {"}"}) <=> closed
  BY <1>1, <1>4, SameIn
<1>8. UnicodeRound(l, p) = Goes(p, end, 1, its)
  BY <1>6, <1>7 DEF UnicodeRound, UnicodeOf
<1>9. p.cur + 2 < l
  BY <1>5
<1> HIDE DEF end, its
<1> QED
  BY <1>2, <1>8, <1>9

LEMMA SameLiteral ==
    ASSUME NEW m \in Nat, NEW l \in 0..m, NEW p \in Place, p.cur <= l, l # m,
           LiteralRound(m, p).at.cur <= l
    PROVE  LiteralRound(l, p) = LiteralRound(m, p)
<1> DEFINE quote == IF p.routine = "string" THEN "\"" ELSE "'"
           c == p.cur
<1>0. c \in Nat /\ l \in Nat /\ c # m /\ c <= l
  BY DEF Place
<1>1. CASE CharAt(c) \in LineEnd
  <2>1. LiteralRound(m, p) = Ends(<<Broken(p, c + 1)>>, c + 1)
    BY <1>0, <1>1 DEF LiteralRound
  <2>2. c + 1 <= l
    BY <2>1, EndsFacts
  <2>3. c # l
    BY <1>0, <2>2
  <2>4. LiteralRound(l, p) = Ends(<<Broken(p, c + 1)>>, c + 1)
    BY <1>1, <2>3 DEF LiteralRound
  <2> QED
    BY <2>1, <2>4
<1>2. CASE CharAt(c) \notin LineEnd /\ CharAt(c) = quote
  <2>1. LiteralRound(m, p) = Ends(<<Closed(p)>>, c + 1)
    BY <1>0, <1>2 DEF LiteralRound
  <2>2. c + 1 <= l
    BY <2>1, EndsFacts
  <2>3. c # l
    BY <1>0, <2>2
  <2>4. LiteralRound(l, p) = Ends(<<Closed(p)>>, c + 1)
    BY <1>2, <2>3 DEF LiteralRound
  <2> QED
    BY <2>1, <2>4
<1>3. CASE CharAt(c) \notin LineEnd /\ CharAt(c) # quote /\ CharAt(c) # "\\"
  <2> DEFINE r == Goes(p, c + 1, IF CharAt(c) \in Continuation THEN 0 ELSE 1, <<>>)
  <2>1. LiteralRound(m, p) = r
    BY <1>0, <1>3 DEF LiteralRound
  <2>2. c + 1 <= l
    BY <2>1, GoesFacts
  <2>3. c # l
    BY <1>0, <2>2
  <2>4. LiteralRound(l, p) = r
    BY <1>3, <2>3 DEF LiteralRound
  <2> QED
    BY <2>1, <2>4
<1>4. CASE CharAt(c) \notin LineEnd /\ CharAt(c) # quote /\ CharAt(c) = "\\"
  <2> DEFINE unicode(n) == In(n, c + 1, {"u"}) /\ In(n, c + 2, {"{"})
  <2>1. \A n : n # c /\ n # c + 1 =>
                 LiteralRound(n, p) = IF unicode(n) THEN UnicodeRound(n, p)
                                      ELSE SimpleRound(p)
    BY <1>4 DEF LiteralRound
  <2>2. c + 1 # m
    <3> SUFFICES ASSUME c + 1 = m PROVE FALSE
      OBVIOUS
    <3>1. LiteralRound(m, p) = Ends(<<Error("InvalidEscapeSequence", c, m), Broken(p, m)>>, m)
      BY <1>0, <1>4 DEF LiteralRound
    <3>2. m <= l
      BY <3>1, EndsFacts
    <3> QED
      BY <3>2
  <2>3. CASE unicode(m)
    <3>1. c + 2 < m
      BY <2>3 DEF In
    <3>2. LiteralRound(m, p) = UnicodeRound(m, p)
      BY <1>0, <2>1, <2>2, <2>3
    <3>3. UnicodeRound(l, p) = UnicodeRound(m, p) /\ c + 2 < l
      BY <3>1, <3>2, SameUnicode
    <3>4. l # c /\ l # c + 1 /\ c + 1 \in Nat /\ c + 2 \in Nat /\ c + 1 < l
      BY <1>0, <3>3
    <3>5. unicode(l)
      <4> HIDE DEF c
      <4>1. In(l, c + 1, {"u"})
        BY <2>3, <3>4, SameIn
      <4>2. In(l, c + 2, {"{"})
        <5>1. c + 2 < l
          BY <3>3 DEF c
        <5> QED
          BY <2>3, <3>4, <5>1, SameIn
      <4> QED
        BY <4>1, <4>2
    <3> HIDE DEF unicode, c
    <3> QED
      BY <2>1, <3>2, <3>3, <3>4, <3>5
  <2>4. CASE ~unicode(m)
    <3>1. LiteralRound(m, p) = SimpleRound(p)
      BY <1>0, <2>1, <2>2, <2>4
    <3>2. c + 2 <= l
      <4>1. SimpleRound(p).at.cur = c + 2
        BY DEF SimpleRound, Goes
      <4> QED
        BY <3>1, <4>1
    <3>3. l # c /\ l # c + 1 /\ c + 1 \in Nat /\ c + 2 \in Nat
      BY <1>0, <3>2
    <3>4. ~unicode(l)
      <4> HIDE DEF c
      <4> HIDE DEF unicode
      <4>1. \A i \in Nat : \A chars : In(l, i, chars) => In(m, i, chars)
        BY SameIn
      <4> DEFINE d == c + 1
                 e == c + 2
      <4>2. d \in Nat /\ e \in Nat
        BY <3>3
      <4> HIDE DEF d, e
      <4>3. In(l, d, {"u"}) => In(m, d, {"u"})
        BY <4>1, <4>2
      <4>4. In(l, e, {"{"}) => In(m, e, {"{"})
        BY <4>1, <4>2
      <4> QED
        BY <2>4, <4>3, <4>4 DEF d, e, unicode
    <3> HIDE DEF unicode, c
    <3> QED
      BY <2>1, <3>1, <3>3, <3>4
  <2> QED
    BY <2>3, <2>4
<1> QED
  BY <1>1, <1>2, <1>3, <1>4

LEMMA SameBlock ==
    ASSUME NEW m \in Nat, NEW l \in 0..m, NEW p \in Place, p.cur <= l, l # m,
           BlockRound(m, p).at.cur <= l
    PROVE  BlockRound(l, p) = BlockRound(m, p)
<1> DEFINE c == p.cur
           opens(n) == In(n, c, {"/"}) /\ In(n, c + 1, {"*"})
           closes(n) == In(n, c, {"*"}) /\ In(n, c + 1, {"/"})
           its == (IF p.depth > 0 THEN <<Error("UnterminatedBlockComment", p.tokStart, c)>>
                   ELSE <<>>) \o <<Token("comment", p.tokStart, c)>>
           step(o, e) ==
               [at |-> [cur |-> IF o \/ e THEN c + 2 ELSE c + 1,
                        routine |-> p.routine, tokStart |-> p.tokStart,
                        depth |-> CASE o -> p.depth + 1 [] e -> p.depth - 1
                                    [] OTHER -> p.depth,
                        charCount |-> p.charCount],
                its |-> <<>>]
<1>0. c \in Nat /\ l \in Nat /\ c # m /\ c <= l
  BY DEF Place
<1>1. CASE p.depth = 0
  BY <1>1 DEF BlockRound
<1>2. CASE p.depth # 0
  <2>1. \A n : n # c => BlockRound(n, p) = step(opens(n), closes(n))
    BY <1>2 DEF BlockRound
  <2>2. BlockRound(m, p) = step(opens(m), closes(m))
    BY <1>0, <2>1
  <2>3. BlockRound(m, p).at.cur = IF opens(m) \/ closes(m) THEN c + 2 ELSE c + 1
    BY <2>2
  <2>4. c + 1 <= l /\ (opens(m) \/ closes(m) => c + 1 < l)
    <3> HIDE DEF opens, closes, c
    <3> QED
      BY <1>0, <2>3
  <2>5. c < l /\ c + 1 \in Nat
    BY <1>0, <2>4
  <2>6. opens(l) = opens(m) /\ closes(l) = closes(m)
    BY <1>0, <2>4, <2>5, SameIn
  <2>7. BlockRound(l, p) = step(opens(l), closes(l))
    BY <2>1, <2>5
  <2> HIDE DEF opens, closes, step
  <2> QED
    BY <2>2, <2>6, <2>7
<1> QED
  BY <1>1, <1>2

\* A round that ends in a shorter window is the same there: a byte behind its end
\* decides nothing that the end of the window would not decide alike.
LEMMA SameRound ==
    ASSUME NEW m \in Nat, NEW l \in 0..m, NEW p \in Place, p.cur <= l,
           Plain(m, p), Round(m, p).at.cur <= l
    PROVE  Plain(l, p) /\ Round(l, p) = Round(m, p)
<1>0. p.cur \in Nat /\ l \in Nat /\ p.routine \in Lexing
  BY DEF Place
<1>1. CASE l = m
  BY <1>1
<1>2. CASE l # m /\ p.routine = "loop"
  <2> DEFINE a == Begin(m, p)
  <2>1. a < m /\ (CharAt(a) \in Digit => NoDouble(m, a))
    BY <1>2 DEF Plain
  <2>2. Round(m, p) = LoopRound(m, a)
    BY <1>2 DEF Round
  <2>3. a \in p.cur..m /\ a \in Nat
    <3>1. p.cur \in 0..m
      BY <1>0
    <3> QED
      BY <3>1, OverFacts DEF Begin
  <2>4. /\ LoopRound(l, a) = LoopRound(m, a) /\ a < l
        /\ CharAt(a) \in Digit => (NoDouble(l, a) <=> NoDouble(m, a))
    <3> HIDE DEF a
    <3> QED
      BY <2>1, <2>2, <2>3, SameLoopRound
  <2>7. Begin(l, p) = a
    <3>1. p.cur \in 0..l /\ a <= l
      <4> HIDE DEF a
      <4> QED
        BY <1>0, <2>3, <2>4
    <3> QED
      BY <3>1, SameOver DEF Begin
  <2>8. Round(l, p) = LoopRound(l, a)
    BY <1>2, <2>7 DEF Round
  <2> HIDE DEF a
  <2> QED
    BY <2>1, <2>2, <2>4, <2>7, <2>8 DEF Plain
<1>3. CASE l # m /\ p.routine = "block"
  <2>1. \A n : Round(n, p) = BlockRound(n, p)
    BY <1>3 DEF Round
  <2> QED
    BY <1>3, <2>1, SameBlock DEF Plain
<1>4. CASE l # m /\ p.routine \notin {"loop", "block"}
  <2>1. \A n : Round(n, p) = LiteralRound(n, p)
    BY <1>4 DEF Round
  <2> QED
    BY <1>4, <2>1, SameLiteral DEF Plain
<1> QED
  BY <1>1, <1>2, <1>3, <1>4

\* A round depends on the buffer alone.
LEMMA ScanStays ==
    ASSUME buffer' = buffer, NEW CONSTANT l
    PROVE  /\ \A i : CharAt(i)' = CharAt(i)
           /\ \A i, j : Text(i, j)' = Text(i, j)
           /\ \A i, chars : In(l, i, chars)' = In(l, i, chars)
           /\ \A i, chars : Over(l, i, chars)' = Over(l, i, chars)
           /\ \A i, chars : Until(l, i, chars)' = Until(l, i, chars)
<1>1. \A i, chars : In(l, i, chars)' = In(l, i, chars)
  BY DEF In, CharAt
<1>2. ASSUME NEW CONSTANT i, NEW CONSTANT chars
      PROVE  Over(l, i, chars)' = Over(l, i, chars)
  BY DEF In, Over, CharAt
<1>3. ASSUME NEW CONSTANT i, NEW CONSTANT chars
      PROVE  Until(l, i, chars)' = Until(l, i, chars)
  BY DEF In, Until, CharAt
<1>4. (\A i : CharAt(i)' = CharAt(i)) /\ (\A i, j : Text(i, j)' = Text(i, j))
  BY DEF CharAt, Text
<1> QED
  BY <1>1, <1>2, <1>3, <1>4

LEMMA NumberStays ==
    ASSUME buffer' = buffer, NEW CONSTANT l, NEW CONSTANT a
    PROVE  NumberRound(l, a)' = NumberRound(l, a) /\ NoDouble(l, a)' = NoDouble(l, a)
<1>1. Hex(l, a)' = Hex(l, a)
  BY ScanStays DEF Hex
<1>2. DigitsFrom(l, a)' = DigitsFrom(l, a)
  BY <1>1 DEF DigitsFrom
<1>3. DigitsTo(l, a)' = DigitsTo(l, a)
  BY <1>1, <1>2, ScanStays DEF DigitsTo
<1>4. \A end : Fraction(l, end)' = Fraction(l, end)
  BY ScanStays DEF Fraction
<1>5. \A end : FloatTo(l, a, end)' = FloatTo(l, a, end)
  BY <1>1, <1>4, ScanStays DEF FloatTo
<1>6. \A end : Valid(l, a, end)' = Valid(l, a, end)
  <2> SUFFICES ASSUME NEW CONSTANT end PROVE Valid(l, a, end)' = Valid(l, a, end)
    OBVIOUS
  <2>1. PICK d : d = DigitsFrom(l, a)
    OBVIOUS
  <2>2. (\E k \in d..(end - 1) : CharAt(k) \in HexDigit)'
        <=> \E k \in d..(end - 1) : CharAt(k) \in HexDigit
    BY ScanStays
  <2>3. (CharAt(end - 1) # "_")' <=> CharAt(end - 1) # "_"
    BY ScanStays
  <2>4. Valid(l, a, end) <=> /\ Hex(l, a) => \E k \in d..(end - 1) : CharAt(k) \in HexDigit
                             /\ CharAt(end - 1) # "_"
    BY <2>1 DEF Valid
  <2>5. d = DigitsFrom(l, a)'
    BY <1>2, <2>1
  <2>6. Valid(l, a, end)' <=>
          /\ Hex(l, a)' => (\E k \in d..(end - 1) : CharAt(k) \in HexDigit)'
          /\ (CharAt(end - 1) # "_")'
    BY <2>5 DEF Valid
  <2>7. Valid(l, a, end)' <=> Valid(l, a, end)
    BY <1>1, <2>2, <2>3, <2>4, <2>6
  <2> QED
    BY <2>7 DEF Valid
<1>7. \A end : NumberOf(l, a, end)' = NumberOf(l, a, end)
  BY <1>5, <1>6 DEF NumberOf
<1>8. NumberRound(l, a)' = NumberRound(l, a)
  BY <1>3, <1>7 DEF NumberRound
<1>9. NoDouble(l, a)' = NoDouble(l, a)
  BY <1>2, <1>3, ScanStays DEF NoDouble
<1> QED
  BY <1>8, <1>9

LEMMA LoopRoundStays ==
    ASSUME buffer' = buffer, NEW CONSTANT l, NEW CONSTANT a
    PROVE  LoopRound(l, a)' = LoopRound(l, a)
<1>1. NameRound(l, a)' = NameRound(l, a)
  BY ScanStays DEF NameRound, NameItem, Ends, Loop
<1>2. NumberRound(l, a)' = NumberRound(l, a)
  BY NumberStays
<1>3. CommentRound(l, a)' = CommentRound(l, a)
  <2>1. \A slashes : CommentKind(l, a, slashes)' = CommentKind(l, a, slashes)
    BY ScanStays DEF CommentKind
  <2>2. \A slashes : CommentOf(l, a, slashes)' = CommentOf(l, a, slashes)
    BY <2>1, ScanStays DEF CommentOf, Ends, Loop
  <2> QED
    BY <2>2, ScanStays DEF CommentRound
<1>4. SymbolRound(l, a)' = SymbolRound(l, a)
  <2>1. SymbolEnds(l, a)' = SymbolEnds(l, a)
    BY ScanStays DEF SymbolEnds
  <2> QED
    BY <2>1 DEF SymbolRound
<1>5. /\ CharAt(a)' = CharAt(a)
      /\ In(l, a + 1, {"/"})' = In(l, a + 1, {"/"})
      /\ In(l, a + 1, {"*"})' = In(l, a + 1, {"*"})
  BY ScanStays
<1> QED
  BY <1>1, <1>2, <1>3, <1>4, <1>5 DEF LoopRound

\* A round depends on the buffer, and on nothing else that changes.
LEMMA RoundStays ==
    ASSUME buffer' = buffer, NEW CONSTANT l, NEW CONSTANT p
    PROVE  Round(l, p)' = Round(l, p) /\ Plain(l, p)' = Plain(l, p)
<1>1. Begin(l, p)' = Begin(l, p)
  BY ScanStays DEF Begin
<1>2. \A a : LoopRound(l, a)' = LoopRound(l, a)
  BY LoopRoundStays
<1>3. BlockRound(l, p)' = BlockRound(l, p)
  BY ScanStays DEF BlockRound
<1>4. LiteralRound(l, p)' = LiteralRound(l, p)
  <2>1. UnicodeRound(l, p)' = UnicodeRound(l, p)
    <3>1. \A digits : UnicodeOf(l, p, digits)' = UnicodeOf(l, p, digits)
      BY ScanStays DEF UnicodeOf
    <3> QED
      BY <3>1, ScanStays DEF UnicodeRound
  <2>2. SimpleRound(p)' = SimpleRound(p)
    BY ScanStays DEF SimpleRound
  <2>3. /\ CharAt(p.cur)' = CharAt(p.cur)
        /\ In(l, p.cur + 1, {"u"})' = In(l, p.cur + 1, {"u"})
        /\ In(l, p.cur + 2, {"{"})' = In(l, p.cur + 2, {"{"})
    BY ScanStays
  <2> QED
    BY <2>1, <2>2, <2>3 DEF LiteralRound
<1>5. \A a : NoDouble(l, a)' = NoDouble(l, a)
  BY NumberStays
<1>6. Round(l, p)' = Round(l, p)
  BY <1>1, <1>2, <1>3, <1>4 DEF Round
<1>7. Plain(l, p)' = Plain(l, p)
  BY <1>1, <1>5, ScanStays DEF Plain
<1> QED
  BY <1>6, <1>7

\* What a round adds is a sequence.
Listed(s) == \E S : s \in Seq(S)

LEMMA ListedFacts ==
    ASSUME NEW x, NEW y
    PROVE  /\ Listed(<<>>) /\ Listed(<<x>>) /\ Listed(<<x, y>>)
           /\ Listed(<<x>> \o <<y>>) /\ Listed(<<>> \o <<y>>)
<1> DEFINE S == {x, y}
<1>1. x \in S /\ y \in S
  OBVIOUS
<1> HIDE DEF S
<1>2. /\ <<>> \in Seq(S) /\ <<x>> \in Seq(S) /\ <<y>> \in Seq(S) /\ <<x, y>> \in Seq(S)
  BY <1>1
<1>3. <<x>> \o <<y>> \in Seq(S) /\ <<>> \o <<y>> \in Seq(S)
  BY <1>2
<1> QED
  BY <1>2, <1>3 DEF Listed

LEMMA ListedEnds ==
    /\ \A its, to : Ends(its, to).its = its
    /\ \A loop, a, n : Enters(loop, a, n).its = <<>>
    /\ \A p, to, n, its : Goes(p, to, n, its).its = its
    /\ Listed(<<>>) /\ (\A x : Listed(<<x>>)) /\ (\A x, y : Listed(<<x, y>>))
<1>1. Listed(<<>>) /\ (\A x : Listed(<<x>>)) /\ (\A x, y : Listed(<<x, y>>))
  BY ListedFacts
<1> QED
  BY <1>1 DEF Ends, Enters, Goes

LEMMA LoopRoundListed ==
    ASSUME NEW l, NEW a
    PROVE  Listed(LoopRound(l, a).its)
<1>1. Listed(NameRound(l, a).its)
  BY ListedEnds DEF NameRound
<1>2. Listed(NumberRound(l, a).its)
  BY ListedEnds DEF NumberRound, NumberOf
<1>3. Listed(CommentRound(l, a).its)
  BY ListedEnds DEF CommentRound, CommentOf
<1>4. Listed(SymbolRound(l, a).its)
  BY ListedEnds DEF SymbolRound
<1>5. \A loop, n : Listed(Enters(loop, a, n).its)
  BY ListedEnds
<1> QED
  BY <1>1, <1>2, <1>3, <1>4, <1>5 DEF LoopRound

\* A round adds a sequence of items.
LEMMA RoundListed ==
    ASSUME NEW l, NEW p
    PROVE  Listed(Round(l, p).its)
<1>1. \A a : Listed(LoopRound(l, a).its)
  BY LoopRoundListed
<1>2. Listed(BlockRound(l, p).its)
  <2> DEFINE c == Token("comment", p.tokStart, p.cur)
             e == Error("UnterminatedBlockComment", p.tokStart, p.cur)
  <2>2. Listed((IF p.depth > 0 THEN <<e>> ELSE <<>>) \o <<c>>)
    <3>1. Listed(<<e>> \o <<c>>) /\ Listed(<<>> \o <<c>>)
      BY ListedFacts
    <3> HIDE DEF c, e
    <3>2. CASE p.depth > 0
      BY <3>1, <3>2
    <3>3. CASE ~(p.depth > 0)
      BY <3>1, <3>3
    <3> QED
      BY <3>2, <3>3
  <2>3. CASE p.cur = l \/ p.depth = 0
    <3>1. BlockRound(l, p) = Ends((IF p.depth > 0 THEN <<e>> ELSE <<>>) \o <<c>>, p.cur)
      BY <2>3 DEF BlockRound
    <3> HIDE DEF c, e
    <3> QED
      BY <2>2, <3>1, ListedEnds
  <2>4. CASE ~(p.cur = l \/ p.depth = 0)
    <3>1. BlockRound(l, p).its = <<>>
      BY <2>4 DEF BlockRound
    <3> QED
      BY <3>1, ListedEnds
  <2> QED
    BY <2>3, <2>4
<1>3. Listed(LiteralRound(l, p).its)
  <2>0. ASSUME NEW c, NEW x PROVE Listed(IF c THEN <<>> ELSE <<x>>)
    BY ListedEnds
  <2>1. Listed(UnicodeRound(l, p).its)
    <3>1. \A digits : UnicodeOf(l, p, digits).its =
            IF In(l, digits, {"}"}) /\ digits > p.cur + 3 THEN <<>>
            ELSE <<Error("InvalidUnicodeEscape", p.cur,
                         IF In(l, digits, {"}"}) THEN digits + 1 ELSE digits)>>
      BY DEF UnicodeOf, Goes
    <3>2. \A digits : Listed(UnicodeOf(l, p, digits).its)
      BY <3>1, <2>0
    <3> QED
      BY <3>2 DEF UnicodeRound
  <2>2. Listed(SimpleRound(p).its)
    <3>1. SimpleRound(p).its =
            IF CharAt(p.cur + 1) \in {"n", "t", "r", "0", "\\", "\"", "'"} THEN <<>>
            ELSE <<Error("InvalidEscapeSequence", p.cur, p.cur + 2)>>
      BY DEF SimpleRound, Goes
    <3> QED
      BY <3>1, <2>0
  <2>3. \A x, to : Listed(Ends(<<x>>, to).its)
    BY ListedEnds
  <2>4. \A x, y, to : Listed(Ends(<<x, y>>, to).its)
    BY ListedEnds
  <2>5. \A to, n : Listed(Goes(p, to, n, <<>>).its)
    BY ListedEnds
  <2> QED
    BY <2>1, <2>2, <2>3, <2>4, <2>5 DEF LiteralRound
<1> QED
  BY <1>1, <1>2, <1>3 DEF Round

\* The items behind those there were.
LEMMA ListedAppended ==
    ASSUME NEW s \in Seq(Item), NEW t, Listed(t)
    PROVE  /\ Len(t) \in Nat /\ DOMAIN t = 1..Len(t)
           /\ s \o t \in Seq(Item) => t \in Seq(Item)
           /\ Len(s \o t) = Len(s) + Len(t)
           /\ \A k \in DOMAIN s : (s \o t)[k] = s[k]
           /\ \A k \in DOMAIN t : (s \o t)[Len(s) + k] = t[k]
<1>2. PICK S : t \in Seq(S)
  BY DEF Listed
<1>3. Len(t) \in Nat /\ DOMAIN t = 1..Len(t)
  BY <1>2
<1>4. /\ Len(s \o t) = Len(s) + Len(t)
      /\ \A k \in DOMAIN s : (s \o t)[k] = s[k]
      /\ \A k \in DOMAIN t : (s \o t)[Len(s) + k] = t[k]
  BY <1>2
<1>5. ASSUME s \o t \in Seq(Item) PROVE t \in Seq(Item)
  <2>1. \A k \in DOMAIN t : Len(s) + k \in DOMAIN (s \o t)
    BY <1>2
  <2>2. \A k \in DOMAIN t : t[k] \in Item
    BY <1>4, <1>5, <2>1
  <2> QED
    BY <1>2, <2>2
<1> QED
  BY <1>3, <1>4, <1>5

-----------------------------------------------------------------------------
(* The course of a call over the whole buffer.                             *)

\* Where the lexer has been, and how many items it had made.
Mark == [at : Place, made : Nat]
AtLoop(x) == x.at.routine = "loop"

Follow(m, x, y, its) ==
    /\ Plain(m, x.at) /\ y.at = Round(m, x.at).at
    /\ y.made = x.made + Len(Round(m, x.at).its)
    /\ \A k \in DOMAIN Round(m, x.at).its : its[x.made + k] = Round(m, x.at).its[k]
Before(x, y) ==
    /\ x.at.cur <= y.at.cur /\ x.made <= y.made
    /\ AtLoop(x) => x.at.cur < y.at.cur
\* No item lies across a place where the loop has been.
Parts(x, its) ==
    AtLoop(x) => \A k \in DOMAIN its : IF k <= x.made THEN its[k].span[2] <= x.at.cur
                                       ELSE x.at.cur <= its[k].span[1]
Course(m, tr, its) ==
    /\ tr \in Seq(Mark) /\ tr # <<>>
    /\ \A i \in DOMAIN tr : /\ tr[i].made <= Len(its) /\ tr[i].at.cur <= m
                            /\ Parts(tr[i], its)
    /\ \A i, j \in DOMAIN tr : i < j => Before(tr[i], tr[j])
    /\ \A i \in DOMAIN tr : i + 1 \in DOMAIN tr => Follow(m, tr[i], tr[i + 1], its)

\* So does a course.
LEMMA CourseStays ==
    ASSUME buffer' = buffer, NEW CONSTANT m, NEW CONSTANT tr, NEW CONSTANT its
    PROVE  Course(m, tr, its)' <=> Course(m, tr, its)
<1>1. \A p : Round(m, p)' = Round(m, p) /\ (Plain(m, p)' <=> Plain(m, p))
  BY RoundStays
<1>2. \A x, y : Follow(m, x, y, its)' <=> Follow(m, x, y, its)
  BY <1>1 DEF Follow
<1> QED
  BY <1>2 DEF Course, Parts, AtLoop, Before

\* More items are added behind what had been turned into items.
LEMMA CourseItems ==
    ASSUME NEW m \in Nat, NEW tr, NEW s \in Seq(Item), NEW t \in Seq(Item),
           Course(m, tr, s),
           \A i \in DOMAIN tr : AtLoop(tr[i]) =>
               \A k \in DOMAIN t : tr[i].at.cur <= t[k].span[1]
    PROVE  Course(m, tr, s \o t)
<1> DEFINE its == s \o t
<1>0. /\ its \in Seq(Item) /\ Len(its) = Len(s) + Len(t) /\ Len(s) \in Nat /\ Len(t) \in Nat
      /\ \A k \in DOMAIN s : k \in 1..Len(s) /\ its[k] = s[k]
      /\ \A k \in DOMAIN its :
             \/ k \in DOMAIN s
             \/ k > Len(s) /\ k - Len(s) \in DOMAIN t /\ its[k] = t[k - Len(s)]
      /\ \A k \in 1..Len(s) : k \in DOMAIN s
  <2>1. /\ its \in Seq(Item) /\ Len(its) = Len(s) + Len(t) /\ Len(s) \in Nat /\ Len(t) \in Nat
        /\ DOMAIN s = 1..Len(s) /\ DOMAIN t = 1..Len(t) /\ DOMAIN its = 1..(Len(s) + Len(t))
    OBVIOUS
  <2>2. \A k \in DOMAIN s : its[k] = s[k]
    OBVIOUS
  <2>3. ASSUME NEW k \in DOMAIN its, k > Len(s)
        PROVE  k - Len(s) \in DOMAIN t /\ its[k] = t[k - Len(s)]
    <3>1. k - Len(s) \in 1..Len(t)
      <4> HIDE DEF its
      <4> QED
        BY <2>1, <2>3
    <3> QED
      BY <2>1, <2>3, <3>1
  <2> HIDE DEF its
  <2>4. \A k \in DOMAIN its : k \in DOMAIN s \/ k > Len(s)
    BY <2>1
  <2> QED
    BY <2>1, <2>2, <2>3, <2>4
<1> HIDE DEF its
<1>1. tr \in Seq(Mark) /\ \A i \in DOMAIN tr : tr[i] \in Mark
  BY DEF Course
<1>2. ASSUME NEW i \in DOMAIN tr
      PROVE  tr[i].made <= Len(its) /\ tr[i].at.cur <= m /\ Parts(tr[i], its)
  <2>1. tr[i].made \in Nat /\ tr[i].at.cur \in Nat
    BY <1>1 DEF Mark, Place
  <2>2. tr[i].made <= Len(s) /\ tr[i].at.cur <= m /\ Parts(tr[i], s)
    BY DEF Course
  <2>3. ASSUME AtLoop(tr[i]), NEW k \in DOMAIN its
        PROVE  IF k <= tr[i].made THEN its[k].span[2] <= tr[i].at.cur
               ELSE tr[i].at.cur <= its[k].span[1]
    <3>1. CASE k \in DOMAIN s
      BY <1>0, <2>2, <2>3, <3>1 DEF Parts
    <3>2. CASE k > Len(s) /\ k - Len(s) \in DOMAIN t /\ its[k] = t[k - Len(s)]
      <4>1. ~(k <= tr[i].made)
        BY <1>0, <2>1, <2>2, <2>3, <3>2
      <4> QED
        BY <2>3, <3>2, <4>1
    <3> QED
      BY <1>0, <3>1, <3>2
  <2> QED
    BY <1>0, <2>1, <2>2, <2>3 DEF Parts
<1>3. ASSUME NEW i \in DOMAIN tr, i + 1 \in DOMAIN tr
      PROVE  Follow(m, tr[i], tr[i + 1], its)
  <2> DEFINE r == Round(m, tr[i].at).its
  <2>1. Follow(m, tr[i], tr[i + 1], s) /\ tr[i + 1].made <= Len(s)
    BY <1>3 DEF Course
  <2>2. tr[i].made \in Nat
    BY <1>1 DEF Mark
  <2>3. Len(r) \in Nat /\ DOMAIN r = 1..Len(r)
    BY RoundListed, ListedAppended
  <2>4. \A k \in DOMAIN r : tr[i].made + k \in 1..Len(s)
    <3>1. tr[i + 1].made = tr[i].made + Len(r)
      BY <2>1 DEF Follow
    <3> HIDE DEF r
    <3> QED
      BY <1>0, <2>1, <2>2, <2>3, <3>1
  <2>5. \A k \in DOMAIN r : its[tr[i].made + k] = s[tr[i].made + k]
    BY <1>0, <2>4
  <2> QED
    BY <2>1, <2>5 DEF Follow
<1> QED
  BY <1>2, <1>3 DEF Course, its

LEMMA MarkType ==
    ASSUME NEW x \in Mark
    PROVE  /\ x.at \in Place /\ x.at.cur \in Nat /\ x.made \in Nat
           /\ x.at.routine \in Lexing
BY DEF Mark, Place

\* Marks follow one another.
LEMMA BeforeTransitive ==
    ASSUME NEW x \in Mark, NEW y \in Mark, NEW z \in Mark, Before(x, y), Before(y, z)
    PROVE  Before(x, z)
BY MarkType DEF Before

\* One more mark.
LEMMA CourseLonger ==
    ASSUME NEW m \in Nat, NEW tr, NEW s \in Seq(Item), Course(m, tr, s), NEW y \in Mark,
           Follow(m, tr[Len(tr)], y, s), Before(tr[Len(tr)], y),
           y.made <= Len(s), y.at.cur <= m, Parts(y, s)
    PROVE  Course(m, Append(tr, y), s)
<1> DEFINE n == Len(tr)
           lg == Append(tr, y)
<1>1. /\ tr \in Seq(Mark) /\ tr # <<>> /\ n \in Nat /\ DOMAIN tr = 1..n
      /\ \A i \in 1..n : tr[i] \in Mark
  BY DEF Course
<1>2. /\ lg \in Seq(Mark) /\ DOMAIN lg = 1..(n + 1) /\ lg[n + 1] = y
      /\ \A i \in 1..n : lg[i] = tr[i]
  BY <1>1
<1>3. n >= 1
  BY <1>1
<1>4. /\ \A i \in 1..n : tr[i].made <= Len(s) /\ tr[i].at.cur <= m /\ Parts(tr[i], s)
      /\ \A i, j \in 1..n : i < j => Before(tr[i], tr[j])
      /\ \A i \in 1..n : i + 1 \in 1..n => Follow(m, tr[i], tr[i + 1], s)
  BY <1>1 DEF Course
<1>5. Follow(m, tr[n], y, s) /\ Before(tr[n], y)
  OBVIOUS
<1> HIDE DEF n, lg
<1>6. \A i \in 1..(n + 1) : i \in 1..n \/ i = n + 1
  BY <1>1
<1>7. \A i \in 1..(n + 1) : /\ lg[i].made <= Len(s) /\ lg[i].at.cur <= m
                            /\ Parts(lg[i], s)
  BY <1>2, <1>4, <1>6
<1>8. ASSUME NEW i \in 1..n PROVE Before(tr[i], y)
  <2>1. CASE i = n
    BY <1>5, <2>1
  <2>2. CASE i # n
    <3>1. Before(tr[i], tr[n])
      BY <1>1, <1>3, <1>4, <2>2
    <3>2. tr[i] \in Mark /\ tr[n] \in Mark
      BY <1>1, <1>3
    <3> QED
      BY <1>5, <3>1, <3>2, BeforeTransitive
  <2> QED
    BY <2>1, <2>2
<1>9. ASSUME NEW i \in 1..(n + 1), NEW j \in 1..(n + 1), i < j
      PROVE  Before(lg[i], lg[j])
  <2>1. i \in 1..n
    BY <1>1, <1>9
  <2> QED
    BY <1>2, <1>4, <1>6, <1>8, <1>9, <2>1
<1>10. ASSUME NEW i \in 1..(n + 1), i + 1 \in 1..(n + 1)
       PROVE  Follow(m, lg[i], lg[i + 1], s)
  <2>1. i \in 1..n
    BY <1>1, <1>10
  <2>2. CASE i = n
    BY <1>2, <1>5, <2>1, <2>2
  <2>3. CASE i # n
    <3>1. i + 1 \in 1..n
      BY <1>1, <2>1, <2>3
    <3> QED
      BY <1>2, <1>4, <2>1, <3>1
  <2> QED
    BY <2>2, <2>3
<1>11. lg # <<>>
  <2>1. 1 \in DOMAIN lg
    BY <1>1, <1>2, <1>3
  <2> QED
    BY <2>1
<1>12. Course(m, lg, s)
  BY <1>2, <1>7, <1>9, <1>10, <1>11 DEF Course
<1> QED
  BY <1>12 DEF lg

-----------------------------------------------------------------------------
(* The marks of the first call.                                            *)

\* A step of lex moves on inside its window.
LEMMA LexesKeeps ==
    ASSUME Inv, Lexes
    PROVE  /\ Inv' /\ Grown /\ ~InvalidSpan /\ ~InvalidSpan'
           /\ cur' >= cur /\ (routine = "loop" => cur' > cur)
           /\ routine \in Lexing /\ routine' \in Lexing
           /\ UNCHANGED <<buffer, first, last, whole>>
<1>1. Inv' /\ Grown
  BY InvIdentifier, InvDoubledUnderscore, InvNumber, InvEnters, InvCutOff, InvCloseQuote,
     InvPlainChar, InvEscapeCutOff, InvEscape, InvLineComment, InvBlockComment,
     InvEndBlockComment, InvSymbol DEF Lexes
<1>2. ~InvalidSpan /\ cur' >= cur /\ (cur' = cur => routine \in Inside /\ routine' = "loop")
  BY PointerMoves DEF Lexes
<1>3. /\ routine \in Lexing /\ routine' \in Lexing
      /\ UNCHANGED <<buffer, first, last, whole>>
  BY LexSteps DEF Lexes
<1>4. "loop" \notin Inside
  BY DEF Inside
<1>5. cur \in Nat /\ cur' \in Nat
  BY <1>1 DEF Inv, Window
<1>6. ~InvalidSpan'
  BY <1>2, <1>3 DEF InvalidSpan
<1>7. routine = "loop" => cur' > cur
  <2> DEFINE c == cur'
  <2>1. c \in Nat /\ c >= cur /\ (routine = "loop" => c # cur)
    BY <1>2, <1>4, <1>5
  <2> HIDE DEF c
  <2>2. routine = "loop" => c > cur
    BY <1>5, <2>1
  <2> QED
    BY <2>2 DEF c
<1> QED
  BY <1>1, <1>2, <1>3, <1>6, <1>7

\* A place where the loop begins a round is recorded.
LEMMA HeadsGrow ==
    ASSUME Lexes
    PROVE  heads' = heads \/ (routine' = "loop" /\ heads' = heads \cup {cur'})
<1>1. \A its, to : Emit(its, to) => routine' = "loop" /\ heads' = heads \cup {cur'}
  BY DEF Emit
<1>2. \A loop, n : Enter(loop, n) => heads' = heads
  BY DEF Enter
<1>3. \A to, n, its : GoOn(to, n, its) => heads' = heads
  BY DEF GoOn
<1>4. CASE LexIdentifier \/ LexDoubledUnderscore \/ LexFloat \/ LexInteger \/ LexLineComment
  BY <1>1, <1>4 DEF LexIdentifier, LexDoubledUnderscore, LexFloat, LexInteger,
     LexLineComment
<1>5. CASE CutOff \/ CloseQuote \/ EscapeCutOff \/ EndBlockComment \/ LexSymbol
  BY <1>1, <1>5 DEF CutOff, CloseQuote, EscapeCutOff, EndBlockComment, LexSymbol
<1>6. CASE LexQuote \/ EnterBlockComment
  BY <1>2, <1>6 DEF LexQuote, EnterBlockComment
<1>7. CASE PlainChar \/ UnicodeEscape \/ SimpleEscape
  BY <1>3, <1>7 DEF PlainChar, UnicodeEscape, SimpleEscape
<1>8. CASE BlockComment
  BY <1>8 DEF BlockComment
<1> QED
  BY <1>4, <1>5, <1>6, <1>7, <1>8 DEF Lexes

LEMMA HereIsPlace == Inv /\ routine \in Lexing => Here \in Place
BY DEF Inv, Window, Here, Place

\* A course of the call so far: its marks are in order, each follows from the one
\* before, every place where the loop began a round has one, and the last is here.
Traced(tr) ==
    /\ Course(Len(buffer), tr, items)
    /\ \A h \in heads : \E i \in DOMAIN tr : tr[i].at = Loop(h)
    /\ \A i \in DOMAIN tr : AtLoop(tr[i]) => tr[i].at.cur <= Front
    /\ routine \in Lexing => tr[Len(tr)].at = Here /\ tr[Len(tr)].made = Len(items)
    /\ routine \notin Lexing => \A i \in DOMAIN tr : tr[i].made < Len(items)

\* Only where no error is misplaced: its span lies across every mark.
FirstCall == whole = <<>> /\ ~InvalidSpan /\ ~Misplaced(items) => \E tr : Traced(tr)

\* The first call begins with a mark of its own.
LEMMA FirstCallInit == Init => FirstCall
<1> SUFFICES ASSUME Init PROVE \E tr : Traced(tr)
  BY DEF FirstCall
<1> DEFINE x == [at |-> Loop(0), made |-> 0]
           tr == <<x>>
<1>1. Len(buffer) \in Nat
  BY BufferAssumption DEF Init
<1>2. x \in Mark /\ x.at = Loop(0) /\ x.made = 0 /\ x.at.cur = 0
  BY DEF Mark, Place, Loop, Lexing
<1>3. Here = Loop(0) /\ Front = 0 /\ heads = {0} /\ items = <<>> /\ routine = "loop"
  BY DEF Init, Here, Loop, Front, Inside
<1>4. routine \in Lexing
  BY <1>3 DEF Lexing
<1> HIDE DEF x
<1>5. tr \in Seq(Mark) /\ tr # <<>> /\ DOMAIN tr = {1} /\ tr[1] = x /\ Len(tr) = 1
  BY <1>2
<1> HIDE DEF tr
<1>6. Course(Len(buffer), tr, items)
  BY <1>1, <1>2, <1>3, <1>5 DEF Course, Parts
<1>7. Traced(tr)
  BY <1>2, <1>3, <1>4, <1>5, <1>6 DEF Traced
<1> QED
  BY <1>7

\* Every step adds a mark.
LEMMA FirstCallLexes ==
    ASSUME Inv, WholeFirst, FirstCall, Lexes
    PROVE  FirstCall'
<1> SUFFICES ASSUME whole' = <<>>, ~Misplaced(items')
             PROVE  \E tr : Traced(tr)'
  BY DEF FirstCall, Misplaced
<1>1. /\ Inv' /\ Grown /\ ~InvalidSpan /\ ~InvalidSpan'
      /\ cur' >= cur /\ (routine = "loop" => cur' > cur)
      /\ routine \in Lexing /\ routine' \in Lexing
      /\ UNCHANGED <<buffer, first, last, whole>>
  BY LexesKeeps
<1>2. IsRound(Round(last, Here))
  BY StepIsPlain, StepIsRound
<1>3. Plain(last, Here)
  BY StepIsPlain
<1>4. PICK m : m = last
  OBVIOUS
<1>5. /\ m = Len(buffer) /\ m = Len(buffer)' /\ m \in Nat
  BY <1>1, <1>4 DEF WholeFirst, InvalidSpan, Inv, Window
<1>6. PICK p, q : p = Here /\ q = Here'
  OBVIOUS
<1>7. p \in Place /\ q \in Place
  <2>1. Here \in Place
    BY <1>1, HereIsPlace
  <2>2. cur' \in Nat /\ tokStart' \in Nat /\ depth' \in Nat /\ charCount' \in Nat
    BY <1>1 DEF Inv, Window
  <2>3. Here' \in Place
    BY <1>1, <2>2 DEF Here, Place
  <2> QED
    BY <1>6, <2>1, <2>3
<1>8. PICK s, t, its : s = items /\ t = Round(last, Here).its /\ its = items'
  OBVIOUS
<1>9. /\ s \in Seq(Item) /\ its \in Seq(Item) /\ its = s \o t
  BY <1>1, <1>2, <1>8 DEF Inv, ItemsBehind, IsRound
<1>10. /\ t \in Seq(Item) /\ Len(t) \in Nat /\ DOMAIN t = 1..Len(t)
       /\ Len(its) = Len(s) + Len(t)
       /\ \A k \in DOMAIN s : its[k] = s[k]
       /\ \A k \in DOMAIN t : its[Len(s) + k] = t[k]
  BY <1>8, <1>9, RoundListed, ListedAppended
<1>11. ~Misplaced(items)
  <2>1. DOMAIN s \subseteq DOMAIN its
    BY <1>9, <1>10
  <2>2. ~Misplaced(its)
    BY <1>8
  <2>3. ~Misplaced(s)
    BY <1>10, <2>1, <2>2 DEF Misplaced
  <2> QED
    BY <1>8, <2>3
<1>12. PICK tr : Traced(tr)
  BY <1>1, <1>11 DEF FirstCall
<1> DEFINE n == Len(tr)
           y == [at |-> q, made |-> Len(its)]
           lg == Append(tr, y)
<1>13. /\ Course(m, tr, s) /\ tr \in Seq(Mark) /\ tr # <<>> /\ n \in Nat /\ n >= 1
       /\ DOMAIN tr = 1..n /\ \A i \in 1..n : tr[i] \in Mark
       /\ tr[n].at = p /\ tr[n].made = Len(s)
       /\ \A i \in 1..n : AtLoop(tr[i]) => tr[i].at.cur <= Front
       /\ \A h \in heads : \E i \in 1..n : tr[i].at = Loop(h)
  <2>1. Course(m, tr, s)
    BY <1>5, <1>8, <1>12 DEF Traced
  <2>2. tr \in Seq(Mark) /\ tr # <<>>
    BY <2>1 DEF Course
  <2>3. n \in Nat /\ n >= 1 /\ DOMAIN tr = 1..n /\ \A i \in 1..n : tr[i] \in Mark
    BY <2>2
  <2>4. tr[n].at = p /\ tr[n].made = Len(s)
    BY <1>1, <1>6, <1>8, <1>12 DEF Traced
  <2> QED
    BY <1>12, <2>1, <2>2, <2>3, <2>4 DEF Traced
<1>14. y \in Mark /\ y.at = q /\ y.made = Len(its)
  BY <1>7, <1>9 DEF Mark
<1>15. /\ lg \in Seq(Mark) /\ DOMAIN lg = 1..(n + 1) /\ lg[n + 1] = y /\ Len(lg) = n + 1
       /\ \A i \in 1..n : lg[i] = tr[i]
  BY <1>13, <1>14
<1> HIDE DEF n, y, lg
<1>16. /\ Front \in Nat /\ Front <= Front' /\ Front' \in Nat
       /\ \A k \in DOMAIN t : Front <= t[k].span[1] /\ t[k].span[1] \in Nat
  <2>1. Front \in Nat /\ Front' \in Nat
    BY <1>1 DEF Inv, Window, Front
  <2>2. ASSUME NEW k \in DOMAIN t PROVE Front <= t[k].span[1] /\ t[k].span[1] \in Nat
    <3>1. Len(s) + k \in DOMAIN its /\ Len(s) + k > Len(s) /\ its[Len(s) + k] = t[k]
      BY <1>9, <1>10
    <3>2. Front <= its[Len(s) + k].span[1]
      BY <1>1, <1>8, <3>1 DEF Grown
    <3>3. t[k] \in Item
      BY <1>10
    <3> QED
      BY <3>1, <3>2, <3>3, SpanType
  <2> QED
    BY <1>1, <2>1, <2>2 DEF Grown
<1>17. Course(m, tr, its)
  <2>1. ASSUME NEW i \in DOMAIN tr, AtLoop(tr[i]), NEW k \in DOMAIN t
        PROVE  tr[i].at.cur <= t[k].span[1]
    <3>1. tr[i].at.cur \in Nat /\ tr[i].at.cur <= Front
      BY <1>13, <2>1, MarkType
    <3> QED
      BY <1>16, <2>1, <3>1
  <2>2. Course(m, tr, s \o t)
    BY <1>5, <1>9, <1>10, <1>13, <2>1, CourseItems
  <2> QED
    BY <1>9, <2>2
<1>18. p.cur = cur /\ p.routine = routine /\ q.cur = cur' /\ q.routine = routine'
       /\ (routine' = "loop" => q = Loop(cur'))
  BY <1>6 DEF Here, Loop
<1>19. Course(m, lg, its)
  <2>1. Follow(m, tr[n], y, its)
    BY <1>2, <1>3, <1>4, <1>6, <1>8, <1>10, <1>13, <1>14 DEF Follow, IsRound
  <2>2. Before(tr[n], y)
    <3>1. Len(s) <= Len(its)
      BY <1>9, <1>10
    <3> QED
      BY <1>1, <1>13, <1>14, <1>18, <3>1 DEF Before, AtLoop
  <2>3. y.made <= Len(its)
    BY <1>9, <1>14
  <2>4. y.at.cur <= m
    BY <1>1, <1>4, <1>14, <1>18 DEF Inv, Window
  <2>5. Parts(y, its)
    <3>1. ItemsBehind'
      BY <1>1 DEF Inv
    <3>2. \A k \in DOMAIN its : its[k].span[2] <= cur'
      BY <1>8, <3>1 DEF ItemsBehind
    <3>3. \A k \in DOMAIN its : k <= Len(its)
      BY <1>9
    <3> QED
      BY <1>14, <1>18, <3>2, <3>3 DEF Parts
  <2> QED
    BY <1>5, <1>9, <1>14, <1>17, <2>1, <2>2, <2>3, <2>4, <2>5, CourseLonger DEF lg, n
<1>20. Course(Len(buffer), lg, items)'
  <2>1. Course(m, lg, its)'
    BY <1>1, <1>19, CourseStays
  <2> QED
    BY <1>5, <1>8, <2>1
<1>21. (\A h \in heads : \E i \in DOMAIN lg : lg[i].at = Loop(h))'
  <2>1. \A h \in heads : \E i \in 1..n : lg[i].at = Loop(h)
    BY <1>13, <1>15
  <2>2. \A i \in 1..n : i \in 1..(n + 1)
    BY <1>13
  <2>3. routine' = "loop" => lg[n + 1].at = Loop(cur') /\ n + 1 \in 1..(n + 1)
    BY <1>13, <1>14, <1>15, <1>18
  <2>4. \A h \in heads' : h \in heads \/ (routine' = "loop" /\ h = cur')
    BY HeadsGrow
  <2>5. ASSUME NEW h \in heads' PROVE \E i \in DOMAIN lg : lg[i].at = Loop(h)
    BY <1>15, <2>1, <2>2, <2>3, <2>4, <2>5
  <2> QED
    BY <2>5 DEF Loop
<1>22. (\A i \in DOMAIN lg : AtLoop(lg[i]) => lg[i].at.cur <= Front)'
  <2>1. ASSUME NEW i \in DOMAIN lg, AtLoop(lg[i])
        PROVE  lg[i].at.cur <= Front'
    <3>1. CASE i = n + 1
      <4>1. routine' = "loop" /\ lg[i].at.cur = cur'
        BY <1>14, <1>15, <1>18, <2>1, <3>1 DEF AtLoop
      <4>2. Front' = cur'
        BY <4>1 DEF Front, Inside
      <4> QED
        BY <1>16, <4>1, <4>2
    <3>2. CASE i \in 1..n
      <4>1. tr[i].at.cur \in Nat /\ tr[i].at.cur <= Front /\ lg[i] = tr[i]
        BY <1>13, <1>15, <2>1, <3>2, MarkType
      <4> QED
        BY <1>16, <4>1
    <3> QED
      BY <1>13, <1>15, <2>1, <3>1, <3>2
  <2> QED
    BY <2>1 DEF AtLoop
<1>23. (routine \in Lexing => lg[Len(lg)].at = Here /\ lg[Len(lg)].made = Len(items))'
  BY <1>6, <1>8, <1>14, <1>15
<1>24. (routine \notin Lexing => \A i \in DOMAIN lg : lg[i].made < Len(items))'
  BY <1>1 DEF Lexing, Inside
<1> QED
  BY <1>20, <1>21, <1>22, <1>23, <1>24 DEF Traced

\* Nothing is lexed.
LEMMA FirstCallRests ==
    ASSUME FirstCall,
           UNCHANGED <<buffer, first, last, cur, tokStart, depth, charCount, items, heads,
                       whole>>,
           \/ routine' = routine
           \/ routine \in {"done", "building"} /\ routine' \in Streams
    PROVE  FirstCall'
<1>1. /\ InvalidSpan' <=> InvalidSpan
      /\ Misplaced(items)' <=> Misplaced(items)
  BY DEF InvalidSpan, Misplaced
<1> SUFFICES ASSUME NEW tr, Traced(tr)
             PROVE  Traced(tr)'
  BY <1>1 DEF FirstCall
<1>2. Front' = Front
  BY DEF Front, Inside, Streams
<1>3. routine' \in Lexing => routine \in Lexing /\ Here' = Here
  BY DEF Here, Lexing, Inside, Streams
<1>4. routine' \notin Lexing => routine \notin Lexing
  BY DEF Lexing, Inside
<1>5. PICK m, s : m = Len(buffer) /\ s = items
  OBVIOUS
<1>6. m = Len(buffer)' /\ s = items'
  BY <1>5
<1>7. Course(m, tr, s)
  BY <1>5 DEF Traced
<1>8. Course(m, tr, s)'
  BY <1>7, CourseStays
<1>9. Course(Len(buffer), tr, items)'
  BY <1>6, <1>8
<1>10. (\A h \in heads : \E i \in DOMAIN tr : tr[i].at = Loop(h))'
  BY DEF Traced, Loop
<1>11. (\A i \in DOMAIN tr : AtLoop(tr[i]) => tr[i].at.cur <= Front)'
  BY <1>2 DEF Traced, AtLoop
<1>12. (routine \in Lexing => tr[Len(tr)].at = Here /\ tr[Len(tr)].made = Len(items))'
  BY <1>3, <1>5, <1>6 DEF Traced
<1>13. (routine \notin Lexing => \A i \in DOMAIN tr : tr[i].made < Len(items))'
  BY <1>4, <1>5, <1>6 DEF Traced
<1> QED
  BY <1>9, <1>10, <1>11, <1>12, <1>13 DEF Traced

\* The end of the file lies behind every mark.
LEMMA FirstCallFinish ==
    ASSUME Inv, WholeFirst, FirstCall, Finish
    PROVE  FirstCall'
<1> SUFFICES ASSUME whole' = <<>>, ~Misplaced(items')
             PROVE  \E tr : Traced(tr)'
  BY DEF FirstCall, Misplaced
<1>1. /\ routine = "loop" /\ routine' = "done" /\ ~InvalidSpan
      /\ cur' = last /\ UNCHANGED <<buffer, first, last, heads, whole>>
      /\ items' = items \o IF first = 0 /\ last = Len(buffer) THEN EndOfFile ELSE <<>>
  BY DEF Finish, arguments
<1>2. /\ Len(buffer) \in Nat /\ first = 0 /\ last = Len(buffer) /\ last \in Nat
      /\ cur \in Nat /\ cur <= last /\ items \in Seq(Item)
  BY <1>1, BufferAssumption DEF WholeFirst, InvalidSpan, Inv, Window, ItemsBehind
<1>3. PICK m, s, its, it : m = last /\ s = items /\ its = items' /\ it = Token("eof", m, m)
  OBVIOUS
<1>4. it \in Item /\ it.span[1] = m
  <2>1. "eof" \in Kind
    BY DEF Kind
  <2> QED
    BY <1>2, <1>3, <2>1, Made DEF Token
<1>5. /\ its = s \o <<it>> /\ s \in Seq(Item) /\ <<it>> \in Seq(Item) /\ its \in Seq(Item)
      /\ Len(its) = Len(s) + 1 /\ Len(s) \in Nat
      /\ \A k \in DOMAIN s : its[k] = s[k] /\ k \in DOMAIN its
  BY <1>1, <1>2, <1>3, <1>4 DEF EndOfFile
<1>6. ~Misplaced(items)
  BY <1>3, <1>5 DEF Misplaced
<1>7. PICK tr : Traced(tr)
  BY <1>1, <1>6 DEF FirstCall
<1>8. Course(m, tr, s) /\ m \in Nat
  BY <1>2, <1>3, <1>7 DEF Traced
<1>9. \A i \in DOMAIN tr : /\ tr[i] \in Mark /\ tr[i].made <= Len(s)
                           /\ tr[i].made \in Nat /\ tr[i].at.cur \in Nat
                           /\ tr[i].at.cur <= m
  <2>1. \A i \in DOMAIN tr : tr[i] \in Mark
    BY <1>8 DEF Course
  <2> QED
    BY <1>8, <2>1, MarkType DEF Course
<1>10. Course(m, tr, its)
  <2>1. \A k \in DOMAIN <<it>> : <<it>>[k].span[1] = m
    BY <1>4
  <2>2. \A i \in DOMAIN tr : AtLoop(tr[i]) =>
            \A k \in DOMAIN <<it>> : tr[i].at.cur <= <<it>>[k].span[1]
    BY <1>9, <2>1
  <2> QED
    BY <1>5, <1>8, <2>2, CourseItems
<1>11. Course(Len(buffer), tr, items)'
  <2>1. Course(m, tr, its)'
    BY <1>1, <1>10, CourseStays
  <2> QED
    BY <1>1, <1>2, <1>3, <2>1
<1>12. (\A h \in heads : \E i \in DOMAIN tr : tr[i].at = Loop(h))'
  BY <1>1, <1>7 DEF Traced, Loop
<1>13. Front' = m
  BY <1>1, <1>3 DEF Front, Inside
<1>14. (\A i \in DOMAIN tr : AtLoop(tr[i]) => tr[i].at.cur <= Front)'
  BY <1>9, <1>13 DEF AtLoop
<1>15. routine' \notin Lexing
  BY <1>1 DEF Lexing, Inside
<1>16. \A i \in DOMAIN tr : tr[i].made < Len(items')
  <2>1. \A i \in DOMAIN tr : tr[i].made < Len(s) + 1
    BY <1>5, <1>9
  <2> QED
    BY <1>3, <1>5, <2>1
<1> QED
  BY <1>11, <1>12, <1>14, <1>15, <1>16 DEF Traced

\* The first call leaves its course.
LEMMA FirstCallNext ==
    ASSUME Inv, WholeFirst, FirstCall, [Next]_vars
    PROVE  FirstCall'
<1>1. CASE Lexes
  BY <1>1, FirstCallLexes
<1>2. CASE Finish
  BY <1>2, FirstCallFinish
<1>3. CASE RejectSpan
  <2>1. InvalidSpan'
    BY <1>3 DEF RejectSpan, InvalidSpan, arguments
  <2> QED
    BY <2>1 DEF FirstCall
<1>4. CASE BuildStream \/ TakeItem \/ EndStream \/ UNCHANGED vars
  <2>1. /\ UNCHANGED <<buffer, first, last, cur, tokStart, depth, charCount, items, heads,
                       whole>>
        /\ \/ routine' = routine
           \/ routine \in {"done", "building"} /\ routine' \in Streams
    BY <1>4 DEF BuildStream, TakeItem, EndStream, vars, arguments, scan, Streams
  <2> QED
    BY <2>1, FirstCallRests
<1>5. CASE Relex
  <2>1. whole' # <<>>
    BY <1>5 DEF Relex, WholeFirst, Ended
  <2> QED
    BY <2>1 DEF FirstCall
<1> QED
  BY <1>1, <1>2, <1>3, <1>4, <1>5 DEF Next, Lexes

-----------------------------------------------------------------------------
(* The second call follows the course of the first.                        *)

\* What the first call left.
WholeMade ==
    whole # <<>> =>
        /\ whole \in Seq(Item) /\ \A k \in DOMAIN whole : Sized(whole[k])
        /\ whole[Len(whole)].kind = "eof"
        /\ \A k \in 1..(Len(whole) - 1) : whole[k].kind # "eof"
        /\ <<first, last>> # <<0, Len(buffer)>>

\* The items are those the first call made between two marks.
Copied(x, y, its, w) ==
    /\ Len(its) = y.made - x.made
    /\ \A k \in DOMAIN its : its[k] = w[x.made + k]

\* The window of the second call lies between two marks of the first, and the
\* second call is at one of the marks between these.
Between(tr, a, b) ==
    /\ tr[a].at = Loop(first) /\ tr[b].at = Loop(last)
    /\ Course(Len(buffer), tr, whole)
    /\ \A i \in DOMAIN tr : tr[i].made < Len(whole)
    /\ InvalidSpan => items = <<>> /\ routine \notin Inside
    /\ ~InvalidSpan =>
           \E i \in a..b : /\ Copied(tr[a], tr[i], items, whole)
                           /\ IF routine \in Lexing THEN tr[i].at = Here ELSE i = b

SecondCall ==
    whole # <<>> /\ ~Misplaced(whole) =>
        \E tr : \E a, b \in DOMAIN tr : Between(tr, a, b)

\* The types of a course.
LEMMA CourseFacts ==
    ASSUME NEW m, NEW tr, NEW s, Course(m, tr, s)
    PROVE  /\ Len(tr) \in Nat /\ DOMAIN tr = 1..Len(tr)
           /\ \A i \in DOMAIN tr : /\ tr[i] \in Mark /\ tr[i].made \in Nat
                                   /\ tr[i].at \in Place /\ tr[i].at.cur \in Nat
                                   /\ tr[i].made <= Len(s) /\ tr[i].at.cur <= m
<1>1. tr \in Seq(Mark)
  BY DEF Course
<1>2. \A i \in DOMAIN tr : tr[i] \in Mark
  BY <1>1
<1> QED
  BY <1>1, <1>2, MarkType DEF Course

\* A mark of the loop.
LEMMA LoopFacts ==
    ASSUME NEW x, NEW to, x.at = Loop(to)
    PROVE  AtLoop(x) /\ x.at.cur = to
BY DEF AtLoop, Loop

\* Marks are in the order of their places.
LEMMA CourseOrder ==
    ASSUME NEW m, NEW tr, NEW s, Course(m, tr, s),
           NEW i \in DOMAIN tr, NEW j \in DOMAIN tr
    PROVE  /\ i <= j => tr[i].at.cur <= tr[j].at.cur /\ tr[i].made <= tr[j].made
           /\ AtLoop(tr[j]) /\ tr[i].at.cur <= tr[j].at.cur => i <= j
<1>1. /\ i \in Nat /\ j \in Nat
      /\ tr[i].at.cur \in Nat /\ tr[j].at.cur \in Nat /\ tr[i].made \in Nat
      /\ tr[j].made \in Nat
  BY CourseFacts
<1>2. /\ i < j => Before(tr[i], tr[j])
      /\ j < i => Before(tr[j], tr[i])
  BY DEF Course
<1>3. CASE i < j
  BY <1>1, <1>2, <1>3 DEF Before
<1>4. CASE i = j
  BY <1>1, <1>4
<1>5. CASE j < i
  BY <1>1, <1>2, <1>5 DEF Before
<1> QED
  BY <1>1, <1>3, <1>4, <1>5

\* The second call begins at a mark and is to end at one.
LEMMA SecondCallBegins ==
    ASSUME Inv, WholeFirst, FirstCall, Relex
    PROVE  WholeMade' /\ SecondCall'
<1>1. /\ routine = "done" /\ whole = <<>> /\ ~InvalidSpan /\ whole' = items
      /\ items' = <<>> /\ routine' = "loop" /\ UNCHANGED <<buffer, heads>>
      /\ tokStart' = 0 /\ depth' = 0 /\ charCount' = 0
  BY DEF Relex
<1>2. PICK from, to \in heads : /\ <<from, to>> # <<0, Len(buffer)>>
                                /\ first' = from /\ last' = to /\ cur' = from
  BY DEF Relex
<1>3. Ended
  BY <1>1 DEF WholeFirst
<1>4. WholeMade'
  <2>1. items \in Seq(Item) /\ \A k \in DOMAIN items : Sized(items[k])
    BY DEF Inv, ItemsBehind, InOrder
  <2>2. items[Len(items)].kind = "eof"
    BY <1>3 DEF Ended, Token
  <2>3. \A k \in 1..(Len(items) - 1) : items[k].kind # "eof"
    BY <1>3 DEF Ended
  <2>4. (\A k \in DOMAIN whole : Sized(whole[k]))'
    BY <1>1, <2>1 DEF Sized, Error
  <2> QED
    BY <1>1, <1>2, <2>1, <2>2, <2>3, <2>4 DEF WholeMade
<1>5. ASSUME ~Misplaced(items)
      PROVE  \E tr : \E a, b \in DOMAIN tr : Between(tr, a, b)'
  <2>1. PICK tr : Traced(tr)
    BY <1>1, <1>5 DEF FirstCall
  <2>2. PICK m, w : m = Len(buffer) /\ w = items
    OBVIOUS
  <2>3. Course(m, tr, w) /\ Course(m, tr, w)'
    BY <1>1, <2>1, <2>2, CourseStays DEF Traced
  <2>4. PICK a \in DOMAIN tr : tr[a].at = Loop(from)
    BY <2>1 DEF Traced
  <2>5. PICK b \in DOMAIN tr : tr[b].at = Loop(to)
    BY <2>1 DEF Traced
  <2>6. (tr[a].at = Loop(first) /\ tr[b].at = Loop(last))'
    BY <1>2, <2>4, <2>5 DEF Loop
  <2>7. Course(Len(buffer), tr, whole)'
    BY <1>1, <2>2, <2>3
  <2>8. (\A i \in DOMAIN tr : tr[i].made < Len(whole))'
    <3>1. routine \notin Lexing
      BY <1>1 DEF Lexing, Inside
    <3> QED
      BY <1>1, <2>1, <3>1 DEF Traced
  <2>9. (InvalidSpan => items = <<>> /\ routine \notin Inside)'
    BY <1>1 DEF Inside
  <2>10. ASSUME ~InvalidSpan'
         PROVE  (\E i \in a..b : /\ Copied(tr[a], tr[i], items, whole)
                                 /\ IF routine \in Lexing THEN tr[i].at = Here ELSE i = b)'
    <3>1. a <= b
      <4>1. from <= to
        <5>1. heads \subseteq 0..Len(buffer) /\ Len(buffer) \in Nat
          BY BufferAssumption DEF Inv, Window
        <5>2. from \in Nat /\ to \in Nat
          BY <5>1
        <5> QED
          BY <1>1, <1>2, <2>10, <5>2 DEF InvalidSpan
      <4>2. AtLoop(tr[b]) /\ tr[a].at.cur <= tr[b].at.cur
        BY <2>4, <2>5, <4>1, LoopFacts
      <4> QED
        BY <2>3, <4>2, CourseOrder
    <3>2. a \in Nat /\ b \in Nat /\ tr[a].made \in Nat
      BY <2>3, CourseFacts
    <3>3. Copied(tr[a], tr[a], <<>>, w)
      BY <3>2 DEF Copied
    <3>4. Here' = tr[a].at /\ routine' \in Lexing
      BY <1>1, <1>2, <2>4 DEF Here, Loop, Lexing
    <3>5. (Copied(tr[a], tr[a], items, whole))'
      BY <1>1, <2>2, <3>3 DEF Copied
    <3>6. a \in a..b
      BY <3>1, <3>2
    <3> QED
      BY <3>4, <3>5, <3>6
  <2> QED
    BY <2>6, <2>7, <2>8, <2>9, <2>10 DEF Between
<1>6. Misplaced(whole)' <=> Misplaced(items)
  BY <1>1 DEF Misplaced, Error
<1> QED
  BY <1>4, <1>5, <1>6 DEF SecondCall

\* Before the end of its window the second call does what the first did.
LEMMA OnCourse ==
    ASSUME Inv, ~InvalidSpan, NEW tr, NEW a \in DOMAIN tr, NEW b \in DOMAIN tr,
           Between(tr, a, b), NEW i \in a..b, i # b, tr[i].at = Here
    PROVE  /\ i \in DOMAIN tr /\ i + 1 \in DOMAIN tr /\ i + 1 \in a..b
           /\ Follow(Len(buffer), tr[i], tr[i + 1], whole)
           /\ Plain(last, Here) /\ Round(last, Here) = Round(Len(buffer), Here)
<1> DEFINE m == Len(buffer)
<1>1. Course(m, tr, whole) /\ tr[b].at = Loop(last)
  BY DEF Between
<1>2. m \in Nat /\ last \in 0..m
  BY BufferAssumption DEF Inv, Window, InvalidSpan
<1> HIDE DEF m
<1>3. Len(tr) \in Nat /\ DOMAIN tr = 1..Len(tr)
  BY <1>1, CourseFacts
<1>4. i \in DOMAIN tr /\ i + 1 \in DOMAIN tr /\ i + 1 \in a..b /\ i + 1 <= b
  BY <1>3
<1>5. Follow(m, tr[i], tr[i + 1], whole)
  BY <1>1, <1>4 DEF Course
<1>6. tr[i].at.cur <= last /\ tr[i + 1].at.cur <= last
  <2>1. tr[b].at.cur = last
    BY <1>1, LoopFacts
  <2>2. tr[i + 1].at.cur <= tr[b].at.cur
    BY <1>1, <1>4, CourseOrder
  <2>3. i <= b
    BY <1>3
  <2>4. tr[i].at.cur <= tr[b].at.cur
    BY <1>1, <1>4, <2>3, CourseOrder
  <2> QED
    BY <2>1, <2>2, <2>4
<1>7. Here \in Place
  BY <1>1, <1>4, CourseFacts
<1>8. Plain(m, Here) /\ Round(m, Here).at.cur <= last /\ Here.cur <= last
  BY <1>5, <1>6 DEF Follow
<1>9. Plain(last, Here) /\ Round(last, Here) = Round(m, Here)
  BY <1>2, <1>7, <1>8, SameRound
<1> QED
  BY <1>4, <1>5, <1>9 DEF m

\* It goes from a mark to the next.
LEMMA SecondCallLexes ==
    ASSUME Inv, SecondCall, Lexes
    PROVE  SecondCall'
<1>1. /\ Inv' /\ ~InvalidSpan /\ ~InvalidSpan'
      /\ (routine = "loop" => cur' > cur)
      /\ routine \in Lexing /\ routine' \in Lexing
      /\ UNCHANGED <<buffer, first, last, whole>>
  BY LexesKeeps
<1> SUFFICES ASSUME NEW tr, NEW a \in DOMAIN tr, NEW b \in DOMAIN tr, Between(tr, a, b)
             PROVE  Between(tr, a, b)'
  <2>1. Misplaced(whole)' <=> Misplaced(whole)
    BY <1>1 DEF Misplaced, Error
  <2> QED
    BY <1>1, <2>1 DEF SecondCall
<1>2. PICK i \in a..b : Copied(tr[a], tr[i], items, whole) /\ tr[i].at = Here
  BY <1>1 DEF Between
<1>3. i # b
  <2> SUFFICES ASSUME i = b PROVE FALSE
    OBVIOUS
  <2>1. Here = Loop(last)
    BY <1>2 DEF Between
  <2>2. routine = "loop" /\ cur = last
    BY <2>1 DEF Here, Loop
  <2>3. cur' > last /\ cur' <= last /\ cur' \in Nat /\ last \in Nat
    BY <1>1, <2>2 DEF Inv, Window
  <2> DEFINE c == cur'
  <2>4. c > last /\ c <= last /\ c \in Nat /\ last \in Nat
    BY <2>3
  <2> HIDE DEF c
  <2> QED
    BY <2>4
<1>4. PICK m, w, s, its, t, y : /\ m = Len(buffer) /\ w = whole /\ s = items /\ its = items'
                                /\ t = Round(last, Here).its /\ y = tr[i + 1]
  OBVIOUS
<1>5. /\ i \in DOMAIN tr /\ i + 1 \in DOMAIN tr /\ i + 1 \in a..b
      /\ Follow(m, tr[i], y, w)
      /\ Plain(last, Here) /\ Round(last, Here) = Round(m, Here)
  BY <1>1, <1>2, <1>3, <1>4, OnCourse
<1>6. Here' = y.at /\ its = s \o t /\ y.made = tr[i].made + Len(t)
      /\ \A k \in DOMAIN t : w[tr[i].made + k] = t[k]
  <2>1. IsRound(Round(last, Here))
    BY <1>5, StepIsRound
  <2> QED
    BY <1>2, <1>4, <1>5, <2>1 DEF IsRound, Follow
<1>7. s \in Seq(Item) /\ Listed(t)
  BY <1>4, RoundListed DEF Inv, ItemsBehind
<1>8. /\ Len(t) \in Nat /\ DOMAIN t = 1..Len(t) /\ Len(s) \in Nat /\ DOMAIN s = 1..Len(s)
      /\ Len(s \o t) = Len(s) + Len(t)
      /\ \A k \in DOMAIN s : (s \o t)[k] = s[k]
      /\ \A k \in DOMAIN t : (s \o t)[Len(s) + k] = t[k]
  BY <1>7, ListedAppended
<1>9. DOMAIN its = 1..Len(its)
  <2>1. items' \in Seq(Item)
    BY <1>1 DEF Inv, ItemsBehind
  <2> QED
    BY <1>4, <2>1
<1>10. tr[a].made \in Nat /\ tr[i].made \in Nat
  <2>1. Course(m, tr, w)
    BY <1>4 DEF Between
  <2> QED
    BY <1>5, <2>1, CourseFacts
<1>11. Copied(tr[a], y, its, w)
  <2>1. Len(s) = tr[i].made - tr[a].made /\ \A k \in DOMAIN s : s[k] = w[tr[a].made + k]
    BY <1>2, <1>4 DEF Copied
  <2>2. Len(its) = Len(s) + Len(t)
    BY <1>6, <1>8
  <2>3. Len(its) = y.made - tr[a].made
    BY <1>6, <1>8, <1>10, <2>1, <2>2
  <2>4. ASSUME NEW k \in DOMAIN its PROVE its[k] = w[tr[a].made + k]
    <3>1. k \in 1..(Len(s) + Len(t))
      BY <1>9, <2>2
    <3>2. CASE k <= Len(s)
      <4>1. k \in DOMAIN s
        BY <1>8, <3>1, <3>2
      <4> QED
        BY <1>6, <1>8, <2>1, <4>1
    <3>3. CASE ~(k <= Len(s))
      <4>1. PICK j : j = k - Len(s)
        OBVIOUS
      <4>2. j \in DOMAIN t /\ Len(s) + j = k /\ tr[i].made + j = tr[a].made + k
        <5>1. PICK n, l : n = Len(s) /\ l = Len(t)
          OBVIOUS
        <5>2. n \in Nat /\ l \in Nat /\ k \in 1..(n + l) /\ ~(k <= n) /\ j = k - n
          BY <1>8, <3>1, <3>3, <4>1, <5>1
        <5>3. j \in 1..l /\ n + j = k
          BY <5>2
        <5>4. tr[i].made + j = tr[a].made + k
          <6>1. n = tr[i].made - tr[a].made
            BY <2>1, <5>1
          <6> QED
            BY <1>10, <5>2, <6>1
        <5> QED
          BY <1>8, <5>1, <5>3, <5>4
      <4>3. its[Len(s) + j] = t[j] /\ w[tr[i].made + j] = t[j]
        BY <1>6, <1>8, <4>2
      <4> QED
        BY <4>2, <4>3
    <3> QED
      BY <3>2, <3>3
  <2> QED
    BY <2>3, <2>4 DEF Copied
<1>12. Course(Len(buffer), tr, whole)'
  <2>1. Course(m, tr, w)
    BY <1>4 DEF Between
  <2>2. Course(m, tr, w)'
    BY <1>1, <2>1, CourseStays
  <2> QED
    BY <1>1, <1>4, <2>2
<1>13. (tr[a].at = Loop(first) /\ tr[b].at = Loop(last))'
  BY <1>1 DEF Between, Loop
<1>14. (\A j \in DOMAIN tr : tr[j].made < Len(whole))'
  BY <1>1 DEF Between
<1>15. (\E j \in a..b : /\ Copied(tr[a], tr[j], items, whole)
                        /\ IF routine \in Lexing THEN tr[j].at = Here ELSE j = b)'
  <2>1. (Copied(tr[a], tr[i + 1], items, whole))'
    BY <1>1, <1>4, <1>11 DEF Copied
  <2>2. tr[i + 1].at = Here'
    BY <1>4, <1>6
  <2> QED
    BY <1>1, <1>5, <2>1, <2>2
<1> QED
  BY <1>1, <1>12, <1>13, <1>14, <1>15 DEF Between

\* Nothing is lexed.
LEMMA SecondCallStays ==
    ASSUME SecondCall, UNCHANGED <<buffer, first, last, whole, items>>,
           \/ routine' \notin Inside /\ InvalidSpan
           \/ Here' = Here /\ routine' = routine
    PROVE  SecondCall'
<1>1. /\ InvalidSpan' <=> InvalidSpan
      /\ Misplaced(whole)' <=> Misplaced(whole)
  BY DEF InvalidSpan, Misplaced, Error
<1> SUFFICES ASSUME NEW tr, NEW a \in DOMAIN tr, NEW b \in DOMAIN tr, Between(tr, a, b)
             PROVE  Between(tr, a, b)'
  BY <1>1 DEF SecondCall
<1>2. Course(Len(buffer), tr, whole)'
  <2>1. PICK m, w : m = Len(buffer) /\ w = whole
    OBVIOUS
  <2>2. Course(m, tr, w)
    BY <2>1 DEF Between
  <2>3. Course(m, tr, w)'
    BY <2>2, CourseStays
  <2> QED
    BY <2>1, <2>3
<1>3. (tr[a].at = Loop(first) /\ tr[b].at = Loop(last))'
  BY DEF Between, Loop
<1>4. (\A j \in DOMAIN tr : tr[j].made < Len(whole))'
  BY DEF Between
<1>5. (InvalidSpan => items = <<>> /\ routine \notin Inside)'
  BY <1>1 DEF Between
<1>6. (~InvalidSpan =>
           \E j \in a..b : /\ Copied(tr[a], tr[j], items, whole)
                           /\ IF routine \in Lexing THEN tr[j].at = Here ELSE j = b)'
  <2> SUFFICES ASSUME ~InvalidSpan
               PROVE  (\E j \in a..b : /\ Copied(tr[a], tr[j], items, whole)
                                       /\ IF routine \in Lexing THEN tr[j].at = Here
                                          ELSE j = b)'
    BY <1>1
  <2>1. Here' = Here /\ routine' = routine
    OBVIOUS
  <2>2. PICK j \in a..b : /\ Copied(tr[a], tr[j], items, whole)
                          /\ IF routine \in Lexing THEN tr[j].at = Here ELSE j = b
    BY DEF Between
  <2>3. (Copied(tr[a], tr[j], items, whole))'
    BY <2>2 DEF Copied
  <2> QED
    BY <2>1, <2>2, <2>3
<1> QED
  BY <1>2, <1>3, <1>4, <1>5, <1>6 DEF Between

\* It ends at the mark where it was to end.
LEMMA SecondCallEnds ==
    ASSUME Inv, WholeMade, SecondCall, Finish
    PROVE  SecondCall'
<1>1. /\ routine = "loop" /\ ~InvalidSpan /\ TokStart = last /\ routine' = "done"
      /\ items' = items \o IF first = 0 /\ last = Len(buffer) THEN EndOfFile ELSE <<>>
      /\ UNCHANGED <<buffer, first, last, whole>>
  BY DEF Finish, arguments
<1>2. /\ ~InvalidSpan' /\ (Misplaced(whole)' <=> Misplaced(whole))
  BY <1>1 DEF InvalidSpan, Misplaced, Error
<1> SUFFICES ASSUME NEW tr, NEW a \in DOMAIN tr, NEW b \in DOMAIN tr, Between(tr, a, b),
                    whole # <<>>
             PROVE  Between(tr, a, b)'
  BY <1>1, <1>2 DEF SecondCall
<1>3. routine \in Lexing /\ routine' \notin Lexing
  BY <1>1 DEF Lexing, Inside
<1>4. PICK i \in a..b : Copied(tr[a], tr[i], items, whole) /\ tr[i].at = Here
  BY <1>1, <1>3 DEF Between
<1>5. i = b
  <2> SUFFICES ASSUME i # b PROVE FALSE
    OBVIOUS
  <2>1. Plain(last, Here)
    BY <1>1, <1>4, OnCourse
  <2>2. TokStart < last
    BY <1>1, <2>1, SameStart, HereFacts DEF Plain
  <2> QED
    BY <1>1, <2>2 DEF Inv, Window
<1>6. items' = items
  <2>1. ~(first = 0 /\ last = Len(buffer)) /\ items \in Seq(Item)
    BY DEF WholeMade, Inv, ItemsBehind
  <2> QED
    BY <1>1, <2>1
<1>7. Course(Len(buffer), tr, whole)'
  <2>1. PICK m, w : m = Len(buffer) /\ w = whole
    OBVIOUS
  <2>2. Course(m, tr, w)
    BY <2>1 DEF Between
  <2>3. Course(m, tr, w)'
    BY <1>1, <2>2, CourseStays
  <2> QED
    BY <1>1, <2>1, <2>3
<1>8. (tr[a].at = Loop(first) /\ tr[b].at = Loop(last))'
  BY <1>1 DEF Between, Loop
<1>9. (\A j \in DOMAIN tr : tr[j].made < Len(whole))'
  BY <1>1 DEF Between
<1>10. (Copied(tr[a], tr[i], items, whole))'
  BY <1>1, <1>4, <1>6 DEF Copied
<1> QED
  BY <1>2, <1>3, <1>5, <1>7, <1>8, <1>9, <1>10 DEF Between

\* The second call stays on the course.
LEMMA SecondCallNext ==
    ASSUME Inv, WholeFirst, FirstCall, WholeMade, SecondCall, [Next]_vars
    PROVE  WholeMade' /\ SecondCall'
<1>0. ASSUME UNCHANGED <<buffer, first, last, whole>>
      PROVE  WholeMade'
  <2>1. (\A k \in DOMAIN whole : Sized(whole[k])) => (\A k \in DOMAIN whole : Sized(whole[k]))'
    BY <1>0 DEF Sized, Error
  <2> QED
    BY <1>0, <2>1 DEF WholeMade
<1>1. CASE Lexes
  <2>1. UNCHANGED <<buffer, first, last, whole>>
    BY <1>1, LexesKeeps
  <2> QED
    BY <1>0, <1>1, <2>1, SecondCallLexes
<1>2. CASE Finish
  <2>1. UNCHANGED <<buffer, first, last, whole>>
    BY <1>2 DEF Finish, arguments
  <2> QED
    BY <1>0, <1>2, <2>1, SecondCallEnds
<1>3. CASE RejectSpan
  <2>1. /\ UNCHANGED <<buffer, first, last, whole, items>>
        /\ routine' \notin Inside /\ InvalidSpan
    BY <1>3 DEF RejectSpan, arguments, Inside
  <2> QED
    BY <1>0, <2>1, SecondCallStays
<1>4. CASE BuildStream \/ TakeItem \/ EndStream
  <2>1. whole = <<>> /\ whole' = <<>>
    BY <1>4 DEF BuildStream, TakeItem, EndStream, WholeFirst, Streams
  <2> QED
    BY <2>1 DEF WholeMade, SecondCall
<1>5. CASE UNCHANGED vars
  <2>1. /\ UNCHANGED <<buffer, first, last, whole, items>>
        /\ Here' = Here /\ routine' = routine
    BY <1>5 DEF vars, arguments, scan, Here
  <2> QED
    BY <1>0, <2>1, SecondCallStays
<1>6. CASE Relex
  BY <1>6, SecondCallBegins
<1> QED
  BY <1>1, <1>2, <1>3, <1>4, <1>5, <1>6 DEF Next, Lexes

\* The inductive invariant of both calls.
RelexInv == Inv /\ WholeFirst /\ FirstCall /\ WholeMade /\ SecondCall

LEMMA RelexInvInit == Init => RelexInv
<1> SUFFICES ASSUME Init PROVE RelexInv
  OBVIOUS
<1>1. Inv /\ FirstCall
  BY InvInit, FirstCallInit
<1>2. WholeFirst
  BY StreamInvInit DEF StreamInv
<1>3. whole = <<>>
  BY DEF Init
<1> QED
  BY <1>1, <1>2, <1>3 DEF RelexInv, WholeMade, SecondCall

LEMMA RelexInvNext == RelexInv /\ [Next]_vars => RelexInv'
<1> SUFFICES ASSUME RelexInv, [Next]_vars PROVE RelexInv'
  OBVIOUS
<1>1. Inv /\ WholeFirst /\ FirstCall /\ WholeMade /\ SecondCall
  BY DEF RelexInv
<1> QED
  BY <1>1, InvNext, WholeFirstNext, FirstCallNext, SecondCallNext DEF RelexInv

\* Between two places where the loop has been lie the items made between them.
LEMMA RelexInvFacts == RelexInv => RelexAgrees
<1> SUFFICES ASSUME RelexInv, routine = "done", whole # <<>>, ~Misplaced(whole)
             PROVE  \E n \in 0..(Len(whole) - Len(items)) :
                        /\ \A k \in DOMAIN items : items[k] = whole[n + k]
                        /\ \A k \in DOMAIN whole :
                               k \in (n + 1)..(n + Len(items)) <=>
                                   /\ first <= whole[k].span[1] /\ whole[k].span[2] <= last
                                   /\ whole[k].kind # "eof"
  BY DEF RelexAgrees
<1>1. PICK tr : \E a, b \in DOMAIN tr : Between(tr, a, b)
  BY DEF RelexInv, SecondCall
<1>2. PICK a \in DOMAIN tr, b \in DOMAIN tr : Between(tr, a, b)
  BY <1>1
<1>3. Course(Len(buffer), tr, whole) /\ tr[a].at = Loop(first) /\ tr[b].at = Loop(last)
  BY <1>2 DEF Between
<1>4. PICK e, n, n2 : e = Len(whole) /\ n = tr[a].made /\ n2 = tr[b].made
  OBVIOUS
<1>5. /\ whole \in Seq(Item) /\ e \in Nat /\ DOMAIN whole = 1..e
      /\ \A k \in DOMAIN whole : k # e => whole[k].kind # "eof"
      /\ whole[e].kind = "eof"
      /\ \A k \in DOMAIN whole : Sized(whole[k])
  BY <1>4 DEF RelexInv, WholeMade
<1>6. first \in Nat /\ last \in Nat /\ first <= Len(buffer) /\ last <= Len(buffer)
  <2>1. tr[a].at.cur = first /\ tr[b].at.cur = last
    BY <1>3, LoopFacts
  <2> QED
    BY <1>3, <2>1, CourseFacts
<1>7. ASSUME NEW k \in DOMAIN whole
      PROVE  /\ k \in Nat
             /\ whole[k].span[1] \in Nat /\ whole[k].span[2] \in Nat
             /\ whole[k].kind # "eof" => whole[k].span[1] < whole[k].span[2]
  <2>1. whole[k] \in Item /\ Sized(whole[k])
    BY <1>5
  <2>2. whole[k] # Error("InvalidNumericLiteral", 0, 0)
    BY DEF Misplaced
  <2> QED
    BY <1>5, <2>1, <2>2, SpanType DEF Sized
<1>8. CASE InvalidSpan
  <2>1. items = <<>>
    BY <1>2, <1>8 DEF Between
  <2>2. last < first
    BY <1>6, <1>8 DEF InvalidSpan
  <2>3. \A k \in DOMAIN whole : ~(/\ first <= whole[k].span[1] /\ whole[k].span[2] <= last
                                  /\ whole[k].kind # "eof")
    BY <1>6, <1>7, <2>2
  <2>4. Len(items) = 0 /\ DOMAIN items = {} /\ 0 \in 0..(Len(whole) - Len(items))
    BY <1>4, <1>5, <2>1
  <2>5. \A k : k \notin (0 + 1)..(0 + Len(items))
    BY <2>4
  <2> QED
    BY <2>3, <2>4, <2>5
<1>9. CASE ~InvalidSpan
  <2>1. Copied(tr[a], tr[b], items, whole)
    <3>1. routine \notin Lexing
      BY DEF Lexing, Inside
    <3> QED
      BY <1>2, <1>9, <3>1 DEF Between
  <2>2. /\ n \in Nat /\ n2 \in Nat /\ n2 < e /\ n < e
    BY <1>2, <1>3, <1>4, CourseFacts DEF Between
  <2>3. Len(items) = n2 - n /\ \A k \in DOMAIN items : items[k] = whole[n + k]
    BY <1>4, <2>1 DEF Copied
  <2>4. n + Len(items) = n2
    BY <2>2, <2>3
  <2>5. n \in 0..(Len(whole) - Len(items))
    BY <1>4, <1>5, <2>2, <2>3
  <2>6. ASSUME NEW k \in DOMAIN whole
        PROVE  /\ IF k <= n THEN whole[k].span[2] <= first ELSE first <= whole[k].span[1]
               /\ IF k <= n2 THEN whole[k].span[2] <= last ELSE last <= whole[k].span[1]
    <3>1. AtLoop(tr[a]) /\ tr[a].at.cur = first /\ AtLoop(tr[b]) /\ tr[b].at.cur = last
      BY <1>3, LoopFacts
    <3>2. Parts(tr[a], whole) /\ Parts(tr[b], whole)
      BY <1>3 DEF Course
    <3> QED
      BY <1>4, <3>1, <3>2 DEF Parts
  <2>7. ASSUME NEW k \in DOMAIN whole
        PROVE  k \in (n + 1)..n2 <=> /\ first <= whole[k].span[1] /\ whole[k].span[2] <= last
                                     /\ whole[k].kind # "eof"
    <3>1. k \in Nat /\ (k \in (n + 1)..n2 <=> n < k /\ k <= n2)
      BY <1>7, <2>2
    <3>2. CASE k <= n
      BY <1>6, <1>7, <2>2, <2>6, <3>1, <3>2
    <3>3. CASE n < k /\ k <= n2
      <4>1. whole[k].kind # "eof"
        BY <1>5, <2>2, <3>1, <3>3
      <4>2. ~(k <= n)
        BY <2>2, <3>1, <3>3
      <4> QED
        BY <2>6, <3>1, <3>3, <4>1, <4>2
    <3>4. CASE n2 < k
      <4>1. ~(k <= n2)
        BY <2>2, <3>1, <3>4
      <4>2. last <= whole[k].span[1]
        BY <2>6, <4>1
      <4>3. ~(whole[k].span[2] <= last /\ whole[k].kind # "eof")
        BY <1>6, <1>7, <4>2
      <4> QED
        BY <3>1, <4>1, <4>3
    <3> QED
      BY <2>2, <3>1, <3>2, <3>3, <3>4
  <2> QED
    BY <2>3, <2>4, <2>5, <2>7
<1> QED
  BY <1>8, <1>9

\* For every buffer and every two places where the loop has been, the text between
\* them, lexed alone, yields the items it yielded in the whole, and no others:
\* the caller may lex again only what has been modified (Lexer.h:102), unless there
\* is a number with two underscores in a row (Lexer.cpp:505).
THEOREM RelexedAlike == Spec => []RelexAgrees
BY RelexInvInit, RelexInvNext, RelexInvFacts, PTL DEF Spec
=============================================================================
