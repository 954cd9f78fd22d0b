--------------------------- MODULE FlatAst_proofs ---------------------------
(***************************************************************************)
(* Proofs about FlatAst: the files of a session use the interner and       *)
(* nothing else of it, so what is proved of StringInterner alone holds;    *)
(* and what a node was made from can be read back from the flat arrays.    *)
(***************************************************************************)
EXTENDS FlatAst, SequenceTheorems, TLAPS

NamesProofs == INSTANCE StringInterner_proofs

\* The session drives its interner by intern only (Parser.cpp:125-139): what
\* happens to the AST is a behaviour of StringInterner.
THEOREM UsesInterner == Spec => Names!Spec
<1>1. Init => Names!Init
  BY DEF Init
<1>2. [Next]_vars => [Names!Next]_(Names!siVars)
  <2> SUFFICES ASSUME [Next]_vars PROVE [Names!Next]_(Names!siVars)
    OBVIOUS
  <2>1. CASE \E s \in Str : InternName(s)
    BY <2>1 DEF InternName, Names!Next
  <2>2. ASSUME NEW f \in FileId, NEW attr, NEW kids, NEW word,
               MakeNode(f, attr, kids, word)
        PROVE  UNCHANGED Names!siVars
    BY <2>2 DEF MakeNode, Names!siVars
  <2>3. CASE \E f \in FileId, kids \in KidLists :
                \/ \E s \in Str, regime \in Regime : MakeWithRegime(f, kids, s, regime)
                \/ \E s \in Str, flags \in SUBSET Flag : MakeNamed(f, kids, s, flags)
                \/ \E op \in Op : MakeOperator(f, kids, op)
                \/ MakeBare(f, kids)
    BY <2>2, <2>3 DEF MakeWithRegime, MakeNamed, MakeOperator, MakeBare
  <2>4. CASE UNCHANGED vars
    BY <2>4 DEF vars, Names!siVars
  <2> QED
    BY <2>1, <2>3, <2>4 DEF Next
<1> QED
  BY <1>1, <1>2, PTL DEF Spec, Names!Spec

\* The two instances of StringInterner are one.
LEMMA SameInterner ==
    /\ Names!Init => NamesProofs!Init
    /\ [Names!Next]_(Names!siVars) => [NamesProofs!Next]_(NamesProofs!siVars)
    /\ NamesProofs!Canonical => Canonical
<1>1. Names!Init => NamesProofs!Init
  BY DEF Names!Init, NamesProofs!Init, Names!NullStr, NamesProofs!NullStr
<1>2. \A s \in Str : Names!Intern(s) => NamesProofs!Intern(s)
  BY DEF Names!Intern, Names!InternKnown, Names!InternNew,
         NamesProofs!Intern, NamesProofs!InternKnown, NamesProofs!InternNew
<1>3. [Names!Next]_(Names!siVars) => [NamesProofs!Next]_(NamesProofs!siVars)
  BY <1>2 DEF Names!Next, NamesProofs!Next, Names!siVars, NamesProofs!siVars
<1>4. NamesProofs!Canonical => Canonical
  BY DEF Canonical, Names!Canonical, Names!Size, Names!Get,
         NamesProofs!Canonical, NamesProofs!Size, NamesProofs!Get
<1> QED
  BY <1>1, <1>3, <1>4

\* StringInterner.h:23 over a whole session: ids and contents are inverse to each
\* other, whatever the files intern and make.
THEOREM SessionCanonical == Spec => []Canonical
<1>1. Names!Spec => NamesProofs!Spec
  BY SameInterner, PTL DEF Names!Spec, NamesProofs!Spec
<1>2. NamesProofs!Spec => []NamesProofs!Canonical
  BY NamesProofs!CanonicalIds, StrAssumption DEF NamesProofs!StrAssumption
<1> QED
  BY <1>1, <1>2, UsesInterner, SameInterner, PTL

\* StringInterner.h:57 over a whole session: no file changes what an id stands for.
THEOREM SessionStable == Spec => Stable
<1> DEFINE Keeps ==
      /\ \A s \in DOMAIN table : s \in DOMAIN table' /\ table'[s] = table[s]
      /\ \A i \in DOMAIN strings : i \in DOMAIN strings' /\ strings'[i] = strings[i]
<1>1. Names!Spec => NamesProofs!Spec
  BY SameInterner, PTL DEF Names!Spec, NamesProofs!Spec
<1>2. NamesProofs!Spec => NamesProofs!Stable
  BY NamesProofs!StableIds, StrAssumption DEF NamesProofs!StrAssumption
<1>3. [Keeps]_(NamesProofs!siVars) => [Keeps]_(Names!siVars)
  BY DEF Names!siVars, NamesProofs!siVars
<1>4. NamesProofs!Stable => Stable
  BY <1>3, PTL DEF Stable, Names!Stable, NamesProofs!Stable
<1> QED
  BY <1>1, <1>2, <1>4, UsesInterner, PTL

-----------------------------------------------------------------------------
(* The words of nodes.                                                     *)

\* Two numbers packed into one word can be told apart.
LEMMA Packing ==
    ASSUME NEW N \in Nat \ {0}, NEW m \in 0..(N - 1), NEW r \in 0..3
    PROVE  /\ (r * N + m) % N = m /\ (r * N + m) \div N = r
           /\ r * N + m \in 0..(4 * N - 1)
<1>1. CASE r = 0
  BY <1>1, Z3T(20)
<1>2. CASE r = 1
  BY <1>2, Z3T(20)
<1>3. CASE r = 2
  BY <1>3, Z3T(20)
<1>4. CASE r = 3
  BY <1>4, Z3T(20)
<1> QED
  BY <1>1, <1>2, <1>3, <1>4

LEMMA SmallRemainder ==
    ASSUME NEW N \in Nat \ {0}, NEW m \in 0..(N - 1)
    PROVE  m % N = m
  OBVIOUS

NamesInv == NamesProofs!Inv

LEMMA NamesFacts ==
    ASSUME NamesInv
    PROVE  /\ Names!TypeOK
           /\ \A s \in DOMAIN table : /\ s \in Str
                                      /\ table[s] \in Nat
                                      /\ Names!Get(table[s]) = s
           /\ \A s, t \in DOMAIN table : table[s] = table[t] => s = t
<1>1. Names!TypeOK
  BY DEF NamesInv, NamesProofs!Inv, NamesProofs!TypeOK, Names!TypeOK
<1>2. /\ DOMAIN table \subseteq Str /\ Len(strings) \in Nat
      /\ \A s \in DOMAIN table :
             table[s] \in 1..(Len(strings) - 1) /\ strings[table[s] + 1] = s
  BY DEF NamesInv, NamesProofs!Inv, NamesProofs!TypeOK, NamesProofs!Canonical,
         NamesProofs!Size, NamesProofs!Get
<1> QED
  BY <1>1, <1>2 DEF Names!Get

\* What the payload word of a node made from attr holds, with the ids of `tab`.
WordHolds(tab, word, attr) ==
    /\ attr.kind \in {"regime", "name"} =>
           attr.name \in DOMAIN tab /\ payloadStr(word) = tab[attr.name] % NameLimit
    /\ attr.kind \in {"op", "none"} => attr.name = EmptyStr
    /\ attr.kind = "regime" => payloadRegime(word) = attr.num
    /\ attr.kind = "op" => payloadOp(word) = attr.num
    /\ attr.kind \in {"name", "none"} => attr.num = 0

\* The steps that make nodes, with the word they store.
MakesNode(f, kids) ==
    \/ \E s \in Str, regime \in Regime : MakeWithRegime(f, kids, s, regime)
    \/ \E s \in Str, flags \in SUBSET Flag : MakeNamed(f, kids, s, flags)
    \/ \E op \in Op : MakeOperator(f, kids, op)
    \/ MakeBare(f, kids)

LEMMA WordsMade ==
    ASSUME NamesInv, NEW f \in FileId, NEW kids \in KidLists, MakesNode(f, kids)
    PROVE  \E attr \in Attr, word \in Nat :
               WordHolds(table, word, attr) /\ MakeNode(f, attr, kids, word)
<1> USE LimitAssumption
<1>1. CASE \E s \in Str, regime \in Regime : MakeWithRegime(f, kids, s, regime)
  <2>1. PICK s \in Str, regime \in Regime : MakeWithRegime(f, kids, s, regime)
    BY <1>1
  <2> DEFINE attr == Attribute("regime", s, regime, {})
             word == makePayload(table[s], regime)
  <2>2. s \in DOMAIN table /\ MakeNode(f, attr, kids, word)
    BY <2>1 DEF MakeWithRegime
  <2>3. table[s] % NameLimit \in 0..(NameLimit - 1)
    <3>1. table[s] \in Nat
      BY <2>2, NamesFacts
    <3> QED
      BY <3>1
  <2>4. ASSUME NEW id \in 0..(NameLimit - 1)
        PROVE  /\ (regime * NameLimit + id) % NameLimit = id
               /\ (regime * NameLimit + id) \div NameLimit = regime
               /\ regime * NameLimit + id \in Nat
    BY Packing DEF Regime
  <2>5. /\ word % NameLimit = table[s] % NameLimit /\ word \div NameLimit = regime
        /\ word \in Nat
    BY <2>3, <2>4 DEF makePayload
  <2> HIDE DEF word
  <2>6. attr \in Attr
    BY DEF Attr, Attribute, Regime
  <2>7. WordHolds(table, word, attr)
    BY <2>2, <2>5 DEF WordHolds, Attribute, payloadStr, payloadRegime
  <2> QED
    BY <2>2, <2>5, <2>6, <2>7
<1>2. CASE \E s \in Str, flags \in SUBSET Flag : MakeNamed(f, kids, s, flags)
  <2>1. PICK s \in Str, flags \in SUBSET Flag : MakeNamed(f, kids, s, flags)
    BY <1>2
  <2> DEFINE attr == Attribute("name", s, 0, flags)
  <2>2. s \in DOMAIN table /\ MakeNode(f, attr, kids, table[s])
    BY <2>1 DEF MakeNamed
  <2>3. table[s] \in Nat
    BY <2>2, NamesFacts
  <2>4. payloadStr(table[s]) = table[s] % NameLimit
    BY DEF payloadStr
  <2>5. attr \in Attr
    BY DEF Attr, Attribute
  <2>6. WordHolds(table, table[s], attr)
    BY <2>2, <2>4 DEF WordHolds, Attribute
  <2> QED
    BY <2>2, <2>3, <2>5, <2>6
<1>3. CASE \E op \in Op : MakeOperator(f, kids, op)
  <2>1. PICK op \in Op : MakeOperator(f, kids, op)
    BY <1>3
  <2> DEFINE attr == Attribute("op", EmptyStr, op, {})
  <2>2. MakeNode(f, attr, kids, op)
    BY <2>1 DEF MakeOperator, makeOpPayload
  <2>3. op \in 0..(CountLimit - 1) /\ op \in Nat
    BY OpAssumption
  <2>4. payloadOp(op) = op
    BY <2>3, SmallRemainder DEF payloadOp
  <2>5. attr \in Attr
    BY <2>3, StrAssumption DEF Attr, Attribute
  <2>6. WordHolds(table, op, attr)
    BY <2>4 DEF WordHolds, Attribute
  <2> QED
    BY <2>2, <2>3, <2>5, <2>6
<1>4. CASE MakeBare(f, kids)
  <2> DEFINE attr == Attribute("none", EmptyStr, 0, {})
  <2>1. MakeNode(f, attr, kids, 0)
    BY <1>4 DEF MakeBare
  <2>2. attr \in Attr
    BY StrAssumption DEF Attr, Attribute
  <2>3. WordHolds(table, 0, attr)
    BY DEF WordHolds, Attribute
  <2> QED
    BY <2>1, <2>2, <2>3
<1> QED
  BY <1>1, <1>2, <1>3, <1>4 DEF MakesNode

-----------------------------------------------------------------------------
(* Types.                                                                  *)

PoolType == [nodes : Seq(NodeRecord), children : Seq(Nat \cup {NullNode}),
             spans : Seq(Nat \X Nat)]
PoolsInv ==
    /\ pools \in [FileId -> PoolType]
    /\ made \in [FileId -> Seq([attr : Attr, kids : KidLists])]

LEMMA EmptyPoolType == EmptyPool \in PoolType
<1>1. Sentinel \in NodeRecord
  BY LimitAssumption DEF Sentinel, NodeRecord
<1>2. <<Sentinel>> \in Seq(NodeRecord) /\ <<>> \in Seq(Nat \cup {NullNode})
      /\ <<<<0, 0>>>> \in Seq(Nat \X Nat)
  BY <1>1
<1> QED
  BY <1>2 DEF EmptyPool, PoolType

\* The node that Alloc appends, and the children behind those there are.
LEMMA AllocType ==
    ASSUME NEW pool \in PoolType, NEW attr \in Attr, NEW kids \in KidLists,
           NEW word \in Nat
    PROVE  LET new == Alloc(pool, attr.kind, NoSpan, kids, word, attr.flags)
               n == Node(attr.kind, kids, Len(pool.children), word, attr.flags)
           IN  /\ new \in PoolType
               /\ n \in NodeRecord
               /\ new.nodes = Append(pool.nodes, n)
               /\ new.children = pool.children \o kids
<1> DEFINE n == Node(attr.kind, kids, Len(pool.children), word, attr.flags)
           new == Alloc(pool, attr.kind, NoSpan, kids, word, attr.flags)
<1>1. /\ pool.nodes \in Seq(NodeRecord) /\ pool.children \in Seq(Nat \cup {NullNode})
      /\ pool.spans \in Seq(Nat \X Nat) /\ kids \in Seq(Nat \cup {NullNode})
  BY KidAssumption DEF PoolType
<1>2. Len(pool.children) \in Nat /\ Len(kids) \in Nat
  BY <1>1
<1>3. Len(kids) % CountLimit \in 0..(CountLimit - 1)
  BY <1>2, LimitAssumption
<1>4. n \in NodeRecord
  BY <1>2, <1>3 DEF Node, NodeRecord, Attr
<1>5. new = [nodes |-> Append(pool.nodes, n), children |-> pool.children \o kids,
             spans |-> Append(pool.spans, NoSpan)]
  BY DEF Alloc
<1>6. /\ Append(pool.nodes, n) \in Seq(NodeRecord)
      /\ pool.children \o kids \in Seq(Nat \cup {NullNode})
      /\ Append(pool.spans, NoSpan) \in Seq(Nat \X Nat)
  BY <1>1, <1>4 DEF NoSpan
<1> HIDE DEF n, new
<1>7. new \in PoolType
  BY <1>5, <1>6 DEF PoolType
<1> QED
  BY <1>4, <1>5, <1>7 DEF n, new

LEMMA MakePools ==
    ASSUME PoolsInv, NEW f \in FileId, NEW attr \in Attr, NEW kids \in KidLists,
           NEW word \in Nat, MakeNode(f, attr, kids, word)
    PROVE  PoolsInv'
<1>1. pools[f] \in PoolType
  BY DEF PoolsInv
<1>2. /\ pools' = [pools EXCEPT ![f] = Alloc(pools[f], attr.kind, NoSpan, kids, word, attr.flags)]
      /\ made' = [made EXCEPT ![f] = Append(made[f], [attr |-> attr, kids |-> kids])]
  BY DEF MakeNode
<1>3. Alloc(pools[f], attr.kind, NoSpan, kids, word, attr.flags) \in PoolType
  BY <1>1, AllocType
<1>4. Append(made[f], [attr |-> attr, kids |-> kids]) \in Seq([attr : Attr, kids : KidLists])
  <2>1. ASSUME NEW R, NEW log \in Seq(R), NEW m \in R PROVE Append(log, m) \in Seq(R)
    OBVIOUS
  <2>2. /\ made[f] \in Seq([attr : Attr, kids : KidLists])
        /\ [attr |-> attr, kids |-> kids] \in [attr : Attr, kids : KidLists]
    BY DEF PoolsInv
  <2> QED
    BY <2>1, <2>2
<1> QED
  BY <1>2, <1>3, <1>4 DEF PoolsInv

LEMMA NamesInit ==
    ASSUME Init
    PROVE  NamesInv
<1>1. NamesProofs!Init
  BY SameInterner DEF Init
<1> QED
  BY <1>1, NamesProofs!InitInv, StrAssumption DEF NamesInv, NamesProofs!StrAssumption

\* Names that have an id keep it.
LEMMA NamesStep ==
    ASSUME NamesInv, NEW s \in Str, InternName(s)
    PROVE  /\ NamesInv'
           /\ \A t \in DOMAIN table : t \in DOMAIN table' /\ table'[t] = table[t]
           /\ pools' = pools /\ made' = made
<1>1. Names!Intern(s) /\ pools' = pools /\ made' = made
  BY DEF InternName
<1>2. NamesProofs!Intern(s)
  BY <1>1 DEF Names!Intern, Names!InternKnown, Names!InternNew,
         NamesProofs!Intern, NamesProofs!InternKnown, NamesProofs!InternNew
<1>3. NamesProofs!Inv /\ (NamesProofs!Inv)'
  BY <1>2, NamesProofs!NextInv, StrAssumption DEF NamesInv, NamesProofs!StrAssumption
<1>4. CASE NamesProofs!InternKnown(s)
  BY <1>1, <1>3, <1>4 DEF NamesProofs!InternKnown, NamesInv
<1>5. CASE NamesProofs!InternNew(s)
  <2>1. /\ s \notin DOMAIN table
        /\ table' = [t \in DOMAIN table \cup {s} |->
                         IF t = s THEN Len(strings) ELSE table[t]]
    BY <1>5 DEF NamesProofs!InternNew
  <2> QED
    BY <1>1, <1>3, <2>1 DEF NamesInv
<1> QED
  BY <1>2, <1>4, <1>5 DEF NamesProofs!Intern

TypesInv == NamesInv /\ PoolsInv

LEMMA TypesInit ==
    ASSUME Init
    PROVE  TypesInv
  BY NamesInit, EmptyPoolType DEF Init, TypesInv, PoolsInv

LEMMA TypesNext ==
    ASSUME TypesInv, [Next]_vars
    PROVE  TypesInv'
<1>1. ASSUME NEW s \in Str, InternName(s) PROVE TypesInv'
  BY <1>1, NamesStep DEF TypesInv, PoolsInv
<1>2. ASSUME NEW f \in FileId, NEW kids \in KidLists, MakesNode(f, kids) PROVE TypesInv'
  <2>1. PICK attr \in Attr, word \in Nat :
            MakeNode(f, attr, kids, word)
    BY <1>2, WordsMade DEF TypesInv
  <2>2. PoolsInv'
    BY <2>1, MakePools DEF TypesInv
  <2>3. NamesInv'
    BY <2>1 DEF MakeNode, TypesInv, NamesInv, NamesProofs!Inv, NamesProofs!TypeOK,
           NamesProofs!Canonical, NamesProofs!Size, NamesProofs!Get
  <2> QED
    BY <2>2, <2>3 DEF TypesInv
<1>3. CASE UNCHANGED vars
  BY <1>3 DEF vars, TypesInv, PoolsInv, NamesInv, NamesProofs!Inv, NamesProofs!TypeOK,
         NamesProofs!Canonical, NamesProofs!Size, NamesProofs!Get
<1> QED
  BY <1>1, <1>2, <1>3 DEF Next, MakesNode

\* The arrays of every pool hold what their element types say; a child count
\* keeps to its 16 bits (NodePool.h:57-106).
THEOREM PoolTypes == Spec => []TypeOK
<1>1. TypesInv => TypeOK
  BY NamesFacts DEF TypesInv, PoolsInv, PoolType, TypeOK
<1> QED
  BY TypesInit, TypesNext, <1>1, PTL DEF Spec

-----------------------------------------------------------------------------
(* Reading back.                                                           *)

\* A node of a pool holds what it was made from, its count as far as 16 bits go;
\* the children array has all the children.
NodeHolds(tab, pool, n, m) ==
    /\ n.kind = m.attr.kind /\ n.flags = m.attr.flags /\ WordHolds(tab, n.payload, m.attr)
    /\ n.count = Len(m.kids) % CountLimit
    /\ n.begin + Len(m.kids) <= Len(pool.children)
    /\ \A j \in 1..Len(m.kids) : pool.children[n.begin + j] = m.kids[j]

\* The lists the nodes were made with follow each other in the children array,
\* from its beginning to its end.
ListEnd(pool, log, i) ==
    IF i = 1 THEN 0 ELSE pool.nodes[i].begin + Len(log[i - 1].kids)
Tiled(pool, log) ==
    /\ \A i \in 1..Len(log) : ListEnd(pool, log, i) = pool.nodes[i + 1].begin
    /\ ListEnd(pool, log, Len(log) + 1) = Len(pool.children)

FileInv(tab, pool, log) ==
    /\ Len(pool.nodes) = Len(log) + 1
    /\ pool.nodes[1] = Sentinel
    /\ \A i \in 1..Len(log) : NodeHolds(tab, pool, pool.nodes[i + 1], log[i])
    /\ Tiled(pool, log)

Log == Seq([attr : Attr, kids : KidLists])

LEMMA FileStep ==
    ASSUME NEW pool \in PoolType, NEW log \in Log, FileInv(table, pool, log),
           NEW attr \in Attr, NEW kids \in KidLists,
           NEW word \in Nat, WordHolds(table, word, attr)
    PROVE  FileInv(table, Alloc(pool, attr.kind, NoSpan, kids, word, attr.flags),
                   Append(log, [attr |-> attr, kids |-> kids]))
<1> DEFINE new == Alloc(pool, attr.kind, NoSpan, kids, word, attr.flags)
           n == Node(attr.kind, kids, Len(pool.children), word, attr.flags)
           m == [attr |-> attr, kids |-> kids]
           K == Nat \cup {NullNode}
<1>1. /\ new \in PoolType /\ n \in NodeRecord
      /\ new.nodes = Append(pool.nodes, n) /\ new.children = pool.children \o kids
  BY AllocType
<1>2. /\ pool.nodes \in Seq(NodeRecord) /\ pool.children \in Seq(K) /\ kids \in Seq(K)
      /\ log \in Seq([attr : Attr, kids : KidLists])
      /\ m \in [attr : Attr, kids : KidLists]
  BY KidAssumption DEF PoolType, Log
<1>3. Len(pool.nodes) \in Nat /\ Len(pool.children) \in Nat /\ Len(kids) \in Nat
      /\ Len(log) \in Nat
  BY <1>2
<1>4. /\ n.kind = attr.kind /\ n.count = Len(kids) % CountLimit
      /\ n.begin = Len(pool.children) /\ n.payload = word /\ n.flags = attr.flags
  BY DEF Node
<1>5. m.attr = attr /\ m.kids = kids
  OBVIOUS
<1> HIDE DEF new, n, m, K
<1>6. /\ Len(new.nodes) = Len(pool.nodes) + 1
      /\ new.nodes[Len(pool.nodes) + 1] = n
      /\ \A i \in 1..Len(pool.nodes) : new.nodes[i] = pool.nodes[i]
  BY <1>1, <1>2
<1>7. /\ Len(Append(log, m)) = Len(log) + 1
      /\ Append(log, m)[Len(log) + 1] = m
      /\ \A i \in 1..Len(log) : Append(log, m)[i] = log[i]
  BY <1>2
<1>8. /\ Len(new.children) = Len(pool.children) + Len(kids)
      /\ \A j \in 1..Len(pool.children) : new.children[j] = pool.children[j]
      /\ \A j \in 1..Len(kids) : new.children[Len(pool.children) + j] = kids[j]
  <2>1. /\ Len(pool.children \o kids) = Len(pool.children) + Len(kids)
        /\ \A j \in 1..(Len(pool.children) + Len(kids)) :
               (pool.children \o kids)[j] =
                   IF j <= Len(pool.children) THEN pool.children[j]
                   ELSE kids[j - Len(pool.children)]
    BY <1>2, ConcatProperties
  <2> QED
    BY <1>1, <1>3, <2>1
<1>9. ASSUME NEW i \in 1..Len(log)
      PROVE  NodeHolds(table, new, new.nodes[i + 1], Append(log, m)[i])
  <2>1. new.nodes[i + 1] = pool.nodes[i + 1] /\ Append(log, m)[i] = log[i]
    BY <1>3, <1>6, <1>7 DEF FileInv
  <2>2. NodeHolds(table, pool, pool.nodes[i + 1], log[i])
    BY DEF FileInv
  <2>3. /\ pool.nodes[i + 1] \in NodeRecord /\ log[i] \in [attr : Attr, kids : KidLists]
    <3>1. i + 1 \in 1..Len(pool.nodes)
      BY <1>3 DEF FileInv
    <3> QED
      BY <1>2, <3>1, ElementOfSeq
  <2>4. pool.nodes[i + 1].begin \in Nat /\ Len(log[i].kids) \in Nat
    <3>1. log[i].kids \in Seq(Nat \cup {NullNode})
      BY <2>3, KidAssumption
    <3> QED
      BY <2>3, <3>1 DEF NodeRecord
  <2>5. NodeHolds(table, new, pool.nodes[i + 1], log[i])
    <3> DEFINE b == pool.nodes[i + 1].begin
               l == Len(log[i].kids)
    <3>1. /\ b \in Nat /\ l \in Nat /\ b + l <= Len(pool.children)
          /\ \A j \in 1..l : pool.children[b + j] = log[i].kids[j]
      BY <2>2, <2>4 DEF NodeHolds
    <3> HIDE DEF b, l
    <3>2. b + l <= Len(new.children)
      BY <1>3, <1>8, <3>1
    <3>3. \A j \in 1..l : new.children[b + j] = log[i].kids[j]
      <4>1. TAKE j \in 1..l
      <4>2. b + j \in 1..Len(pool.children)
        BY <1>3, <3>1, <4>1
      <4> QED
        BY <1>8, <3>1, <4>1, <4>2
    <3> QED
      BY <2>2, <3>2, <3>3 DEF NodeHolds, b, l
  <2> QED
    BY <2>1, <2>5
<1>10. NodeHolds(table, new, n, m)
  BY <1>3, <1>4, <1>5, <1>8 DEF NodeHolds
<1>11. Len(pool.nodes) = Len(log) + 1
  BY DEF FileInv
<1>12. \A i \in 1..Len(Append(log, m)) : NodeHolds(table, new, new.nodes[i + 1], Append(log, m)[i])
  <2>1. TAKE i \in 1..Len(Append(log, m))
  <2>2. CASE i \in 1..Len(log)
    BY <1>9, <2>2
  <2>3. CASE i = Len(log) + 1
    BY <1>3, <1>6, <1>7, <1>10, <1>11, <2>3
  <2> QED
    BY <1>3, <1>7, <2>1, <2>2, <2>3
<1>13. Tiled(new, Append(log, m))
  <2>1. ASSUME NEW i \in 1..(Len(log) + 1)
        PROVE  ListEnd(new, Append(log, m), i) = ListEnd(pool, log, i)
    <3>1. CASE i = 1
      BY <3>1 DEF ListEnd
    <3>2. CASE i # 1
      <4>1. i - 1 \in 1..Len(log) /\ i \in 1..Len(pool.nodes)
        BY <1>3, <1>11, <3>2
      <4>2. new.nodes[i] = pool.nodes[i] /\ Append(log, m)[i - 1] = log[i - 1]
        BY <1>6, <1>7, <4>1
      <4> QED
        BY <3>2, <4>2 DEF ListEnd
    <3> QED
      BY <3>1, <3>2
  <2>2. ASSUME NEW i \in 1..Len(log)
        PROVE  ListEnd(new, Append(log, m), i) = new.nodes[i + 1].begin
    <3>1. i + 1 \in 1..Len(pool.nodes) /\ i \in 1..(Len(log) + 1)
      BY <1>3, <1>11
    <3>2. ListEnd(pool, log, i) = pool.nodes[i + 1].begin
      BY DEF FileInv, Tiled
    <3> QED
      BY <1>6, <2>1, <3>1, <3>2
  <2>3. ListEnd(new, Append(log, m), Len(log) + 1) = new.nodes[Len(log) + 1 + 1].begin
    <3>1. ListEnd(pool, log, Len(log) + 1) = Len(pool.children)
      BY DEF FileInv, Tiled
    <3>2. new.nodes[Len(log) + 1 + 1] = n /\ Len(log) + 1 \in 1..(Len(log) + 1)
      BY <1>3, <1>6, <1>11
    <3> QED
      BY <1>4, <2>1, <3>1, <3>2
  <2>4. ListEnd(new, Append(log, m), Len(log) + 1 + 1) = Len(new.children)
    <3>1. new.nodes[Len(log) + 1 + 1] = n /\ Append(log, m)[Len(log) + 1 + 1 - 1] = m
      BY <1>3, <1>6, <1>7, <1>11
    <3>2. Len(log) + 1 + 1 # 1
      BY <1>3
    <3> QED
      BY <1>4, <1>5, <1>8, <3>1, <3>2 DEF ListEnd
  <2>5. \A i \in 1..Len(Append(log, m)) : i \in 1..Len(log) \/ i = Len(log) + 1
    BY <1>3, <1>7
  <2> QED
    BY <1>7, <2>2, <2>3, <2>4, <2>5 DEF Tiled
<1>14. Len(new.nodes) = Len(Append(log, m)) + 1
  BY <1>6, <1>7, <1>11
<1>15. FileInv(table, new, Append(log, m))
  <2>1. new.nodes[1] = Sentinel
    BY <1>3, <1>6, <1>11 DEF FileInv
  <2> QED
    BY <1>12, <1>13, <1>14, <2>1 DEF FileInv
<1> QED
  BY <1>15 DEF new, m

\* Names that keep their ids keep what words hold.
LEMMA FileNames ==
    ASSUME NEW pool, NEW log, FileInv(table, pool, log),
           \A t \in DOMAIN table : t \in DOMAIN table' /\ table'[t] = table[t]
    PROVE  FileInv(table', pool, log)
  BY DEF FileInv, NodeHolds, WordHolds

DataInv == \A f \in FileId : FileInv(table, pools[f], made[f])

LEMMA DataInit ==
    ASSUME Init
    PROVE  DataInv
<1>1. SUFFICES ASSUME NEW f \in FileId PROVE FileInv(table, pools[f], made[f])
  BY DEF DataInv
<1>2. pools[f] = EmptyPool /\ made[f] = <<>>
  BY DEF Init
<1>3. FileInv(table, EmptyPool, <<>>)
  BY DEF FileInv, EmptyPool, Tiled, ListEnd
<1> QED
  BY <1>2, <1>3

LEMMA DataNext ==
    ASSUME TypesInv, DataInv, [Next]_vars
    PROVE  DataInv'
<1>1. ASSUME NEW s \in Str, InternName(s) PROVE DataInv'
  <2>1. pools' = pools /\ made' = made
        /\ \A t \in DOMAIN table : t \in DOMAIN table' /\ table'[t] = table[t]
    BY <1>1, NamesStep DEF TypesInv
  <2> QED
    BY <2>1, FileNames DEF DataInv
<1>2. ASSUME NEW f \in FileId, NEW kids \in KidLists, MakesNode(f, kids) PROVE DataInv'
  <2>1. PICK attr \in Attr, word \in Nat :
            WordHolds(table, word, attr) /\ MakeNode(f, attr, kids, word)
    BY <1>2, WordsMade DEF TypesInv
  <2> DEFINE new == Alloc(pools[f], attr.kind, NoSpan, kids, word, attr.flags)
             log == Append(made[f], [attr |-> attr, kids |-> kids])
  <2>2. /\ pools' = [pools EXCEPT ![f] = new] /\ made' = [made EXCEPT ![f] = log]
        /\ table' = table
    BY <2>1 DEF MakeNode
  <2>3. /\ pools \in [FileId -> PoolType] /\ made \in [FileId -> Log]
    BY DEF TypesInv, PoolsInv, Log
  <2>4. FileInv(table, new, log)
    BY <2>1, <2>3, FileStep DEF DataInv
  <2> HIDE DEF new, log
  <2>5. ASSUME NEW g \in FileId PROVE FileInv(table, pools'[g], made'[g])
    BY <2>2, <2>3, <2>4 DEF DataInv
  <2> QED
    BY <2>2, <2>5 DEF DataInv
<1>3. CASE UNCHANGED vars
  BY <1>3 DEF vars, DataInv
<1> QED
  BY <1>1, <1>2, <1>3 DEF Next, MakesNode

\* A count never tells more than there are, and tells all of a short list.
LEMMA CountTold ==
    ASSUME NEW l \in Nat
    PROVE  l % CountLimit \in 0..l /\ (l < CountLimit => l % CountLimit = l)
<1>1. l < CountLimit => l % CountLimit = l
  BY LimitAssumption, SmallRemainder
<1>2. l % CountLimit \in 0..(CountLimit - 1)
  BY LimitAssumption
<1> QED
  BY <1>1, <1>2, LimitAssumption

\* A file has as many nodes as were made for it, each holding what it was made from.
LEMMA Holding ==
    ASSUME TypesInv, DataInv, NEW f \in FileId
    PROVE  /\ made[f] \in Log /\ Len(made[f]) \in Nat
           /\ PoolSize(pools[f]) = Len(made[f]) + 1
           /\ \A i \in 1..Len(made[f]) :
                  /\ made[f][i] \in [attr : Attr, kids : KidLists]
                  /\ Len(made[f][i].kids) \in Nat
                  /\ NodeAt(pools[f], i) \in NodeRecord
                  /\ NodeHolds(table, pools[f], NodeAt(pools[f], i), made[f][i])
<1>1. made[f] \in Log /\ pools[f].nodes \in Seq(NodeRecord)
  BY DEF TypesInv, PoolsInv, PoolType, Log
<1>2. FileInv(table, pools[f], made[f]) /\ Len(made[f]) \in Nat
  BY <1>1 DEF DataInv, Log
<1>3. ASSUME NEW i \in 1..Len(made[f])
      PROVE  /\ made[f][i] \in [attr : Attr, kids : KidLists]
             /\ Len(made[f][i].kids) \in Nat
             /\ pools[f].nodes[i + 1] \in NodeRecord
  <2>1. i + 1 \in 1..Len(pools[f].nodes)
    BY <1>2 DEF FileInv
  <2>2. made[f][i] \in [attr : Attr, kids : KidLists] /\ pools[f].nodes[i + 1] \in NodeRecord
    BY <1>1, <2>1, ElementOfSeq DEF Log
  <2>3. made[f][i].kids \in Seq(Nat \cup {NullNode})
    BY <2>2, KidAssumption
  <2> QED
    BY <2>2, <2>3
<1> QED
  BY <1>1, <1>2, <1>3 DEF FileInv, NodeAt, PoolSize

\* What the payload accessors read of a node: everything but a name that is too
\* big for the word.
LEMMA AttrRead ==
    ASSUME TypesInv, NEW pool, NEW n, NEW m \in [attr : Attr, kids : KidLists],
           NodeHolds(table, pool, n, m)
    PROVE  AttrOf(n) = IF NameFits(m) THEN m.attr
                       ELSE [m.attr EXCEPT !.name = AttrOf(n).name]
<1> DEFINE a == m.attr
<1>1. a \in Attr /\ n.kind = a.kind /\ n.flags = a.flags /\ WordHolds(table, n.payload, a)
  BY DEF NodeHolds
<1>2. Named(m) = (a.kind \in {"regime", "name"})
      /\ NameFits(m) = (Named(m) => table[a.name] < NameLimit)
  BY DEF Named, NameFits
<1> HIDE DEF a
<1>3. /\ a = [kind |-> a.kind, name |-> a.name, num |-> a.num, flags |-> a.flags]
      /\ a.kind \in {"regime", "name", "op", "none"}
  BY <1>1 DEF Attr
<1>4. /\ AttrOf(n).kind = a.kind /\ AttrOf(n).flags = a.flags
      /\ AttrOf(n) = [kind |-> AttrOf(n).kind, name |-> AttrOf(n).name,
                      num |-> AttrOf(n).num, flags |-> AttrOf(n).flags]
  BY <1>1 DEF AttrOf
<1>5. AttrOf(n).num = a.num
  <2>1. /\ a.kind = "regime" => a.num = payloadRegime(n.payload)
        /\ a.kind = "op" => a.num = payloadOp(n.payload)
        /\ a.kind \in {"name", "none"} => a.num = 0
    BY <1>1 DEF WordHolds
  <2>2. AttrOf(n).num = IF a.kind = "regime" THEN payloadRegime(n.payload)
                        ELSE IF a.kind = "op" THEN payloadOp(n.payload) ELSE 0
    BY <1>1 DEF AttrOf
  <2> QED
    BY <1>3, <2>1, <2>2
<1>6. NameFits(m) => AttrOf(n).name = a.name
  <2>1. AttrOf(n).name = IF a.kind \in {"regime", "name"}
                         THEN Names!Get(payloadStr(n.payload)) ELSE EmptyStr
    BY <1>1 DEF AttrOf
  <2>2. CASE a.kind \in {"regime", "name"}
    <3>1. a.name \in DOMAIN table /\ payloadStr(n.payload) = table[a.name] % NameLimit
      BY <1>1, <2>2 DEF WordHolds
    <3>2. table[a.name] \in Nat /\ Names!Get(table[a.name]) = a.name
      BY <3>1, NamesFacts DEF TypesInv
    <3>3. table[a.name] < NameLimit => table[a.name] % NameLimit = table[a.name]
      BY <3>2, LimitAssumption, SmallRemainder
    <3> QED
      BY <1>2, <2>1, <2>2, <3>1, <3>2, <3>3
  <2>3. CASE a.kind \in {"op", "none"}
    BY <1>1, <2>1, <2>3 DEF WordHolds
  <2> QED
    BY <1>3, <2>2, <2>3
<1>7. [a EXCEPT !.name = AttrOf(n).name]
          = [kind |-> a.kind, name |-> AttrOf(n).name, num |-> a.num, flags |-> a.flags]
  BY <1>3
<1>8. CASE NameFits(m)
  BY <1>3, <1>4, <1>5, <1>6, <1>8 DEF a
<1>9. CASE ~NameFits(m)
  BY <1>4, <1>5, <1>7, <1>9 DEF a
<1> QED
  BY <1>8, <1>9

\* What childrenOf reads of a node: the list it was made with, as far as its count
\* goes.
LEMMA KidsRead ==
    ASSUME TypesInv, DataInv, NEW f \in FileId, NEW i \in 1..Len(made[f])
    PROVE  LET read == ChildrenOf(pools[f], i)
               m == made[f][i]
           IN  /\ Len(read) = Len(m.kids) % CountLimit
               /\ DOMAIN read = 1..Len(read)
               /\ \A k \in 1..Len(read) : read[k] = m.kids[k]
               /\ FewKids(m) => read = m.kids
<1> DEFINE pool == pools[f]
           n == NodeAt(pool, i)
           m == made[f][i]
           K == Nat \cup {NullNode}
           s == SubSeq(pool.children, n.begin + 1, n.begin + n.count)
<1>1. /\ pool.children \in Seq(K) /\ Len(pool.children) \in Nat
      /\ n \in NodeRecord /\ m \in [attr : Attr, kids : KidLists] /\ Len(m.kids) \in Nat
      /\ NodeHolds(table, pool, n, m)
  <2>1. pool \in PoolType
    BY DEF TypesInv, PoolsInv
  <2>2. pool.children \in Seq(K) /\ Len(pool.children) \in Nat
    BY <2>1 DEF PoolType
  <2> QED
    BY <2>2, Holding
<1>2. n.begin \in Nat /\ m.kids \in Seq(K)
  BY <1>1, KidAssumption DEF NodeRecord
<1> HIDE DEF pool, n, m
<1>3. /\ n.count = Len(m.kids) % CountLimit /\ n.begin + Len(m.kids) <= Len(pool.children)
      /\ \A j \in 1..Len(m.kids) : pool.children[n.begin + j] = m.kids[j]
  BY <1>1 DEF NodeHolds
<1>4. n.count \in 0..Len(m.kids)
  BY <1>1, <1>3, CountTold
<1>5. /\ n.begin + 1 \in Int /\ n.begin + n.count \in Int
      /\ \A k \in (n.begin + 1)..(n.begin + n.count) : pool.children[k] \in K
  BY <1>1, <1>2, <1>3, <1>4, ElementOfSeq
<1>6. /\ s \in Seq(K)
      /\ Len(s) = IF n.begin + 1 <= n.begin + n.count
                  THEN (n.begin + n.count) - (n.begin + 1) + 1 ELSE 0
      /\ \A k \in 1..((n.begin + n.count) - (n.begin + 1) + 1) :
             s[k] = pool.children[(n.begin + 1) + k - 1]
  BY <1>5, SubSeqProperties
<1> HIDE DEF s
<1>7. Len(s) = n.count /\ DOMAIN s = 1..Len(s)
  BY <1>2, <1>4, <1>6
<1>8. \A k \in 1..Len(s) : s[k] = m.kids[k]
  <2>1. TAKE k \in 1..Len(s)
  <2>2. /\ k \in 1..((n.begin + n.count) - (n.begin + 1) + 1)
        /\ (n.begin + 1) + k - 1 = n.begin + k
        /\ k \in 1..Len(m.kids)
    BY <1>2, <1>4, <1>7, <2>1
  <2> QED
    BY <1>3, <1>6, <2>2
<1>9. FewKids(m) => s = m.kids
  <2>1. SUFFICES ASSUME FewKids(m) PROVE s = m.kids
    OBVIOUS
  <2>2. Len(s) = Len(m.kids)
    BY <1>1, <1>3, <1>7, <2>1, CountTold DEF FewKids
  <2> QED
    BY <1>2, <1>6, <1>8, <2>2, SeqEqual
<1>10. ChildrenOf(pool, i) = s
  BY DEF ChildrenOf, n, s
<1> QED
  BY <1>3, <1>7, <1>8, <1>9, <1>10 DEF pool, m

LEMMA DataHolds == Spec => [](TypesInv /\ DataInv)
<1>1. TypesInv /\ DataInv /\ [Next]_vars => TypesInv' /\ DataInv'
  BY TypesNext, DataNext
<1> QED
  BY TypesInit, DataInit, <1>1, PTL DEF Spec

\* What is read: every node of a session at any later time gives back its name,
\* its number and its children, if its name has an id of 30 bits and its children
\* are fewer than 2^16; a node for which this is not so gives back the rest
\* (NodePool.cpp:36-106, NodePool.h:62-117).
THEOREM NodesReadBack == Spec => []ReadsBack
<1>1. TypesInv /\ DataInv => ReadsBack
  <2>1. SUFFICES ASSUME TypesInv, DataInv, NEW f \in FileId
                 PROVE  LET ast == AstOf(pools[f]) IN
                        /\ Len(ast) = Len(made[f])
                        /\ \A i \in DOMAIN made[f] :
                             LET m == made[f][i]
                                 lost == [m.attr EXCEPT !.name = ast[i].attr.name]
                             IN  /\ ast[i].attr = IF NameFits(m) THEN m.attr ELSE lost
                                 /\ FewKids(m) => ast[i].kids = m.kids
                                 /\ Len(ast[i].kids) <= Len(m.kids)
                                 /\ \A k \in DOMAIN ast[i].kids : ast[i].kids[k] = m.kids[k]
    BY DEF ReadsBack
  <2> DEFINE len == Len(made[f])
             ast == AstOf(pools[f])
  <2>2. /\ len \in Nat /\ PoolSize(pools[f]) - 1 = len /\ DOMAIN made[f] = 1..len
    BY <2>1, Holding DEF Log
  <2>3. ast = [i \in 1..len |-> [attr |-> AttrOf(NodeAt(pools[f], i)),
                                 kids |-> ChildrenOf(pools[f], i)]]
    BY <2>2 DEF AstOf
  <2> HIDE DEF len, ast
  <2>4. Len(ast) = len
    BY <2>2, <2>3
  <2>5. ASSUME NEW i \in 1..len
        PROVE  LET m == made[f][i]
                   lost == [m.attr EXCEPT !.name = ast[i].attr.name]
               IN  /\ ast[i].attr = IF NameFits(m) THEN m.attr ELSE lost
                   /\ FewKids(m) => ast[i].kids = m.kids
                   /\ Len(ast[i].kids) <= Len(m.kids)
                   /\ \A k \in DOMAIN ast[i].kids : ast[i].kids[k] = m.kids[k]
    <3>1. /\ ast[i].attr = AttrOf(NodeAt(pools[f], i))
          /\ ast[i].kids = ChildrenOf(pools[f], i)
      BY <2>3, <2>5
    <3>2. AttrOf(NodeAt(pools[f], i))
              = IF NameFits(made[f][i]) THEN made[f][i].attr
                ELSE [made[f][i].attr EXCEPT !.name = AttrOf(NodeAt(pools[f], i)).name]
      BY <2>1, <2>5, Holding, AttrRead DEF len
    <3>3. Len(made[f][i].kids) % CountLimit <= Len(made[f][i].kids)
      BY <2>1, <2>5, Holding, CountTold DEF len
    <3>4. /\ Len(ast[i].kids) = Len(made[f][i].kids) % CountLimit
          /\ \A k \in DOMAIN ast[i].kids : ast[i].kids[k] = made[f][i].kids[k]
          /\ FewKids(made[f][i]) => ast[i].kids = made[f][i].kids
      BY <2>1, <2>5, <3>1, KidsRead DEF len
    <3> QED
      BY <3>1, <3>2, <3>3, <3>4
  <2> QED
    BY <2>2, <2>4, <2>5 DEF len, ast
<1> QED
  BY DataHolds, <1>1, PTL

\* The slices of a pool never run into each other or past the end of its children
\* array (NodePool.h:128), also behind a list of more than 2^16 children, and they
\* leave nothing out unless there is one.
THEOREM SlicesStayTiled == Spec => []SlicesTile
<1>1. TypesInv /\ DataInv => SlicesTile
  <2>1. SUFFICES ASSUME TypesInv, DataInv, NEW f \in FileId,
                        NEW i \in 0..(PoolSize(pools[f]) - 1)
                 PROVE  /\ SliceEnd(pools[f], i) <= NextBegin(pools[f], i)
                        /\ i = 0 \/ FewKids(made[f][i])
                               => SliceEnd(pools[f], i) = NextBegin(pools[f], i)
    BY DEF SlicesTile
  <2> DEFINE pool == pools[f]
             log == made[f]
  <2>2. /\ log \in Log /\ Len(log) \in Nat /\ PoolSize(pool) = Len(log) + 1
        /\ FileInv(table, pool, log)
    BY <2>1, Holding DEF DataInv
  <2>3. NextBegin(pool, i) = ListEnd(pool, log, i + 1)
    <3>1. CASE i < Len(log)
      <4>1. i + 1 \in 1..Len(log)
        BY <2>1, <2>2, <3>1
      <4>2. ListEnd(pool, log, i + 1) = pool.nodes[i + 1 + 1].begin
        BY <2>2, <4>1 DEF FileInv, Tiled
      <4> QED
        BY <2>1, <2>2, <3>1, <4>2 DEF NextBegin, NodeAt
    <3>2. CASE i = Len(log)
      BY <2>1, <2>2, <3>2 DEF NextBegin, FileInv, Tiled
    <3> QED
      BY <2>1, <2>2, <3>1, <3>2
  <2>4. CASE i = 0
    <3>1. pool.nodes[0 + 1] = Sentinel
      BY <2>2 DEF FileInv
    <3>2. SliceEnd(pool, i) = 0 /\ ListEnd(pool, log, i + 1) = 0
      BY <2>4, <3>1 DEF SliceEnd, NodeAt, Sentinel, ListEnd
    <3> QED
      BY <2>3, <3>2
  <2>5. CASE i # 0
    <3> DEFINE l == Len(log[i].kids)
               b == NodeAt(pool, i).begin
    <3>1. i \in 1..Len(log)
      BY <2>1, <2>2, <2>5
    <3>2. /\ l \in Nat /\ b \in Nat /\ NodeAt(pool, i).count = l % CountLimit
      <4>1. NodeAt(pool, i) \in NodeRecord /\ NodeHolds(table, pool, NodeAt(pool, i), log[i])
        BY <2>1, <3>1, Holding
      <4> QED
        BY <2>1, <3>1, <4>1, Holding DEF NodeHolds, NodeRecord
    <3>3. l % CountLimit \in 0..l /\ (FewKids(log[i]) => l % CountLimit = l)
      BY <3>2, CountTold DEF FewKids
    <3>4. SliceEnd(pool, i) = b + (l % CountLimit)
      BY <3>2 DEF SliceEnd
    <3>5. ListEnd(pool, log, i + 1) = b + l
      <4>1. i + 1 # 1 /\ i + 1 - 1 = i
        BY <3>1
      <4> QED
        BY <4>1 DEF ListEnd, NodeAt
    <3> HIDE DEF l, b
    <3>6. SliceEnd(pool, i) <= NextBegin(pool, i)
      BY <2>3, <3>2, <3>3, <3>4, <3>5
    <3> QED
      BY <2>3, <2>5, <3>3, <3>4, <3>5, <3>6
  <2> QED
    BY <2>4, <2>5
<1> QED
  BY DataHolds, <1>1, PTL

\* Nodes of any two files made from names hold the same InternedStr just if the
\* names are the same, as long as their ids have 30 bits (PackSession.h:37,
\* NodePool.h:69).
THEOREM SameNames == Spec => []SameNameSameId
<1>1. TypesInv /\ DataInv => SameNameSameId
  <2>1. SUFFICES ASSUME TypesInv, DataInv, NEW f \in FileId, NEW g \in FileId,
                        NEW i \in DOMAIN made[f], NEW j \in DOMAIN made[g],
                        Named(made[f][i]), Named(made[g][j]),
                        NameFits(made[f][i]), NameFits(made[g][j])
                 PROVE  payloadStr(NodeAt(pools[f], i).payload)
                            = payloadStr(NodeAt(pools[g], j).payload)
                        <=> made[f][i].attr.name = made[g][j].attr.name
    BY DEF SameNameSameId
  <2>2. ASSUME NEW h \in FileId, NEW k \in DOMAIN made[h],
               Named(made[h][k]), NameFits(made[h][k])
        PROVE  /\ made[h][k].attr.name \in DOMAIN table
               /\ payloadStr(NodeAt(pools[h], k).payload) = table[made[h][k].attr.name]
    <3> DEFINE a == made[h][k].attr
    <3>1. k \in 1..Len(made[h])
      BY <2>1, <2>2, Holding DEF Log
    <3>2. WordHolds(table, NodeAt(pools[h], k).payload, a)
      BY <2>1, <3>1, Holding DEF NodeHolds
    <3>3. a.kind \in {"regime", "name"} /\ table[a.name] < NameLimit
      BY <2>2 DEF Named, NameFits
    <3> HIDE DEF a
    <3>4. a.name \in DOMAIN table
          /\ payloadStr(NodeAt(pools[h], k).payload) = table[a.name] % NameLimit
      BY <3>2, <3>3 DEF WordHolds
    <3>5. table[a.name] \in Nat
      BY <2>1, <3>4, NamesFacts DEF TypesInv
    <3>6. table[a.name] % NameLimit = table[a.name]
      BY <3>3, <3>5, LimitAssumption, SmallRemainder
    <3> QED
      BY <3>4, <3>6 DEF a
  <2>3. \A s, t \in DOMAIN table : table[s] = table[t] => s = t
    BY <2>1, NamesFacts DEF TypesInv
  <2> QED
    BY <2>1, <2>2, <2>3
<1> QED
  BY DataHolds, <1>1, PTL
=============================================================================
