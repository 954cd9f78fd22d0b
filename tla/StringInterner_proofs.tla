----------------------- MODULE StringInterner_proofs -----------------------
(***************************************************************************)
(* Proofs about StringInterner, for every set of strings.                  *)
(***************************************************************************)
EXTENDS StringInterner, TLAPS

Inv == TypeOK /\ Canonical

LEMMA InitInv == Init => Inv
<1> SUFFICES ASSUME Init PROVE Inv
  OBVIOUS
<1>1. /\ strings \in Seq(Str) /\ Len(strings) = 1 /\ Size = 0
      /\ DOMAIN table = {} /\ table = [s \in {} |-> NullStr] /\ ret = 0
  BY StrAssumption DEF Init, Size, NullStr
<1>2. TypeOK
  BY <1>1 DEF TypeOK
<1>3. Canonical
  BY <1>1 DEF Canonical
<1> QED
  BY <1>2, <1>3 DEF Inv

\* A new string gets the next id; the old ones keep theirs.
LEMMA NewString ==
    ASSUME Inv, NEW s \in Str, InternNew(s)
    PROVE  /\ Size' = Size + 1 /\ Len(strings) = Size + 1 /\ Size \in Nat
           /\ table'[s] = Size + 1 /\ DOMAIN table' = DOMAIN table \cup {s}
           /\ \A t \in DOMAIN table : table'[t] = table[t]
           /\ strings' \in Seq(Str)
           /\ \A i \in DOMAIN strings : i \in DOMAIN strings' /\ strings'[i] = strings[i]
           /\ strings'[Size + 2] = s
           /\ s \notin DOMAIN table
           /\ table' \in [DOMAIN table \cup {s} -> Nat]
<1>1. strings \in Seq(Str) /\ strings' = Append(strings, s) /\ Len(strings) \in Nat \ {0}
  BY DEF Inv, TypeOK, Canonical, InternNew
<1>2. /\ Len(strings') = Len(strings) + 1 /\ strings' \in Seq(Str)
      /\ \A i \in DOMAIN strings : i \in DOMAIN strings' /\ strings'[i] = strings[i]
      /\ strings'[Len(strings) + 1] = s
  BY <1>1
<1>3. /\ s \notin DOMAIN table
      /\ table' = [t \in DOMAIN table \cup {s} |->
                       IF t = s THEN Len(strings) ELSE table[t]]
      /\ table \in [DOMAIN table -> Nat]
  BY DEF InternNew, Inv, TypeOK
<1>4. table' \in [DOMAIN table \cup {s} -> Nat]
  BY <1>1, <1>3
<1> QED
  BY <1>1, <1>2, <1>3, <1>4 DEF Size

LEMMA NextInv ==
    ASSUME Inv, NEW s \in Str, Intern(s)
    PROVE  Inv'
<1>1. CASE InternKnown(s)
  BY <1>1 DEF InternKnown, Inv, TypeOK, Canonical, Size, Get
<1>2. CASE InternNew(s)
  <2> DEFINE n == Size
  <2>0. /\ n \in Nat /\ DOMAIN strings = 1..(n + 1) /\ DOMAIN strings' = 1..(n + 2)
        /\ Size' = n + 1
        /\ DOMAIN table' = DOMAIN table \cup {s} /\ s \notin DOMAIN table
        /\ \A t \in DOMAIN table : table'[t] = table[t]
        /\ table'[s] = n + 1
        /\ \A i \in 1..(n + 1) : strings'[i] = strings[i]
        /\ strings'[n + 2] = s
    <3>1. /\ strings \in Seq(Str) /\ strings' \in Seq(Str)
          /\ Len(strings) = n + 1 /\ n \in Nat /\ Size' = n + 1
      BY <1>2, NewString DEF Inv, TypeOK
    <3>2. Len(strings') = n + 2
      BY <3>1 DEF Size
    <3>3. DOMAIN strings = 1..(n + 1) /\ DOMAIN strings' = 1..(n + 2)
      BY <3>1, <3>2
    <3>4. \A i \in 1..(n + 1) : strings'[i] = strings[i]
      BY <1>2, <3>3, NewString
    <3>5. /\ DOMAIN table' = DOMAIN table \cup {s} /\ s \notin DOMAIN table
          /\ \A t \in DOMAIN table : table'[t] = table[t]
          /\ table'[s] = n + 1 /\ strings'[n + 2] = s
      BY <1>2, NewString
    <3> QED
      BY <3>1, <3>3, <3>4, <3>5
  <2>1. TypeOK'
    BY <1>2, NewString DEF InternNew, TypeOK, Inv
  <2> HIDE DEF n
  <2>2. ASSUME NEW t \in DOMAIN table'
        PROVE  table'[t] \in 1..(n + 1) /\ strings'[table'[t] + 1] = t
    <3>1. CASE t \in DOMAIN table
      <4>1. table[t] \in 1..n /\ strings[table[t] + 1] = t
        BY <3>1 DEF Inv, Canonical, Get, n
      <4>2. table[t] \in 1..(n + 1) /\ table[t] + 1 \in 1..(n + 1)
        BY <2>0, <4>1
      <4> QED
        BY <2>0, <3>1, <4>1, <4>2
    <3>2. CASE t = s
      BY <2>0, <3>2
    <3> QED
      BY <2>0, <3>1, <3>2
  <2>3. ASSUME NEW id \in 1..(n + 1)
        PROVE  strings'[id + 1] \in DOMAIN table' /\ table'[strings'[id + 1]] = id
    <3>1. CASE id \in 1..n
      <4>1. strings[id + 1] \in DOMAIN table /\ table[strings[id + 1]] = id
        BY <3>1 DEF Inv, Canonical, Get, n
      <4>2. strings'[id + 1] = strings[id + 1]
        BY <2>0, <3>1
      <4> QED
        BY <2>0, <4>1, <4>2
    <3>2. CASE id = n + 1
      BY <2>0, <3>2
    <3> QED
      BY <2>0, <3>1, <3>2
  <2>4. Len(strings') > 0
    BY <1>2, <2>0, NewString DEF Size, n
  <2> QED
    BY <2>0, <2>1, <2>2, <2>3, <2>4 DEF Inv, Canonical, Get
<1> QED
  BY <1>1, <1>2 DEF Intern

\* Table and Strings are inverse to each other at all times.
THEOREM CanonicalIds == Spec => []Canonical
<1>1. Inv /\ [Next]_siVars => Inv'
  <2> SUFFICES ASSUME Inv, [Next]_siVars PROVE Inv'
    OBVIOUS
  <2>1. CASE Next
    BY <2>1, NextInv DEF Next
  <2>2. CASE UNCHANGED siVars
    BY <2>2 DEF siVars, Inv, TypeOK, Canonical, Size, Get
  <2> QED
    BY <2>1, <2>2
<1>2. Inv => Canonical
  BY DEF Inv
<1> QED
  BY InitInv, <1>1, <1>2, PTL DEF Spec

\* An id means the same string for the lifetime of the interner.
THEOREM StableIds == Spec => Stable
<1> DEFINE Keeps ==
      /\ \A s \in DOMAIN table : s \in DOMAIN table' /\ table'[s] = table[s]
      /\ \A i \in DOMAIN strings : i \in DOMAIN strings' /\ strings'[i] = strings[i]
<1>1. Inv /\ [Next]_siVars => Inv'
  <2> SUFFICES ASSUME Inv, [Next]_siVars PROVE Inv'
    OBVIOUS
  <2>1. CASE Next
    BY <2>1, NextInv DEF Next
  <2>2. CASE UNCHANGED siVars
    BY <2>2 DEF siVars, Inv, TypeOK, Canonical, Size, Get
  <2> QED
    BY <2>1, <2>2
<1>2. Inv /\ [Next]_siVars => [Keeps]_siVars
  <2> SUFFICES ASSUME Inv, Next PROVE Keeps
    BY DEF siVars
  <2>1. PICK s \in Str : Intern(s)
    BY DEF Next
  <2>2. CASE InternKnown(s)
    BY <2>2 DEF InternKnown
  <2>3. CASE InternNew(s)
    BY <2>3, NewString
  <2> QED
    BY <2>1, <2>2, <2>3 DEF Intern
<1> QED
  BY InitInv, <1>1, <1>2, PTL DEF Spec, Stable
=============================================================================
