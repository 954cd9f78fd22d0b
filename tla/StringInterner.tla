--------------------------- MODULE StringInterner ---------------------------
(***************************************************************************)
(* eter::parser::StringInterner: the table that gives every distinct       *)
(* string of a session one id.  Strings[i] is strings[i + 1] here; place 0 *)
(* is the NullStr sentinel, an empty string that is not in Table.          *)
(***************************************************************************)
EXTENDS SourceStrings, Integers, Sequences

VARIABLES
    table,      \* Table: content -> id
    strings,    \* Strings: id -> content
    ret         \* the id the last intern returned

siVars == <<table, strings, ret>>

NullStr == 0

\* get(Id) and size().
Get(id) == strings[id + 1]
Size == Len(strings) - 1

Init ==
    /\ table = [s \in {} |-> NullStr]
    /\ strings = <<EmptyStr>>
    /\ ret = NullStr

\* Table.insert found the string: the id it has is returned.
InternKnown(s) ==
    /\ s \in DOMAIN table
    /\ ret' = table[s]
    /\ UNCHANGED <<table, strings>>

\* Mistake: the id is the number of strings without the sentinel.
InternOffByOne(s) ==
    /\ s \notin DOMAIN table
    /\ table' = [t \in DOMAIN table \cup {s} |-> IF t = s THEN Size ELSE table[t]]
    /\ strings' = Append(strings, s)
    /\ ret' = Size

\* Mistake: a new string replaces the last one.
InternReplaces(s) ==
    /\ s \notin DOMAIN table
    /\ table' = [t \in DOMAIN table \cup {s} |->
                     IF t = s THEN Len(strings) ELSE table[t]]
    /\ strings' = Append([strings EXCEPT ![Len(strings)] = s], s)
    /\ ret' = Len(strings)

\* It inserted it with id 0: the next place in Strings becomes its id.
InternNew(s) ==
    /\ s \notin DOMAIN table
    /\ table' = [t \in DOMAIN table \cup {s} |->
                     IF t = s THEN Len(strings) ELSE table[t]]
    /\ strings' = Append(strings, s)
    /\ ret' = Len(strings)

Intern(s) == InternKnown(s) \/ InternNew(s)

Next == \E s \in Str : Intern(s)

Spec == Init /\ [][Next]_siVars

-----------------------------------------------------------------------------
TypeOK ==
    /\ DOMAIN table \subseteq Str
    /\ table \in [DOMAIN table -> Nat]
    /\ strings \in Seq(Str)
    /\ ret \in Nat

\* StringInterner.h:23 "equal if and only if they represent the same string
\* content": Table and Strings are inverse to each other on the ids handed out,
\* and NullStr is not one of them.
Canonical ==
    /\ Len(strings) > 0
    /\ \A s \in DOMAIN table : table[s] \in 1..Size /\ Get(table[s]) = s
    /\ \A id \in 1..Size : Get(id) \in DOMAIN table /\ table[Get(id)] = id

\* StringInterner.h:57 "IDs are stable for the lifetime of this interner": no
\* later intern changes what an id stands for or which id a string has.
Stable ==
    [][/\ \A s \in DOMAIN table : s \in DOMAIN table' /\ table'[s] = table[s]
       /\ \A i \in DOMAIN strings : i \in DOMAIN strings' /\ strings'[i] = strings[i]
      ]_siVars
=============================================================================
