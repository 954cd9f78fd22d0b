------------------------------ MODULE FlatAst ------------------------------
(***************************************************************************)
(* The AST of a pack as it is stored: one StringInterner shared by all the *)
(* files (PackSession) and one NodePool per file (ParseResult).  Nodes are *)
(* made with children that exist already and with a payload word that      *)
(* encodes their name, regime or operator.  `kind` only says how the word  *)
(* is to be read: "regime" (makePayload), "name" (a bare InternedStr),     *)
(* "op" (makeOpPayload), "none" (0).                                       *)
(*                                                                         *)
(* Nothing keeps the interner below the 2^30 names that a word can hold,   *)
(* nor a child list below the 2^16 entries that a count can tell.  The     *)
(* assertion of makePayload is left out (a build with assertions stops     *)
(* there): what does not fit is cut, as in a release build.                *)
(***************************************************************************)
EXTENDS SourceStrings, NodePool, FiniteSets

CONSTANTS
    FileId,
    Op,         \* the operators: values of Token::Kind
    KidLists,   \* the child lists a node may be made with
    MaxNodes    \* bound: nodes made over all files

ASSUME KidAssumption == KidLists \subseteq Seq(Nat \cup {NullNode})
ASSUME OpAssumption == Op \subseteq 0..(CountLimit - 1)
ASSUME FileAssumption == \A f \in FileId : f # NullNode

VARIABLES
    table, strings, ret,    \* the interner of the session
    pools,                  \* one node pool per file
    made                    \* per file, what its nodes were made from (history)

vars == <<table, strings, ret, pools, made>>

Names == INSTANCE StringInterner

Init ==
    /\ Names!Init
    /\ pools = [f \in FileId |-> EmptyPool]
    /\ made = [f \in FileId |-> <<>>]

InternName(s) ==
    /\ Names!Intern(s)
    /\ UNCHANGED <<pools, made>>

\* Bound: the AST is followed up to MaxNodes nodes over all the files.
WithinBound ==
    Cardinality({at \in FileId \X (1..MaxNodes) : at[2] < PoolSize(pools[at[1]])})
        < MaxNodes

\* Children are made before their parents.
Existing(pool, kids) ==
    \A i \in DOMAIN kids : kids[i] = NullNode \/ kids[i] \in 1..(PoolSize(pool) - 1)

NoSpan == <<0, 0>>  \* spans are never read here

MakeNode(f, attr, kids, word) ==
    /\ WithinBound
    /\ Existing(pools[f], kids)
    /\ pools' = [pools EXCEPT
                    ![f] = Alloc(@, attr.kind, NoSpan, kids, word, attr.flags)]
    /\ made' = [made EXCEPT ![f] = Append(@, [attr |-> attr, kids |-> kids])]
    /\ UNCHANGED <<table, strings, ret>>

Attribute(kind, name, num, flags) ==
    [kind |-> kind, name |-> name, num |-> num, flags |-> flags]

\* FnDecl, LetStmt, Param, LitExpr, ... : a name and a regime.
MakeWithRegime(f, kids, s, regime) ==
    /\ s \in DOMAIN table
    /\ MakeNode(f, Attribute("regime", s, regime, {}), kids,
                makePayload(table[s], regime))

\* Mistake: the id stored is that of the name interned last.
MakeNamedLast(f, kids, s, flags) ==
    /\ s \in DOMAIN table
    /\ MakeNode(f, Attribute("name", s, 0, flags), kids, ret)

\* StructDecl, UseDecl, NamedType, TupleIndexExpr, ... : a bare name, and the
\* flags of a declaration.
MakeNamed(f, kids, s, flags) ==
    /\ s \in DOMAIN table
    /\ MakeNode(f, Attribute("name", s, 0, flags), kids, table[s])

\* BinaryExpr, UnaryExpr: an operator.
MakeOperator(f, kids, op) ==
    MakeNode(f, Attribute("op", EmptyStr, op, {}), kids, makeOpPayload(op))

\* Blocks, calls, tuples, error nodes, ... : nothing.
MakeBare(f, kids) == MakeNode(f, Attribute("none", EmptyStr, 0, {}), kids, 0)

Next ==
    \/ \E s \in Str : InternName(s)
    \/ \E f \in FileId, kids \in KidLists :
          \/ \E s \in Str, regime \in Regime : MakeWithRegime(f, kids, s, regime)
          \/ \E s \in Str, flags \in SUBSET Flag : MakeNamed(f, kids, s, flags)
          \/ \E op \in Op : MakeOperator(f, kids, op)
          \/ MakeBare(f, kids)

Spec == Init /\ [][Next]_vars

-----------------------------------------------------------------------------
(* Reading the AST back.                                                   *)

\* What the accessors make of a node's payload word.
AttrOf(n) ==
    [kind |-> n.kind,
     name |-> IF n.kind \in {"regime", "name"} THEN Names!Get(payloadStr(n.payload))
              ELSE EmptyStr,
     num  |-> IF n.kind = "regime" THEN payloadRegime(n.payload)
              ELSE IF n.kind = "op" THEN payloadOp(n.payload)
              ELSE 0,
     flags |-> n.flags]

\* The AST as it reads: node i of a file (i > 0) with what childrenOf and the
\* payload accessors return for it.
AstOf(pool) ==
    [i \in 1..(PoolSize(pool) - 1) |->
        [attr |-> AttrOf(NodeAt(pool, i)), kids |-> ChildrenOf(pool, i)]]

\* What a node was made with fits its record: a child count, a payload word.
FewKids(m) == Len(m.kids) < CountLimit
Named(m) == m.attr.kind \in {"regime", "name"}
NameFits(m) == Named(m) => table[m.attr.name] < NameLimit

\* Every node reads back, at any later time, as what it was made from: later
\* allocations in the same pool, names interned for other files and the packing
\* of name and regime into one word do not disturb it (NodePool.h:66-84).  Of a
\* node that does not fit, only the name or the last of the children are lost:
\* its kind, its regime, its flags and the children before them read back too.
ReadsBack ==
    \A f \in FileId :
        LET ast == AstOf(pools[f])
        IN  /\ Len(ast) = Len(made[f])
            /\ \A i \in DOMAIN made[f] :
                   LET m == made[f][i]
                       lost == [m.attr EXCEPT !.name = ast[i].attr.name]
                   IN  /\ ast[i].attr = IF NameFits(m) THEN m.attr ELSE lost
                       /\ FewKids(m) => ast[i].kids = m.kids
                       /\ Len(ast[i].kids) <= Len(m.kids)
                       /\ \A k \in DOMAIN ast[i].kids : ast[i].kids[k] = m.kids[k]

Attr == [kind : {"regime", "name", "op", "none"}, name : Str, num : Nat,
         flags : SUBSET Flag]

NodeRecord == [kind : {"Error", "regime", "name", "op", "none"},
               count : 0..(CountLimit - 1), begin : Nat,
               payload : Nat,
               flags : SUBSET Flag]

TypeOK ==
    /\ Names!TypeOK
    /\ pools \in [FileId -> [nodes : Seq(NodeRecord),
                             children : Seq(Nat \cup {NullNode}),
                             spans : Seq(Nat \X Nat)]]
    /\ made \in [FileId -> Seq([attr : Attr, kids : KidLists])]

\* Where the slice of a node ends, and where the next one begins or the array
\* ends.
SliceEnd(pool, i) == NodeAt(pool, i).begin + NodeAt(pool, i).count
NextBegin(pool, i) == IF i + 1 < PoolSize(pool) THEN NodeAt(pool, i + 1).begin
                      ELSE Len(pool.children)

\* NodePool.h:128 "ChildrenBegin + ChildCount must not exceed Children.size()",
\* and the slices of one pool follow each other in node order: no entry is shared
\* by two nodes, also when a list was too long for its count; and unless it was
\* none is lost.
SlicesTile ==
    \A f \in FileId :
        \A i \in 0..(PoolSize(pools[f]) - 1) :
            /\ SliceEnd(pools[f], i) <= NextBegin(pools[f], i)
            /\ i = 0 \/ FewKids(made[f][i])
                   => SliceEnd(pools[f], i) = NextBegin(pools[f], i)

\* PackSession.h:37 the same identifier in two files has the same InternedStr,
\* and different identifiers have different ones: of the names the nodes were made
\* from and the ids the nodes hold, unless one is past the 2^30 that a word can
\* tell (NodePool.h:69).
SameNameSameId ==
    \A f, g \in FileId :
        \A i \in DOMAIN made[f], j \in DOMAIN made[g] :
            LET m == made[f][i]
                n == made[g][j]
            IN  Named(m) /\ Named(n) /\ NameFits(m) /\ NameFits(n)
                => (payloadStr(NodeAt(pools[f], i).payload)
                            = payloadStr(NodeAt(pools[g], j).payload)
                        <=> m.attr.name = n.attr.name)

\* StringInterner.h:23 holds of the interner that the files of a session share:
\* ids and contents are inverse to each other, whatever nodes are made.
Canonical == Names!Canonical

\* StringInterner.h:57 what an id stands for never changes, in no file.
Stable == Names!Stable
=============================================================================
