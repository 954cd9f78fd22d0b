------------------------------ MODULE NodePool ------------------------------
(***************************************************************************)
(* eter::parser::NodePool as a value [nodes, children, spans] and the      *)
(* operators that read and extend it.  Node index i is nodes[i + 1]; place *)
(* 0 is the sentinel; spans is in step with nodes.                         *)
(*                                                                         *)
(* A node is [kind, count, begin, payload, flags]: its children are the    *)
(* `count` entries of the flat children array from `begin` on.  `count` is *)
(* a uint16_t and takes the number of children modulo 2^16; a payload word *)
(* holds a 30-bit name under a 2-bit regime; the flag bits are a set.      *)
(***************************************************************************)
EXTENDS Integers, Sequences

CONSTANTS
    CountLimit,     \* 2^16: the values of ChildCount, and of an operator
    NameLimit,      \* 2^30: the names a payload word can hold
    NullNode        \* NodeIndex{UINT32_MAX}, "absent"

ASSUME LimitAssumption ==
    /\ CountLimit \in Nat \ {0}
    /\ NameLimit \in Nat \ {0}
    /\ CountLimit <= NameLimit
    /\ NullNode \notin Nat

Regime == 0..3      \* Imm, Mut, Proj, None
Flag == {"pub", "unsafe"}

-----------------------------------------------------------------------------
(* Payload words.                                                          *)

makePayload(name, regime) == regime * NameLimit + (name % NameLimit)
payloadStr(word) == word % NameLimit

\* Mistake: shifted by one bit too few.
payloadRegimeShort(word) == (2 * word) \div NameLimit

payloadRegime(word) == word \div NameLimit
makeOpPayload(op) == op
payloadOp(word) == word % CountLimit

-----------------------------------------------------------------------------
(* The pool.                                                               *)

Sentinel == [kind |-> "Error", count |-> 0, begin |-> 0, payload |-> 0,
             flags |-> {}]

EmptyPool == [nodes |-> <<Sentinel>>, children |-> <<>>, spans |-> <<<<0, 0>>>>]

PoolSize(pool) == Len(pool.nodes)

Node(kind, kids, begin, payload, flags) ==
    [kind |-> kind, count |-> Len(kids) % CountLimit, begin |-> begin,
     payload |-> payload, flags |-> flags]

\* Mistake: the slice begins one entry too early, as if counted from 1.
AllocShifted(pool, kind, span, kids, payload, flags) ==
    [nodes |-> Append(pool.nodes,
                      Node(kind, kids, IF pool.children = <<>> THEN 0
                                       ELSE Len(pool.children) - 1,
                           payload, flags)),
     children |-> pool.children \o kids,
     spans |-> Append(pool.spans, span)]

\* The index of the new node is PoolSize(pool).
Alloc(pool, kind, span, kids, payload, flags) ==
    [nodes |-> Append(pool.nodes,
                      Node(kind, kids, Len(pool.children), payload, flags)),
     children |-> pool.children \o kids,
     spans |-> Append(pool.spans, span)]

NodeAt(pool, i) == pool.nodes[i + 1]

SpanOf(pool, i) == pool.spans[i + 1]

ChildrenOf(pool, i) ==
    SubSeq(pool.children, NodeAt(pool, i).begin + 1,
                          NodeAt(pool, i).begin + NodeAt(pool, i).count)
=============================================================================
