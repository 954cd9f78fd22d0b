--------------------------- MODULE SourceManager ---------------------------
(***************************************************************************)
(* eter::SourceManager: the line index of one buffer, built once by the    *)
(* constructor, and the resolution of byte offsets to lines and columns,   *)
(* memoised by offset.                                                     *)
(*                                                                         *)
(* A buffer is a sequence of characters of which only line ends matter;    *)
(* offsets count from 0, lines and columns from 1.  LineStarts is scanned  *)
(* from left to right: `scanned` characters have been looked at.           *)
(***************************************************************************)
EXTENDS Integers, Sequences, FiniteSets

CONSTANT Buffers        \* the contents of files

Char == {"newline", "other"}

ASSUME BufferAssumption == \A b \in Buffers : b \in Seq(Char)

VARIABLES
    buf,            \* Buffer
    LineStarts,     \* the offset of the first character of each line
    scanned,        \* the loop variable of buildLineIndex
    Cache           \* offset -> location, for the offsets asked for so far

smVars == <<buf, LineStarts, scanned, Cache>>

Size == Len(buf)
Newlines == {o \in 0..(Size - 1) : buf[o + 1] = "newline"}
IndexBuilt == scanned = Size

-----------------------------------------------------------------------------
(* The constructor.                                                        *)

SMInit(buffer) ==
    /\ buf = buffer
    /\ LineStarts = <<0>>
    /\ scanned = 0
    /\ Cache = [o \in {} |-> o]

\* One character of buildLineIndex.
Scan ==
    /\ ~IndexBuilt
    /\ LineStarts' = IF scanned \in Newlines THEN Append(LineStarts, scanned + 1)
                     ELSE LineStarts
    /\ scanned' = scanned + 1
    /\ UNCHANGED <<buf, Cache>>

-----------------------------------------------------------------------------
(* Locations.                                                              *)

\* std::upper_bound: the first position of a sorted sequence with a value
\* greater than x, or the one behind its end.
UpperBound(seq, x) ==
    CHOOSE k \in 1..(Len(seq) + 1) :
        /\ \A j \in 1..(k - 1) : seq[j] <= x
        /\ k <= Len(seq) => seq[k] > x

\* Mistake: std::lower_bound.
LocateBefore(offset) ==
    LET earlier == {k \in DOMAIN LineStarts : LineStarts[k] < offset}
        line == IF earlier = {} THEN 1 ELSE Cardinality(earlier)
    IN  [line |-> line, column |-> offset - LineStarts[line] + 1]

\* The line before the first one that starts behind the offset.
Locate(offset) ==
    LET line == UpperBound(LineStarts, offset) - 1
    IN  [line |-> line, column |-> offset - LineStarts[line] + 1]

getLocation(offset) ==
    IF offset \in DOMAIN Cache THEN Cache[offset] ELSE Locate(offset)

\* Each answer is kept.
Remember(offsets) ==
    Cache' = [o \in DOMAIN Cache \cup offsets |-> getLocation(o)]

-----------------------------------------------------------------------------
(* What a location is, by counting line ends.                              *)

LineOf(offset) == 1 + Cardinality({o \in Newlines : o < offset})

\* The offset of the first character of the line an offset is in.
LineStartOf(offset) ==
    CHOOSE s \in 0..offset :
        /\ s = 0 \/ s - 1 \in Newlines
        /\ \A o \in s..(offset - 1) : o \notin Newlines

LocationOf(offset) ==
    [line |-> LineOf(offset), column |-> offset - LineStartOf(offset) + 1]

\* A location is the same however it is come by: by the binary search over the
\* index or from the cache, at the first and the last character of a line, at
\* the end of the buffer and behind it, whatever was asked before
\* (SourceManager.cpp:39-56).
CacheTruthful == \A o \in DOMAIN Cache : Cache[o] = LocationOf(o)
=============================================================================
