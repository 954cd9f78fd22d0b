------------------------------- MODULE Lexer -------------------------------
(***************************************************************************)
(* eter::lexer::Lexer::lex over a window of a buffer, and the TokenStream  *)
(* made of what it returns.  A pointer of the code is the number of bytes  *)
(* before it; a token's text is what its span covers, so keywords are not  *)
(* told apart.                                                             *)
(*                                                                         *)
(* One action per branch of the loop.  A literal or a block comment that   *)
(* has been entered takes one step per round of its own loop, and so does  *)
(* the constructor of TokenStream: `routine` says which loop is running.   *)
(***************************************************************************)
EXTENDS Integers, Sequences, FiniteSets

CONSTANTS
    Buffers,            \* the buffers to lex: sequences of bytes
    Letter,             \* the bytes that are letters
    Continuation,       \* the bytes 10xxxxxx
    Keyword,            \* sequences of letters
    ReservedKeyword

ASSUME BufferAssumption == \A b \in Buffers : b \in Seq(STRING)

VARIABLES
    buffer, first, last,    \* the arguments: the buffer and the span to lex
    cur,                    \* CurPtr
    routine,                \* "loop", "string", "char", "block", "done",
                            \* "building", "stream"
    tokStart,               \* TokStart of the routine that is running
    depth,                  \* NestingDepth
    charCount,              \* CharCount
    items,                  \* LexerItems
    tokens, lexErrors,      \* the TokenStream
    taken,                  \* how many items its constructor has been through
    heads,                  \* where the loop began its rounds (history)
    whole                   \* what lexing the whole buffer returned (history)

arguments == <<buffer, first, last>>
scan == <<tokStart, depth, charCount>>
stream == <<tokens, lexErrors, taken>>
vars == <<arguments, cur, routine, scan, items, stream, heads, whole>>

-----------------------------------------------------------------------------
(* Bytes.                                                                  *)

Digit == {"0", "1", "2", "3", "4", "5", "6", "7", "8", "9"}
HexDigit == Digit \cup {"a", "b", "c", "d", "e", "f", "A", "B", "C", "D", "E", "F"}
LineEnd == {"\n", "\r"}
Whitespace == {" ", "\t"} \cup LineEnd
NameChar == Letter \cup Digit \cup {"_"}

\* A byte begins a name, a number, a literal or a comment, and only one of them.
ASSUME LetterAssumption == Letter \cap (Digit \cup {"\"", "'", "/"}) = {}

Symbol ==
    {<<c>> : c \in {"(", ")", "{", "}", "[", "]", ",", ";", ":", "+", "-", "*", "/",
                    "%", "&", "|", "^", "<", ">", "=", "!", ".", "?", "@"}}
    \cup {<<c, "=">> : c \in {"+", "-", "*", "/", "%", "&", "|", "^", "<", ">", "=", "!"}}
    \cup {<<c, c>> : c \in {":", "+", "-", "&", "|", "<", ">"}}
    \cup {<<c, ">">> : c \in {"-", "="}}
    \cup {<<c, c, "=">> : c \in {"<", ">"}}

CharAt(i) == buffer[i + 1]
CharIn(i, chars) == i < last /\ CharAt(i) \in chars
Text(from, to) == SubSeq(buffer, from + 1, to)

\* The first place from i on, or the end, where no byte of the kind stands; and
\* where one does.
SkipOver(i, chars) ==
    CHOOSE j \in i..last : /\ ~CharIn(j, chars)
                           /\ \A k \in i..(j - 1) : CharIn(k, chars)
SkipUntil(i, chars) ==
    CHOOSE j \in i..last : /\ j = last \/ CharIn(j, chars)
                           /\ \A k \in i..(j - 1) : ~CharIn(k, chars)

\* The token begins behind the white space.
TokStart == SkipOver(cur, Whitespace)
Begins(chars) == routine = "loop" /\ CharIn(TokStart, chars)

-----------------------------------------------------------------------------
(* Items.                                                                  *)

Token(kind, from, to) == [error |-> FALSE, kind |-> kind, span |-> <<from, to>>]
Error(kind, from, to) == [error |-> TRUE, kind |-> kind, span |-> <<from, to>>]

\* The loop goes on at `to` after the items.
Emit(its, to) ==
    /\ items' = items \o its
    /\ cur' = to
    /\ routine' = "loop"
    /\ heads' = heads \cup {to}
    /\ UNCHANGED <<arguments, scan, stream, whole>>

\* Mistake: the characters of the literal before are still counted.
EnterCounting(loop, delimiter) ==
    /\ routine' = loop
    /\ tokStart' = TokStart
    /\ cur' = TokStart + delimiter
    /\ depth' = 1
    /\ UNCHANGED <<arguments, charCount, items, stream, heads, whole>>

\* A loop of its own begins behind the opening delimiter.
Enter(loop, delimiter) ==
    /\ routine' = loop
    /\ tokStart' = TokStart
    /\ cur' = TokStart + delimiter
    /\ depth' = 1
    /\ charCount' = 0
    /\ UNCHANGED <<arguments, items, stream, heads, whole>>

-----------------------------------------------------------------------------
(* lex begins and ends.                                                    *)

\* The whole buffer is lexed first, or a span that ends behind it.
Init ==
    /\ buffer \in Buffers
    /\ first = 0
    /\ last \in {Len(buffer), Len(buffer) + 1}
    /\ cur = 0
    /\ routine = "loop"
    /\ tokStart = 0 /\ depth = 0 /\ charCount = 0
    /\ items = <<>>
    /\ tokens = <<>> /\ lexErrors = <<>> /\ taken = 0
    /\ heads = {0}
    /\ whole = <<>>

InvalidSpan == first > Len(buffer) \/ last > Len(buffer) \/ first > last

RejectSpan ==
    /\ routine = "loop"
    /\ InvalidSpan
    /\ routine' = "done"
    /\ UNCHANGED <<arguments, cur, scan, items, stream, heads, whole>>

EndOfFile == <<Token("eof", Len(buffer), Len(buffer))>>

Finish ==
    /\ routine = "loop"
    /\ ~InvalidSpan
    /\ TokStart = last
    /\ cur' = last
    /\ routine' = "done"
    /\ items' = items \o IF first = 0 /\ last = Len(buffer) THEN EndOfFile ELSE <<>>
    /\ UNCHANGED <<arguments, scan, stream, heads, whole>>

-----------------------------------------------------------------------------
(* Names and numbers.                                                      *)

LexIdentifier ==
    /\ ~InvalidSpan
    /\ Begins(Letter \cup {"_"})
    /\ LET end == SkipOver(TokStart + 1, NameChar)
           text == Text(TokStart, end)
       IN  Emit(<<CASE text \in ReservedKeyword -> Error("ReservedKeyword", TokStart, end)
                    [] text \in Keyword -> Token("keyword", TokStart, end)
                    [] OTHER -> Token("identifier", TokStart, end)>>, end)

IsHex == CharAt(TokStart) = "0" /\ CharIn(TokStart + 1, {"x", "X"})
DigitsStart == IF IsHex THEN TokStart + 2 ELSE TokStart + 1
NumberDigit == IF IsHex THEN HexDigit ELSE Digit

\* The digits of the integer part, up to a second underscore in a row.
DigitsEnd ==
    LET end == SkipOver(DigitsStart, NumberDigit \cup {"_"})
        doubled == {k \in (DigitsStart + 1)..(end - 1) :
                        CharAt(k - 1) = "_" /\ CharAt(k) = "_"}
    IN  IF doubled = {} THEN end
        ELSE CHOOSE k \in doubled : \A l \in doubled : k <= l

Doubled(end) == end > DigitsStart /\ CharAt(end - 1) = "_" /\ CharIn(end, {"_"})

\* Consecutive underscores end the literal before its span has been set.
LexDoubledUnderscore ==
    /\ ~InvalidSpan
    /\ Begins(Digit)
    /\ Doubled(DigitsEnd)
    /\ Emit(<<Error("InvalidNumericLiteral", 0, 0)>>, DigitsEnd)

\* A fraction, if a digit follows the point, or a bare suffix f; 0 for neither.
FloatEnd(end) ==
    LET fraction == SkipOver(end + 1, Digit \cup {"_"})
    IN  CASE IsHex -> 0
          [] ~IsHex /\ CharIn(end, {"."}) /\ CharIn(end + 1, Digit) ->
                 IF CharIn(fraction, {"f"}) THEN fraction + 1 ELSE fraction
          [] ~IsHex /\ CharIn(end, {"f"}) -> end + 1
          [] OTHER -> 0

LexFloat ==
    /\ ~InvalidSpan
    /\ Begins(Digit)
    /\ ~Doubled(DigitsEnd)
    /\ FloatEnd(DigitsEnd) # 0
    /\ Emit(<<Token("float_literal", TokStart, FloatEnd(DigitsEnd))>>,
            FloatEnd(DigitsEnd))

\* Without a digit behind 0x, or with an underscore at the end, it is invalid.
ValidInteger(end) ==
    /\ IsHex => \E k \in DigitsStart..(end - 1) : CharAt(k) \in HexDigit
    /\ CharAt(end - 1) # "_"

LexInteger ==
    /\ ~InvalidSpan
    /\ Begins(Digit)
    /\ ~Doubled(DigitsEnd)
    /\ FloatEnd(DigitsEnd) = 0
    /\ Emit(<<IF ValidInteger(DigitsEnd)
              THEN Token("integer_literal", TokStart, DigitsEnd)
              ELSE Error("InvalidNumericLiteral", TokStart, DigitsEnd)>>,
            DigitsEnd)

-----------------------------------------------------------------------------
(* Strings and characters.                                                 *)

LexQuote ==
    /\ ~InvalidSpan
    /\ \/ Begins({"\""}) /\ Enter("string", 1)
       \/ Begins({"'"}) /\ Enter("char", 1)

InLiteral == routine \in {"string", "char"}
Quote == IF routine = "string" THEN "\"" ELSE "'"
Unterminated(to) ==
    Error(IF routine = "string" THEN "UnterminatedStringLiteral"
          ELSE "UnterminatedCharLiteral", tokStart, to)

\* The literal goes on at `to`, with so many characters more.
GoOn(to, chars, its) ==
    /\ cur' = to
    /\ charCount' = charCount + chars
    /\ items' = items \o its
    /\ UNCHANGED <<arguments, routine, tokStart, depth, stream, heads, whole>>

\* The window ends, or a line does; its delimiter is consumed.
CutOff ==
    /\ InLiteral
    /\ cur = last \/ CharIn(cur, LineEnd)
    /\ LET end == IF cur = last THEN cur ELSE cur + 1
       IN  Emit(<<Unterminated(end)>>, end)

CloseQuote ==
    /\ InLiteral
    /\ CharIn(cur, {Quote})
    /\ Emit(<<CASE routine = "string" -> Token("string_literal", tokStart, cur + 1)
                [] routine = "char" /\ charCount = 1 ->
                       Token("char_literal", tokStart, cur + 1)
                [] routine = "char" /\ charCount = 0 ->
                       Error("EmptyCharLiteral", tokStart, cur + 1)
                [] OTHER -> Error("MultiCharCharLiteral", tokStart, cur + 1)>>,
            cur + 1)

\* A continuation byte belongs to the character before.
PlainChar ==
    /\ InLiteral
    /\ cur < last
    /\ CharAt(cur) \notin LineEnd \cup {Quote, "\\"}
    /\ GoOn(cur + 1, IF CharAt(cur) \in Continuation THEN 0 ELSE 1, <<>>)

\* A backslash is the last byte.
EscapeCutOff ==
    /\ InLiteral
    /\ CharIn(cur, {"\\"})
    /\ cur + 1 = last
    /\ Emit(<<Error("InvalidEscapeSequence", cur, last), Unterminated(last)>>, last)

AtUnicodeEscape == CharIn(cur + 1, {"u"}) /\ CharIn(cur + 2, {"{"})

\* lexUnicodeEscape: \u{ hex digits }.
UnicodeEscape ==
    /\ InLiteral
    /\ CharIn(cur, {"\\"})
    /\ AtUnicodeEscape
    /\ LET digits == SkipOver(cur + 3, HexDigit)
           closed == CharIn(digits, {"}"})
           end == IF closed THEN digits + 1 ELSE digits
       IN  GoOn(end, 1,
                IF closed /\ digits > cur + 3 THEN <<>>
                ELSE <<Error("InvalidUnicodeEscape", cur, end)>>)

\* Any other byte is consumed with the backslash, a new line too.
SimpleEscape ==
    /\ InLiteral
    /\ CharIn(cur, {"\\"})
    /\ cur + 1 < last
    /\ ~AtUnicodeEscape
    /\ GoOn(cur + 2, 1,
            IF CharAt(cur + 1) \in {"n", "t", "r", "0", "\\", "\"", "'"} THEN <<>>
            ELSE <<Error("InvalidEscapeSequence", cur, cur + 2)>>)

-----------------------------------------------------------------------------
(* Comments and symbols.                                                   *)

LexLineComment ==
    /\ ~InvalidSpan
    /\ Begins({"/"})
    /\ CharIn(TokStart + 1, {"/"})
    /\ LET slashes == SkipOver(TokStart, {"/"})
           kind == CASE slashes = TokStart + 3 -> "doc_comment"
                     [] slashes = TokStart + 2 /\ CharIn(slashes, {"!"}) ->
                            "file_doc_comment"
                     [] OTHER -> "comment"
           end == SkipUntil(slashes, LineEnd)
       IN  Emit(<<Token(kind, TokStart, end)>>, end)

EnterBlockComment ==
    /\ ~InvalidSpan
    /\ Begins({"/"})
    /\ CharIn(TokStart + 1, {"*"})
    /\ Enter("block", 2)

\* Mistake: the last byte is not consumed.
BlockCommentStays ==
    /\ routine = "block"
    /\ cur < last /\ depth > 0
    /\ LET opens == CharIn(cur, {"/"}) /\ CharIn(cur + 1, {"*"})
           closes == CharIn(cur, {"*"}) /\ CharIn(cur + 1, {"/"})
       IN  /\ depth' = CASE opens -> depth + 1 [] closes -> depth - 1 [] OTHER -> depth
           /\ cur' = CASE opens \/ closes -> cur + 2
                       [] ~(opens \/ closes) /\ cur + 1 < last -> cur + 1
                       [] OTHER -> cur
    /\ UNCHANGED <<arguments, routine, tokStart, charCount, items, stream, heads, whole>>

BlockComment ==
    /\ routine = "block"
    /\ cur < last /\ depth > 0
    /\ LET opens == CharIn(cur, {"/"}) /\ CharIn(cur + 1, {"*"})
           closes == CharIn(cur, {"*"}) /\ CharIn(cur + 1, {"/"})
       IN  /\ depth' = CASE opens -> depth + 1 [] closes -> depth - 1 [] OTHER -> depth
           /\ cur' = IF opens \/ closes THEN cur + 2 ELSE cur + 1
    /\ UNCHANGED <<arguments, routine, tokStart, charCount, items, stream, heads, whole>>

\* One that is not closed is a comment all the same, behind its error.
EndBlockComment ==
    /\ routine = "block"
    /\ cur = last \/ depth = 0
    /\ Emit((IF depth > 0 THEN <<Error("UnterminatedBlockComment", tokStart, cur)>>
             ELSE <<>>) \o <<Token("comment", tokStart, cur)>>, cur)

\* Mistake: a byte that begins nothing is passed over.
LexSymbolSkipping ==
    /\ ~InvalidSpan
    /\ routine = "loop"
    /\ TokStart < last
    /\ CharAt(TokStart) \notin NameChar \cup {"\"", "'"}
    /\ CharAt(TokStart) = "/" => ~CharIn(TokStart + 1, {"/", "*"})
    /\ LET ends == {end \in (TokStart + 1)..last : Text(TokStart, end) \in Symbol}
           longest == CHOOSE end \in ends : \A e \in ends : e <= end
       IN  IF ends = {} THEN Emit(<<>>, TokStart + 1)
           ELSE Emit(<<Token("symbol", TokStart, longest)>>, longest)

\* No symbol is reserved.  The switch takes the longest one.
LexSymbol ==
    /\ ~InvalidSpan
    /\ routine = "loop"
    /\ TokStart < last
    /\ CharAt(TokStart) \notin NameChar \cup {"\"", "'"}
    /\ CharAt(TokStart) = "/" => ~CharIn(TokStart + 1, {"/", "*"})
    /\ LET ends == {end \in (TokStart + 1)..last : Text(TokStart, end) \in Symbol}
           longest == CHOOSE end \in ends : \A e \in ends : e <= end
       IN  IF ends = {}
           THEN Emit(<<Error("InvalidCharacter", TokStart, TokStart + 1)>>, TokStart + 1)
           ELSE Emit(<<Token("symbol", TokStart, longest)>>, longest)
-----------------------------------------------------------------------------
(* What the items become, and a second call.                               *)

\* The constructor of TokenStream begins.
BuildStream ==
    /\ routine = "done"
    /\ whole = <<>>
    /\ routine' = "building"
    /\ UNCHANGED <<arguments, cur, scan, items, stream, heads, whole>>

Kept(it) == it.error \/ it.kind # "comment"
Taken(it) == [kind |-> IF it.error THEN "unknown" ELSE it.kind, span |-> it.span]

\* Mistake: an error has no place among the tokens.
TakeItemWithoutErrors ==
    /\ routine = "building"
    /\ taken < Len(items)
    /\ LET it == items[taken + 1]
       IN  /\ tokens' = IF Kept(it) /\ ~it.error THEN Append(tokens, Taken(it)) ELSE tokens
           /\ lexErrors' = IF it.error THEN Append(lexErrors, it) ELSE lexErrors
    /\ taken' = taken + 1
    /\ UNCHANGED <<arguments, cur, routine, scan, items, heads, whole>>

\* Comments are dropped, but for doc comments; an error leaves an unknown token.
TakeItem ==
    /\ routine = "building"
    /\ taken < Len(items)
    /\ LET it == items[taken + 1]
       IN  /\ tokens' = IF Kept(it) THEN Append(tokens, Taken(it)) ELSE tokens
           /\ lexErrors' = IF it.error THEN Append(lexErrors, it) ELSE lexErrors
    /\ taken' = taken + 1
    /\ UNCHANGED <<arguments, cur, routine, scan, items, heads, whole>>

EndStream ==
    /\ routine = "building"
    /\ taken = Len(items)
    /\ routine' = "stream"
    /\ UNCHANGED <<arguments, cur, scan, items, stream, heads, whole>>

\* Another call of lex, with a span between two places where the loop has been,
\* in either order.
Relex ==
    /\ routine = "done"
    /\ whole = <<>> /\ ~InvalidSpan
    /\ \E from, to \in heads :
           /\ <<from, to>> # <<0, Len(buffer)>>
           /\ first' = from /\ last' = to /\ cur' = from
    /\ whole' = items
    /\ items' = <<>>
    /\ tokStart' = 0 /\ depth' = 0 /\ charCount' = 0
    /\ routine' = "loop"
    /\ UNCHANGED <<buffer, stream, heads>>

Next ==
    \/ RejectSpan \/ Finish
    \/ LexIdentifier \/ LexDoubledUnderscore \/ LexFloat \/ LexInteger
    \/ LexQuote \/ CutOff \/ CloseQuote \/ PlainChar
    \/ EscapeCutOff \/ UnicodeEscape \/ SimpleEscape
    \/ LexLineComment \/ EnterBlockComment \/ BlockComment \/ EndBlockComment
    \/ LexSymbol
    \/ BuildStream \/ TakeItem \/ EndStream
    \/ Relex

Spec == Init /\ [][Next]_vars /\ WF_vars(Next)

-----------------------------------------------------------------------------
(* Properties.                                                             *)

Covers(it, i) == it.span[1] <= i /\ i < it.span[2]
Items == {items[k] : k \in DOMAIN items}
Misplaced(its) ==
    \E k \in DOMAIN its : its[k] = Error("InvalidNumericLiteral", 0, 0)

\* The pointer and every span stay inside the window (lexStringLiteral,
\* lexComment, lexUnicodeEscape look one or two bytes ahead).
TypeOK ==
    /\ routine \in {"loop", "string", "char", "block", "done", "building", "stream"}
    /\ InvalidSpan \/ cur \in first..last
    /\ \A it \in Items :
           /\ it.error \in BOOLEAN
           /\ it.span[1] <= it.span[2] /\ it.span[2] <= cur
           /\ Misplaced(items) \/ it.span[1] >= first
    /\ depth \in Nat /\ charCount \in Nat

\* Every round of every loop of lex consumes (the while loops of lex,
\* lexStringLiteral, lexCharacterLiteral and lexComment), so a call returns.
LexEnds == <>(routine \in {"done", "stream"})

\* What the lexer does not turn into a token or an error is white space: no byte
\* gets lost, whichever literal, escape or comment is cut off before it
\* (Lexer.cpp:619 and :694, the token or error still covers what was read).
\* A number with two underscores in a row is the exception (see ErrorsLocated).
NothingSkipped ==
    routine = "done" /\ ~InvalidSpan /\ ~Misplaced(items) =>
        \A i \in first..(last - 1) :
            (\E it \in Items : Covers(it, i)) \/ CharAt(i) \in Whitespace

\* The parser sees the text once and in order: the tokens it knows follow one
\* another without overlap, between them an unknown one stands for each error,
\* which lies behind the token before, and eof comes last (TokenStream.cpp:15-38).
\* (The order is lost with a number that has two underscores in a row.)
StreamInOrder ==
    routine = "stream" /\ ~InvalidSpan =>
        LET end == tokens[Len(tokens)]
        IN  /\ end = [kind |-> "eof", span |-> <<last, last>>]
            /\ \A k \in 1..(Len(tokens) - 1) : tokens[k].kind # "eof"
            /\ Len(lexErrors) =
                   Cardinality({k \in DOMAIN tokens : tokens[k].kind = "unknown"})
            /\ Misplaced(items) \/ \A j, k \in DOMAIN tokens :
                   j < k /\ tokens[j].kind # "unknown" =>
                       tokens[j].span[2] <= tokens[k].span[1]

\* Lexer.h:102-103 the range form of lex "allows the caller to re-lex only the
\* spans of text that have been modified": lexed alone, the text between two
\* places where a token begins or ends yields the items it yielded in the whole:
\* those, and no others, whose spans lie there.  (Not if the whole has a number with
\* two underscores in a row: its error has no place.)
RelexAgrees ==
    routine = "done" /\ whole # <<>> /\ ~Misplaced(whole) =>
        \E n \in 0..(Len(whole) - Len(items)) :
            /\ \A k \in DOMAIN items : items[k] = whole[n + k]
            /\ \A k \in DOMAIN whole :
                   k \in (n + 1)..(n + Len(items)) <=>
                       /\ first <= whole[k].span[1] /\ whole[k].span[2] <= last
                       /\ whole[k].kind # "eof"

\* Lexer.h:24 a LexerError has "the source span where it occurred".
ErrorsLocated == \A it \in Items : it.error => it.span[1] < it.span[2]
=============================================================================
