-------------------------- MODULE DiagnosticEngine --------------------------
(***************************************************************************)
(* Diagnostics from their builder to the terminal (Base/DiagnosticEngine): *)
(* a SimpleDiagnosticEngine buffers those that come before there is a      *)
(* source manager, withSourceManager hands them to a DiagnosticEngine,     *)
(* which collects more, and printAll prints them with snippets.            *)
(*                                                                         *)
(* The output is the sequence `out` of printed lines: titles, places,      *)
(* borders, text and mark lines of snippets, notes, helps, the ICE banner. *)
(* Messages are opaque; colours and indentation are left out.              *)
(***************************************************************************)
EXTENDS SourceManager

CONSTANTS
    Radix,      \* 10: the base in which line numbers are printed
    Scripts     \* what the phases report: records [buffer, simple, direct], the
                \* diagnostics emitted without and with a source manager

VARIABLES
    phase,          \* what runs: see Phase
    Simple,         \* SimpleDiagnosticEngine::Diagnostics
    Diagnostics,    \* DiagnosticEngine::Diagnostics
    script,         \* what the phases report
    emitted,        \* how much of it has been, without or with a source manager
    current,        \* the diagnostic that print is at
    labels,         \* how many of its labels have been printed
    sn,             \* the local variables of printSnippet
    out             \* the lines printed so far

deVars == <<phase, Simple, Diagnostics, script, emitted, current, labels, sn, out>>
vars == <<smVars, deVars>>

Phase == {"simple", "index", "engine", "title", "main", "lines", "labels", "done"}

-----------------------------------------------------------------------------
(* Diagnostics and DiagnosticBuilder.                                      *)

Level == {"error", "warning", "note"}
NoLocation == [kind |-> "None", from |-> 0, to |-> 0]
FileLocation == [NoLocation EXCEPT !.kind = "File"]
SpanLocation(from, to) == [kind |-> "Span", from |-> from, to |-> to]

Builder(level, ice) ==
    [level |-> level, ice |-> ice, message |-> "", location |-> NoLocation,
     labels |-> <<>>, notes |-> <<>>, helps |-> <<>>]

error == Builder("error", FALSE)
warning == Builder("warning", FALSE)
note == Builder("note", FALSE)
ice == Builder("error", TRUE)

At(d, from, to) == [d EXCEPT !.location = SpanLocation(from, to)]
AtFile(d) == [d EXCEPT !.location = FileLocation]
Message(d, text) == [d EXCEPT !.message = text]
Label(d, from, to, text) ==
    [d EXCEPT !.labels = Append(@, [from |-> from, to |-> to, text |-> text])]
Note(d, text) == [d EXCEPT !.notes = Append(@, text)]
Help(d, text) == [d EXCEPT !.helps = Append(@, text)]

Title(d) == IF d.ice THEN "internal compiler error" ELSE d.level

Span == [from : Nat, to : Nat]
Location == [kind : {"None", "File", "Span"}, from : Nat, to : Nat]
Diagnostic ==
    [level : Level, ice : BOOLEAN, message : STRING, location : Location,
     labels : Seq([from : Nat, to : Nat, text : STRING]),
     notes : Seq(STRING), helps : Seq(STRING)]

ASSUME ScriptAssumption ==
    \A s \in Scripts : /\ s.buffer \in Buffers
                       /\ s.simple \in Seq(Diagnostic)
                       /\ s.direct \in Seq(Diagnostic)

-----------------------------------------------------------------------------
(* Helpers of printSnippet.                                                *)

Least(a, b) == IF a < b THEN a ELSE b

ASSUME RadixAssumption == Radix \in Nat \ {0, 1}

\* How many digits a number has.
digitWidth[n \in Nat] == IF n < Radix THEN 1 ELSE 1 + digitWidth[n \div Radix]

\* Mistake: rfind is taken to look at the character at the offset as well.
findLineStartInclusive(off) ==
    LET earlier == {o \in Newlines : o <= off}
    IN  IF off = 0 \/ earlier = {} THEN 0
        ELSE 1 + CHOOSE o \in earlier : \A p \in earlier : p <= o

\* Behind the last line end before the offset.
findLineStart(off) ==
    LET earlier == {o \in Newlines : o < Least(off, Size)}
    IN  IF earlier = {} THEN 0
        ELSE 1 + CHOOSE o \in earlier : \A p \in earlier : p <= o

\* The first line end at or behind the offset, or the end of the buffer.
findLineEnd(off) ==
    LET later == {o \in Newlines : off <= o}
    IN  IF later = {} THEN Size ELSE CHOOSE o \in later : \A p \in later : o <= p

countLines == IF Size = 0 THEN 0 ELSE 1 + Cardinality(Newlines)

-----------------------------------------------------------------------------
(* The lines of the output.                                                *)

TitleRow(d) == [row |-> "title", title |-> Title(d), message |-> d.message]
FileRow == [row |-> "file"]
PlaceRow(location) ==
    [row |-> "place", line |-> location.line, column |-> location.column]
BorderRow(gutter) == [row |-> "border", gutter |-> gutter]
TextRow(line, from, to, pad) ==
    [row |-> "text", line |-> line, from |-> from, to |-> to, pad |-> pad]
MarkRow(line, from, width, mark, caption) ==
    [row |-> "mark", line |-> line, from |-> from, width |-> width,
     mark |-> mark, caption |-> caption]
NoteRow(text) == [row |-> "note", text |-> text]
HelpRow(text) == [row |-> "help", text |-> text]
IceRow == [row |-> "ice"]
RowsOf(texts, Row(_)) == [k \in DOMAIN texts |-> Row(texts[k])]

-----------------------------------------------------------------------------
(* Collecting.                                                             *)

NoSnippet == [line |-> 0, off |-> 0, startLine |-> 0, endLine |-> 0,
              startCol |-> 0, endCol |-> 0, last |-> 0, gutter |-> 0,
              mark |-> "^", caption |-> "", skip |-> 0]

Init ==
    \E s \in Scripts :
        /\ SMInit(s.buffer)
        /\ phase = "simple"
        /\ Simple = <<>>
        /\ Diagnostics = <<>>
        /\ script = s
        /\ emitted = 0
        /\ current = 0
        /\ labels = 0
        /\ sn = NoSnippet
        /\ out = <<>>

\* SimpleDiagnosticEngine::emit.
EmitSimple ==
    /\ phase = "simple"
    /\ emitted < Len(script.simple)
    /\ Simple' = Append(Simple, script.simple[emitted + 1])
    /\ emitted' = emitted + 1
    /\ UNCHANGED <<smVars, phase, Diagnostics, script, current, labels, sn, out>>

\* The buffer has been read: the source manager is made.
MakeSourceManager ==
    /\ phase = "simple"
    /\ emitted = Len(script.simple)
    /\ phase' = "index"
    /\ emitted' = 0
    /\ UNCHANGED <<smVars, Simple, Diagnostics, script, current, labels, sn, out>>

BuildLineIndex ==
    /\ phase = "index"
    /\ Scan
    /\ UNCHANGED deVars

\* Mistake: only the last of them is handed over.
WithSourceManagerLast ==
    /\ phase = "index"
    /\ IndexBuilt
    /\ phase' = "engine"
    /\ Diagnostics' = IF Simple = <<>> THEN <<>> ELSE <<Simple[Len(Simple)]>>
    /\ Simple' = <<>>
    /\ UNCHANGED <<smVars, script, emitted, current, labels, sn, out>>

\* Every diagnostic is moved over, and the simple engine is no more.
WithSourceManager ==
    /\ phase = "index"
    /\ IndexBuilt
    /\ phase' = "engine"
    /\ Diagnostics' = Simple
    /\ Simple' = <<>>
    /\ UNCHANGED <<smVars, script, emitted, current, labels, sn, out>>

\* DiagnosticEngine::emit.
Emit ==
    /\ phase = "engine"
    /\ emitted < Len(script.direct)
    /\ Diagnostics' = Append(Diagnostics, script.direct[emitted + 1])
    /\ emitted' = emitted + 1
    /\ UNCHANGED <<smVars, phase, Simple, script, current, labels, sn, out>>

PrintAll ==
    /\ phase = "engine"
    /\ emitted = Len(script.direct)
    /\ phase' = "title"
    /\ current' = 1
    /\ UNCHANGED <<smVars, Simple, Diagnostics, script, emitted, labels, sn, out>>

-----------------------------------------------------------------------------
(* Printing.                                                               *)

Now == Diagnostics[current]
HasSpan(d) == d.location.kind = "Span"
Write(rows) == out' = out \o rows

\* The title and the place of a diagnostic.
PrintTitle ==
    /\ phase = "title"
    /\ current <= Len(Diagnostics)
    /\ phase' = IF HasSpan(Now) THEN "main" ELSE "labels"
    /\ labels' = 0
    /\ IF HasSpan(Now) THEN Remember({Now.location.from}) ELSE UNCHANGED Cache
    /\ Write(<<TitleRow(Now)>>
             \o CASE Now.location.kind = "None" -> <<>>
                  [] Now.location.kind = "File" -> <<FileRow>>
                  [] Now.location.kind = "Span" ->
                         <<PlaceRow(getLocation(Now.location.from))>>)
    /\ UNCHANGED <<buf, LineStarts, scanned, Simple, Diagnostics, script, emitted, current, sn>>

\* Mistake: the loop over the diagnostics takes one more round.
PrintedAllLate ==
    /\ phase = "title"
    /\ current > Len(Diagnostics) + 1
    /\ phase' = "done"
    /\ UNCHANGED <<smVars, Simple, Diagnostics, script, emitted, current, labels, sn, out>>

PrintedAll ==
    /\ phase = "title"
    /\ current > Len(Diagnostics)
    /\ phase' = "done"
    /\ UNCHANGED <<smVars, Simple, Diagnostics, script, emitted, current, labels, sn, out>>

\* The span as printSnippet cuts it to the buffer.
Start(span) == Least(span.from, Size)
End(span) == IF Least(span.to, Size) < Start(span) THEN Start(span)
             ELSE Least(span.to, Size)

\* Mistake: the gutter is as wide as the last line of the span needs.
SnippetNarrow(span, context, mark, caption, skip) ==
    LET first == getLocation(Start(span))
        final == getLocation(End(span))
        before == context /\ first.line > 1
        own == findLineStart(Start(span))
    IN  [line |-> IF before THEN first.line - 1 ELSE first.line,
         off |-> IF before /\ own # 0 THEN findLineStart(own - 1) ELSE own,
         startLine |-> first.line, endLine |-> final.line,
         startCol |-> first.column, endCol |-> final.column,
         last |-> Least(countLines, final.line + 1),
         gutter |-> digitWidth[final.line],
         mark |-> mark, caption |-> caption, skip |-> skip]

\* printSnippet up to its loop, for a buffer that is not empty: a line of context
\* before the span, if there is one and it is wanted, and one behind it.
Snippet(span, context, mark, caption, skip) ==
    LET first == getLocation(Start(span))
        final == getLocation(End(span))
        before == context /\ first.line > 1
        last == Least(countLines, final.line + 1)
        own == findLineStart(Start(span))
    IN  [line |-> IF before THEN first.line - 1 ELSE first.line,
         off |-> IF before /\ own # 0 THEN findLineStart(own - 1) ELSE own,
         startLine |-> first.line, endLine |-> final.line,
         startCol |-> first.column, endCol |-> final.column,
         last |-> last, gutter |-> digitWidth[last],
         mark |-> mark, caption |-> caption, skip |-> skip]

\* Nothing is printed of an empty buffer.
OpenSnippet(span, border, context, mark, caption, skip) ==
    IF Size = 0 THEN
        /\ phase' = "labels"
        /\ UNCHANGED <<sn, out>>
    ELSE LET s == Snippet(span, context, mark, caption, skip)
         IN  /\ phase' = "lines"
             /\ sn' = s
             /\ Write(IF border THEN <<BorderRow(s.gutter)>> ELSE <<>>)

MainCaption == IF Now.helps = <<>> THEN "" ELSE Head(Now.helps)

\* The snippet of the diagnostic itself.  Behind it the end of the span is looked
\* up for the line at which the labels go on.
MainSnippet ==
    /\ phase = "main"
    /\ OpenSnippet(Now.location, TRUE, TRUE, "^", MainCaption, 0)
    /\ Remember({Now.location.to} \cup IF Size = 0 THEN {}
                ELSE {Start(Now.location), End(Now.location)})
    /\ UNCHANGED <<buf, LineStarts, scanned, Simple, Diagnostics, script,
                   emitted, current, labels>>

\* Mistake: the line of context is forgotten.
MainCtxEndLineOfSpan == Least(countLines, getLocation(Now.location.to).line)

\* The last line of the main snippet, which has been printed.
MainCtxEndLine == Least(countLines, getLocation(Now.location.to).line + 1)

\* The snippet of the next label goes on where the main one ended; without a main
\* one it stands by itself.
LabelSnippet ==
    /\ phase = "labels"
    /\ labels < Len(Now.labels)
    /\ LET label == Now.labels[labels + 1]
       IN  /\ IF HasSpan(Now)
              THEN OpenSnippet(label, FALSE, FALSE, "-", label.text, MainCtxEndLine)
              ELSE OpenSnippet(label, TRUE, TRUE, "-", label.text, 0)
           /\ Remember(IF Size = 0 THEN {} ELSE {Start(label), End(label)})
    /\ labels' = labels + 1
    /\ UNCHANGED <<buf, LineStarts, scanned, Simple, Diagnostics, script, emitted, current>>

\* Mistakes: the last line of the span is not part of it; a line's marks end before
\* its last character.
InSpanShort == sn.startLine <= sn.line /\ sn.line < sn.endLine
ToColShort(to) == IF sn.line = sn.endLine THEN sn.endCol ELSE to - sn.off

\* The marks under the line that sn is at, whose text ends at `to`: at least one.
InSpan == sn.startLine <= sn.line /\ sn.line <= sn.endLine
FromCol == IF sn.line = sn.startLine THEN sn.startCol ELSE 1
ToCol(to) == IF sn.line = sn.endLine THEN sn.endCol ELSE to - sn.off + 1
Width(to) == IF ToCol(to) <= FromCol THEN 1 ELSE ToCol(to) - FromCol
Marks(to) ==
    MarkRow(sn.line, FromCol, Width(to), sn.mark,
            IF sn.line = sn.endLine THEN sn.caption ELSE "")

\* One round of the loop of printSnippet.
PrintLine ==
    /\ phase = "lines"
    /\ sn.line <= sn.last
    /\ LET to == findLineEnd(sn.off)
       IN  /\ Write((IF sn.skip # 0 /\ sn.line = sn.skip THEN <<>>
                     ELSE <<TextRow(sn.line, sn.off, to,
                                    sn.gutter - digitWidth[sn.line])>>)
                    \o IF InSpan THEN <<Marks(to)>> ELSE <<>>)
           /\ IF to >= Size THEN phase' = "labels" /\ UNCHANGED sn
              ELSE /\ sn' = [sn EXCEPT !.off = to + 1, !.line = @ + 1]
                   /\ UNCHANGED phase
    /\ UNCHANGED <<smVars, Simple, Diagnostics, script, emitted, current, labels>>

EndSnippet ==
    /\ phase = "lines"
    /\ sn.line > sn.last
    /\ phase' = "labels"
    /\ UNCHANGED <<smVars, Simple, Diagnostics, script, emitted, current, labels, sn, out>>

\* Mistake: every help is printed again.
RemainingAll(helps) == helps

\* The first help has been the caption of the main snippet.
Remaining(helps) == IF helps = <<>> THEN <<>> ELSE Tail(helps)

PrintRest ==
    /\ phase = "labels"
    /\ labels = Len(Now.labels)
    /\ Write(RowsOf(Now.notes, NoteRow) \o RowsOf(Remaining(Now.helps), HelpRow)
             \o IF Now.ice THEN <<IceRow>> ELSE <<>>)
    /\ phase' = "title"
    /\ current' = current + 1
    /\ UNCHANGED <<smVars, Simple, Diagnostics, script, emitted, labels, sn>>

PrintDiagnostic ==
    \/ PrintTitle \/ PrintedAll \/ MainSnippet \/ LabelSnippet
    \/ PrintLine \/ EndSnippet \/ PrintRest

Next ==
    \/ EmitSimple \/ MakeSourceManager \/ BuildLineIndex \/ WithSourceManager
    \/ Emit \/ PrintAll
    \/ PrintDiagnostic

Spec == Init /\ [][Next]_vars
FairSpec == Spec /\ WF_vars(Next)
-----------------------------------------------------------------------------
(* Properties.                                                             *)

\* What each variable may hold; the locals of printSnippet stay within the buffer.
TypeOK ==
    /\ buf \in Buffers
    /\ scanned \in 0..Size
    /\ phase \in Phase
    /\ phase \notin {"simple", "index"} => IndexBuilt /\ Simple = <<>>
    /\ emitted \in 0..Len(IF phase \in {"simple", "index"} THEN script.simple
                          ELSE script.direct)
    /\ phase \in {"main", "lines", "labels"} => current \in DOMAIN Diagnostics
    /\ phase \in {"main", "lines", "labels"} => labels \in 0..Len(Now.labels)
    /\ phase = "lines" => /\ sn.off \in 0..Size
                          /\ sn.line \in 1..(sn.last + 1)

\* A line of text of a snippet is a whole line of the buffer, and the number
\* before it is its number.  The line number and the offset of printSnippet's
\* loop are counted separately, from values come by in different ways: the number
\* from the line index, the offset by searching for line ends backwards from the
\* span and forwards from line to line (DiagnosticEngine.cpp:107-140).
ShowsLine(r) ==
    /\ r.from = 0 \/ r.from - 1 \in Newlines
    /\ r.to = Size \/ r.to \in Newlines
    /\ r.from <= r.to
    /\ \A o \in r.from..(r.to - 1) : o \notin Newlines
    /\ r.line = LineOf(r.from)
LinesNumbered == \A k \in DOMAIN out : out[k].row = "text" => ShowsLine(out[k])

\* The number of a line fits the gutter, which is made as wide as the number of
\* the last line that will be printed: an unsigned difference, and as many blanks
\* as it says (DiagnosticEngine.cpp:148).
GutterHolds == \A k \in DOMAIN out : out[k].row = "text" => out[k].pad >= 0

\* What has been printed of the current diagnostic: rows of `out`.
TitleAt == CHOOSE k \in DOMAIN out :
               /\ out[k].row = "title"
               /\ \A j \in (k + 1)..Len(out) : out[j].row # "title"
Rows(kind) == {k \in TitleAt..Len(out) : out[k].row = kind}
MarkRows(mark) == {k \in Rows("mark") : out[k].mark = mark}

\* Some rows are those of the lines from a to b, each once and in order.
Lists(rows, a, b) ==
    /\ {out[k].line : k \in rows} = a..b
    /\ \A j, k \in rows : j < k => out[j].line < out[k].line

\* The how manyth of some rows one is.
Nth(rows, k) == Cardinality({j \in rows : j <= k})

\* The marks that follow a line stand under exactly those of its characters that are in
\* the span; where there is none, at the end of a line, in an empty line or for an
\* empty span, there is a single mark, and it does not reach beyond the place
\* behind the line (DiagnosticEngine.cpp:154-170).
InLine(span, line) ==
    {o \in Start(span)..(End(span) - 1) : o \notin Newlines /\ LineOf(o) = line}
MarkedSpan == IF labels = 0 THEN Now.location ELSE Now.labels[labels]
MarksShowSpan ==
    phase = "lines" /\ sn.line <= sn.last /\ InSpan =>
        LET r == Marks(findLineEnd(sn.off))
            first == CHOOSE o \in 0..Size : LineOf(o) = r.line /\ LineStartOf(o) = o
            marked == {first + c - 1 : c \in r.from..(r.from + r.width - 1)}
        IN  IF InLine(MarkedSpan, r.line) # {} THEN marked = InLine(MarkedSpan, r.line)
            ELSE r.width = 1 /\ first + r.from - 1 <= findLineEnd(first)

\* When its snippet is finished, every line of the span has been printed and
\* marked once, with a line of context before and behind if the buffer has one;
\* every line of a label has been marked (DiagnosticEngine.cpp:89-91).
FirstLine(span) == LineOf(Start(span))
FinalLine(span) == LineOf(End(span))
SpanShown ==
    phase = "labels" /\ HasSpan(Now) /\ Size > 0 =>
        LET first == FirstLine(Now.location)
            final == FinalLine(Now.location)
        IN  /\ Lists(MarkRows("^"), first, final)
            /\ labels = 0 => Lists(Rows("text"), IF first > 1 THEN first - 1 ELSE 1,
                                   Least(final + 1, LineOf(Size)))
            /\ \A l \in 1..labels :
                   \A n \in FirstLine(Now.labels[l])..FinalLine(Now.labels[l]) :
                       \E k \in MarkRows("-") : out[k].line = n

\* Marks stand under the line they mark, though a label's snippet leaves out the
\* line the main one ended with, for a diagnostic with one label at most and a
\* span that is not inverted, as the parser makes them.  (Not if the label begins
\* before that line and reaches it: then its second line of marks is under its
\* first.)
ReachesSkipped(label) ==
    HasSpan(Now) /\ FirstLine(label) < MainCtxEndLine
                 /\ MainCtxEndLine <= FinalLine(label)
AsParsed ==
    /\ Len(Now.labels) <= 1
    /\ HasSpan(Now) => Now.location.from <= Now.location.to
    /\ \A l \in DOMAIN Now.labels : ~ReachesSkipped(Now.labels[l])
MarksUnderText ==
    phase \in {"main", "lines", "labels"} /\ AsParsed =>
        \A k \in Rows("mark") :
            \E j \in TitleAt..(k - 1) :
                /\ out[j].row = "text"
                /\ out[j].line = out[k].line
                /\ \A i \in (j + 1)..k : out[i].row = "mark"

\* Nothing of a diagnostic is lost on the way: its message, its helps, labels and
\* notes are printed once and in this order.  (Not the first help if there is no
\* snippet to make it the caption of, and no labels of an empty buffer; an empty
\* caption cannot be seen.)
Says(r) == \/ r.row \in {"title", "note", "help"}
           \/ r.row = "mark" /\ r.caption # ""
Said(r) ==
    CASE r.row = "title" -> r.message
      [] r.row = "mark" -> r.caption
      [] OTHER -> r.text
Captioned(d) ==
    /\ d.helps # <<>> => Head(d.helps) # ""
    /\ \A l \in DOMAIN d.labels : d.labels[l].text # ""
ToBeSaid(d) ==
    <<d.message>>
    \o (IF HasSpan(d) /\ Size > 0 /\ d.helps # <<>> THEN <<Head(d.helps)>> ELSE <<>>)
    \o (IF Size > 0 THEN [l \in DOMAIN d.labels |-> d.labels[l].text] ELSE <<>>)
    \o d.notes
    \o (IF d.helps # <<>> THEN Tail(d.helps) ELSE <<>>)
SaysEverything ==
    phase = "title" /\ current > 1 /\ Captioned(Diagnostics[current - 1]) =>
        LET said == {k \in TitleAt..Len(out) : Says(out[k])}
            words == ToBeSaid(Diagnostics[current - 1])
        IN  /\ Cardinality(said) = Len(words)
            /\ \A k \in said : Said(out[k]) = words[Nth(said, k)]

\* What the phases report is printed in the order it was reported in, first what
\* was reported without a source manager, each diagnostic once
\* (SimpleDiagnosticEngine::withSourceManager, Driver.cpp:166-186).
Reported == script.simple \o script.direct
Titles == {k \in DOMAIN out : out[k].row = "title"}
PrintedInOrder ==
    /\ Cardinality(Titles) <= Len(Reported)
    /\ \A k \in Titles : out[k] = TitleRow(Reported[Nth(Titles, k)])
    /\ phase = "done" => Cardinality(Titles) = Len(Reported)

\* The loops end, whatever the spans: printAll returns.
PrintingEnds == <>(phase = "done")
=============================================================================
