------------------------- MODULE MCDiagnosticEngine -------------------------
(***************************************************************************)
(* Buffers of up to four characters, and one of ten lines; every span of   *)
(* them, every label; a few diagnostics of every other form.               *)
(***************************************************************************)
EXTENDS DiagnosticEngine

Short == UNION {[1..n -> Char] : n \in 0..4}
TenLines == [k \in 1..10 |-> IF k < 10 THEN "newline" ELSE "other"]
ThreeLines == <<"other", "newline", "newline", "other", "other">>
MCBuffers == Short \cup {TenLines, ThreeLines}

Spans(b) == {<<s, e>> \in (0..Len(b)) \X (0..Len(b)) : s <= e}
Script(b, simple, direct) == [buffer |-> b, simple |-> simple, direct |-> direct]
One(b, d) == Script(b, <<>>, <<d>>)

\* As the parser reports a missing semicolon: a label for the next token, a note
\* and a help.
Missing(s, l) ==
    Label(Note(Help(Message(At(error, s[1], s[2]), "m"), "h"), "n"), l[1], l[2], "l")
Missings(b) == 
    {One(b, Missing(p[1], p[2])) : p \in {q \in Spans(b) \X Spans(b) : q[1][2] <= q[2][1]}}

Twice(d, l) == Label(d, l[1], l[2], "l2")
TwoLabels(b) == {One(b, Twice(Missing(s, l), l)) : s \in Spans(b), l \in Spans(b)}

\* Spans that no token has: inverted, or behind the end.
Odd(b) ==
    {One(b, Message(At(error, s, e), "m")) :
        s \in 0..(Len(b) + 1), e \in 0..(Len(b) + 2)}

Labelled(d, b) == {Label(d, s[1], s[2], "l") : s \in Spans(b)}
Elsewhere(b) ==
    {One(b, d) :
        d \in Labelled(Note(Note(Message(AtFile(error), "m"), "n1"), "n2"), b)
              \cup Labelled(Help(Help(Message(warning, "m"), "h1"), "h2"), b)}

\* Several diagnostics of all levels, with and without a source manager.
Mixed ==
    {Script(ThreeLines, simple, direct) :
        simple \in {<<>>, <<Message(note, "s1")>>,
                    <<Message(AtFile(error), "s1"), Message(warning, "s2")>>},
        direct \in {<<>>, <<Message(At(ice, 0, 1), "d1"), Message(At(warning, 4, 5), "d2")>>,
                    <<Missing(<<0, 3>>, <<3, 4>>), Message(At(note, 0, 1), "d2"),
                      Message(ice, "d3")>>}}

MCScripts ==
    UNION {Missings(b) \cup Odd(b) \cup Elsewhere(b) : b \in Short}
    \cup UNION {TwoLabels(b) : b \in [1..3 -> Char] \cup {ThreeLines}}
    \cup Missings(TenLines) \cup Mixed
=============================================================================
