----------------------------- MODULE TraceText -----------------------------
(***************************************************************************)
(* The two readers of a stack trace: TitleFromTrace (internal/ingest), by  *)
(* which an issue is named when a report comes in, and hlStack and hlFrame *)
(* (internal/web/highlight.go), which colour the trace on the pages.  Each *)
(* looks for the frames of the trace in its own way.                       *)
(*                                                                         *)
(* A trace is the sequence of its lines (strings.Split at "\n"), a line a  *)
(* sequence of the parts that the readers look for: "at" ("at "), "caused" *)
(* ("Caused by:"), "dots", parentheses, the name of the package, white     *)
(* space, and "x" for the rest.                                            *)
(***************************************************************************)
EXTENDS Naturals, Sequences

CONSTANT TitleMax   \* 300 runes

ASSUME TitleMaxAssumption == TitleMax \in Nat \ {0}

Parts == {"at", "caused", "dots", "(", ")", "package", "space", "x"}

\* strings.TrimSpace.
Trim(s) ==
    LET solid == {n \in DOMAIN s : s[n] # "space"}
    IN  IF solid = {} THEN <<>>
        ELSE SubSeq(s, CHOOSE n \in solid : \A m \in solid : n <= m,
                       CHOOSE n \in solid : \A m \in solid : m <= n)

\* strings.TrimSpace(trace) == "".
IsBlank(trace) == \A n \in DOMAIN trace : Trim(trace[n]) = <<>>

HasPart(s, part) == \E n \in DOMAIN s : s[n] = part

StartsWith(line, part) == Trim(line) # <<>> /\ Trim(line)[1] = part

\* A line with "at" and nothing after it is "at" when it is trimmed.
IsFrame(line) == StartsWith(line, "at") /\ Len(Trim(line)) > 1

\* A frame without its "at ".
FrameText(line) == Tail(Trim(line))

First(ns) == CHOOSE n \in ns : \A m \in ns : n <= m

\* string(runes[:300]).
Cut(title) == SubSeq(title, 1, IF Len(title) > TitleMax THEN TitleMax ELSE Len(title))

-----------------------------------------------------------------------------
(* ingest.go *)

NoTrace == <<"(no stack trace)">>

\* Mutant of FrameLines: the lines are not trimmed first.
FrameLinesAtMargin(trace) == {n \in 2..Len(trace) : IsFrame(trace[n]) /\ trace[n][1] = "at"}

\* The lines that the loop does not pass over: lines[1:].
FrameLines(trace) == {n \in 2..Len(trace) : IsFrame(trace[n])}

\* The first frame that names the package, or else the first: packageName is
\* "" when the report has none.
TitleFrame(trace, named) ==
    LET frames == FrameLines(trace)
        own    == {n \in frames : named /\ HasPart(trace[n], "package")}
    IN  First(IF own = {} THEN frames ELSE own)

TitleFromTrace(trace, named) ==
    LET first == Trim(trace[1])
        title == IF FrameLines(trace) = {} THEN first
                 ELSE first \o <<"space", "at">> \o FrameText(trace[TitleFrame(trace, named)])
    IN  IF IsBlank(trace) THEN NoTrace ELSE Cut(title)

-----------------------------------------------------------------------------
(* highlight.go *)

Span(cls, text) == [cls |-> cls, text |-> text]

\* The method, and the place in the file from the last parenthesis on.
hlFrame(line) ==
    LET rest  == FrameText(line)
        opens == {n \in DOMAIN rest : rest[n] = "("}
        open  == CHOOSE n \in opens : \A m \in opens : m <= n
    IN  IF opens = {}
        THEN <<Span("frame", <<"at">>), Span("fn", rest)>>
        ELSE <<Span("frame", <<"at">>), Span("fn", SubSeq(rest, 1, open - 1)),
               Span("loc", SubSeq(rest, open, Len(rest)))>>

\* A line that the switch would take for the header, were headerDone not set.
IsText(line) ==
    /\ Trim(line) # <<>>
    /\ ~StartsWith(line, "caused") /\ ~IsFrame(line) /\ ~StartsWith(line, "dots")

\* Line n of the trace on the page.
hlLine(trace, n) ==
    LET line == trace[n] IN
    CASE StartsWith(line, "caused") -> <<Span("ex", line)>>
      [] IsFrame(line)              -> hlFrame(line)
      [] StartsWith(line, "dots")   -> <<Span("muted", line)>>
      [] IsText(line) /\ (\A m \in 1..(n - 1) : ~IsText(trace[m])) -> <<Span("ex", line)>>
      [] OTHER                      -> <<Span("plain", line)>>

hlStack(trace) ==
    IF IsBlank(trace) THEN <<<<Span("muted", NoTrace)>>>>
    ELSE [n \in DOMAIN trace |-> hlLine(trace, n)]

=============================================================================
