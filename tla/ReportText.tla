----------------------------- MODULE ReportText -----------------------------
(***************************************************************************)
(* The text of a report: what the admin reads on its page and in the title *)
(* of its issue, against what the phone has sent.                          *)
(***************************************************************************)
EXTENDS JsonTokens, TraceText, SequencesExt

\* The reports: a raw text, its tokens with the white space between them if it
\* is JSON's (else none), a trace, and whether the report names its package.
CONSTANT Reports

\* A trace has at least one line: strings.Split gives one of an empty text.
\* The tokens are those of the raw text.
ASSUME ReportTextAssumption ==
    /\ Reports \subseteq [raw : Seq(Bytes), tokens : Seq([cls : Classes, text : Seq(Bytes)]),
                         trace : Seq(Seq(Parts)) \ {<<>>}, named : BOOLEAN]
    /\ \A r \in Reports :
          r.tokens # <<>> =>
              /\ AreTokens(r.tokens)
              /\ r.raw = FlattenSeq([n \in 1..Len(r.tokens) |-> r.tokens[n].text])

VARIABLE report

textVars == <<report, src, scan, i, j, out>>

TextInit == report \in Reports /\ src = report.raw /\ JsonInit

TextNext == JsonNext /\ UNCHANGED report

TextSpec == TextInit /\ [][TextNext]_textVars

-----------------------------------------------------------------------------
\* The pieces, with their text.
Tokens == [n \in DOMAIN out |-> Span(out[n].cls, TextOf(out[n]))]

\* The colours are those of JSON's grammar.  In a document, keys, strings with
\* whatever escapes, brackets and colons in them, numbers and words are told
\* apart as the parser does, in every layout; and in any text a word is a
\* number exactly if the grammar has it.
TokensAreRight ==
    scan = "done" =>
        /\ NumbersAreRight
        /\ report.tokens # <<>> => Tokens = report.tokens

\* The text of a line on the page.
Shown(spans) == FlattenSeq([n \in DOMAIN spans |-> spans[n].text])

\* The title and the page of a trace.  Page and title of a blank one say that
\* there is none; else the page keeps the text of each line, but for the
\* indentation of frames, and shows one header at most; the title begins like
\* the first line and goes on with a frame that the page shows, if it shows one
\* below, and with one of the package's own if it shows one of those.
TitleIsShown(trace, named) ==
    LET page   == hlStack(trace)
        first  == Trim(trace[1])
        title  == TitleFromTrace(trace, named)
        frames == {n \in 2..Len(page) : page[n][1].cls = "frame"}
        own    == {n \in frames : named /\ HasPart(Shown(page[n]), "package")}
    IN  IF page = <<<<Span("muted", NoTrace)>>>> THEN title = NoTrace
        ELSE /\ \A n \in DOMAIN trace :
                   Shown(page[n]) = IF page[n][1].cls = "frame" THEN Trim(trace[n]) ELSE trace[n]
             /\ Cardinality({n \in DOMAIN page : page[n][1].cls = "ex"
                                                 /\ ~StartsWith(trace[n], "caused")}) <= 1
             /\ frames = {} => title = Cut(first)
             /\ frames # {} =>
                   \E n \in IF own = {} THEN frames ELSE own :
                      title = Cut(first \o <<"space">> \o Shown(page[n]))

\* What the title says is what the page shows, although one is made by the
\* ingest endpoint and the other by the page ("app frame preferred", "fallback
\* first frame", ingest_test.go:348,355).
TitleMatchesPage == scan = "done" => TitleIsShown(report.trace, report.named)

=============================================================================
