------------------------------- MODULE MCText -------------------------------
(***************************************************************************)
(* The programs on text, each on every small input: set-password on every  *)
(* file of up to three lines of the five kinds that it tells apart, and    *)
(* the text of a report on every raw text of up to five characters of      *)
(* seven kinds, every word of up to five characters of numbers, documents  *)
(* that nest two containers, and every trace of up to three lines of       *)
(* eleven kinds.  They have nothing in common: a behaviour is one of       *)
(* EnvFile's or one of ReportText's.                                       *)
(***************************************************************************)
EXTENDS EnvFile, ReportText

\* Sequences over S of a length from one to n.
UpTo(n, S) == UNION {[1..k -> S] : k \in 1..n}

-----------------------------------------------------------------------------
MCEdits ==
    {Line("pw", <<"a">>), Line("hash", <<"$", "$", "a">>), Line("hash", <<"a">>), Blank, Other}

MCFiles == UpTo(3, MCEdits)

MCHashes == {<<"$", "a", "$", "a">>, <<"$", "$">>}

-----------------------------------------------------------------------------
Token(cls, text) == [cls |-> cls, text |-> text]

Mark(c) == Token("plain", <<c>>)

\* What may be in a string: its own delimiters, escaped; the marks of JSON.
Strings == {<<>>, <<"x">>, <<"colon">>, <<"punct", "space">>, <<"backslash", "quote">>,
            <<"backslash", "backslash">>, <<"true">>}

Quoted(s) == <<"quote">> \o s \o <<"quote">>

Scalars ==
    {<<Token("str", Quoted(s))>> : s \in Strings}
        \cup {<<Token("num", n)>> : n \in {<<"0">>, <<"-", "1", "0">>, <<"1", ".", "0", "e", "+", "1">>}}
        \cup {<<Token("bool", <<"true">>)>>, <<Token("null", <<"null">>)>>}

Member(key, value) == <<Token("key", Quoted(key)), Mark("colon")>> \o value

Bracketed(tokens) == <<Mark("punct")>> \o tokens \o <<Mark("punct")>>

Joined(a, b) == a \o <<Mark("punct")>> \o b

Containers(values) ==
    {Bracketed(v) : v \in values}
        \cup {Bracketed(Joined(v, w)) : v, w \in values}
        \cup {Bracketed(Member(k, v)) : k \in Strings, v \in values}

Small == {Bracketed(<<>>), <<Token("str", Quoted(<<"x">>))>>, <<Token("num", <<"0">>)>>}

JsonValues ==
    Scalars \cup {Bracketed(<<>>)} \cup Containers(Scalars)
        \cup {Bracketed(Joined(Member(<<"x">>, v), Member(k, w))) : k \in Strings, v, w \in Small}
        \cup Containers(Containers(Small))

\* A document's tokens, without white space and with some after each.
Layouts(tokens) ==
    {tokens, FlattenSeq([n \in DOMAIN tokens |-> <<tokens[n], Token("space", <<"space">>)>>])}

RawTexts ==
    UpTo(5, {"quote", "backslash", "colon", "punct", "space", "x", "1"})
        \cup UpTo(5, {"-", "0", "1", ".", "e", "+"})

TraceLines ==
    {<<>>, <<"space">>, <<"x">>, <<"x", "x", "space">>, <<"caused", "x">>, <<"space", "dots", "x">>,
     <<"at">>, <<"space", "at", "x", "(", "x", ")">>, <<"at", "package", "(", ")">>,
     <<"space", "at", "package">>, <<"at", "(", "(", "package", "space">>}

RawOf(tokens) == FlattenSeq([n \in DOMAIN tokens |-> tokens[n].text])

Report(raw, tokens, trace, named) ==
    [raw |-> raw, tokens |-> tokens, trace |-> trace, named |-> named]

MCReports ==
    UNION {{Report(RawOf(t), t, <<<<>>>>, FALSE) : t \in Layouts(v)} : v \in JsonValues}
        \cup {Report(t, <<>>, <<<<>>>>, FALSE) : t \in RawTexts}
        \cup {Report(<<"x">>, <<>>, t, b) : t \in UpTo(3, TraceLines), b \in BOOLEAN}

-----------------------------------------------------------------------------
NoEnvFile ==
    /\ file = NoFile /\ run = Idle /\ before = NoFile /\ edited = FALSE
    /\ runs = MaxRuns /\ edits = MaxEdits

NoReportText ==
    /\ report = Report(<<>>, <<>>, <<<<>>>>, FALSE)
    /\ src = <<>> /\ scan = "off" /\ i = 1 /\ j = 1 /\ out = <<>>

MCInit == (Init /\ NoReportText) \/ (TextInit /\ NoEnvFile)

MCNext == (Next /\ UNCHANGED textVars) \/ (TextNext /\ UNCHANGED vars)

MCSpec == MCInit /\ [][MCNext]_<<vars, textVars>>

=============================================================================
