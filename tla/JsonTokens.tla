----------------------------- MODULE JsonTokens -----------------------------
(***************************************************************************)
(* highlightJSON (internal/web/highlight.go): the raw report is cut into   *)
(* pieces, each of which gets a colour on the report's page.               *)
(*                                                                         *)
(* A character is known by its class.  "1" is any digit but 0, "e" stands  *)
(* for E too, "punct" is one of {}[] and the comma; the words true, false  *)
(* and null are one letter each ("true" for both of the first), "x" is     *)
(* every other byte.  A piece is where it begins and ends and its class:   *)
(* what is between is escaped and written as it is, inside a span or       *)
(* without one.  json.Indent, which comes before (external), moves only    *)
(* the white space between tokens.  A blank text is shown as "(empty)" and *)
(* never gets here (hlJSON).                                               *)
(***************************************************************************)
EXTENDS Naturals, Sequences

Bytes == {"quote", "backslash", "colon", "punct", "space", "x",
          "true", "null", "-", "+", ".", "e", "0", "1"}

VARIABLES
    src,    \* the text
    scan,   \* the loop: "top", or within a "string" or a "word", or "done"
    i,      \* where the token at hand begins
    j,      \* the inner loops' place in it
    out     \* the pieces written so far

jsonVars == <<src, scan, i, j, out>>

Piece(from, to, cls) == [from |-> from, to |-> to, cls |-> cls]

TextOf(p) == SubSeq(src, p.from, p.to)

\* Mutant of Stops: a backslash ends a word, too.
StopsAtEscapes == {"quote", "colon", "punct", "space", "backslash"}

\* What ends a word.
Stops == {"quote", "colon", "punct", "space"}

-----------------------------------------------------------------------------
(* isJSONNumber *)

Is(s, k, c) == k <= Len(s) /\ s[k] = c

IsDigit(s, k) == k <= Len(s) /\ s[k] \in {"0", "1"}

\* for i < len(s) && s[i] is a digit { i++ }
SkipDigits(s, k) ==
    CHOOSE n \in k..(Len(s) + 1) :
        ~IsDigit(s, n) /\ \A m \in k..(n - 1) : IsDigit(s, m)

\* The places behind the sign, the digits, the fraction, "e" with its sign,
\* and the exponent, or where each would be.
isJSONNumber(s) ==
    LET sign == IF Is(s, 1, "-") THEN 2 ELSE 1
        int  == IF Is(s, sign, "0") THEN sign + 1 ELSE SkipDigits(s, sign)
        frac == IF Is(s, int, ".") THEN SkipDigits(s, int + 1) ELSE int
        e    == IF Is(s, frac + 1, "+") \/ Is(s, frac + 1, "-") THEN frac + 2 ELSE frac + 1
        end  == IF Is(s, frac, "e") THEN SkipDigits(s, e) ELSE frac
    IN  /\ IsDigit(s, sign)
        /\ Is(s, int, ".") => IsDigit(s, int + 1)
        /\ Is(s, frac, "e") => IsDigit(s, e)
        /\ end = Len(s) + 1

WordClass(word) ==
    CASE word = <<"true">> -> "bool"
      [] word = <<"null">> -> "null"
      [] OTHER -> IF isJSONNumber(word) THEN "num" ELSE "plain"

\* A literal is a key when a colon comes next, after any white space.
LiteralClass(end) ==
    IF \E k \in (end + 1)..Len(src) :
          src[k] = "colon" /\ \A m \in (end + 1)..(k - 1) : src[m] = "space"
    THEN "key" ELSE "str"

-----------------------------------------------------------------------------
(* The loops *)

JsonInit ==
    /\ src \in Seq(Bytes)
    /\ scan = "top"
    /\ i = 1
    /\ j = 1
    /\ out = <<>>

\* The next character at the head of the outer loop.
Next1(classes) == scan = "top" /\ i <= Len(src) /\ src[i] \in classes

Enter(loop, at) ==
    /\ scan' = loop
    /\ j' = at
    /\ UNCHANGED <<src, i, out>>

Write(to, cls) ==
    /\ out' = Append(out, Piece(i, to, cls))
    /\ i' = to + 1
    /\ scan' = "top"
    /\ UNCHANGED <<src, j>>

OpenString == Next1({"quote"}) /\ Enter("string", i + 1)

\* Mutant of InString: a backslash does not cover what follows it.
InStringPlain ==
    /\ scan = "string"
    /\ j <= Len(src) /\ src[j] # "quote"
    /\ Enter("string", j + 1)

\* j += 2 after a backslash, which may go past the end.
InString ==
    /\ scan = "string"
    /\ j <= Len(src) /\ src[j] # "quote"
    /\ Enter("string", IF src[j] = "backslash" THEN j + 2 ELSE j + 1)

CloseString ==
    /\ scan = "string"
    /\ j <= Len(src) /\ src[j] = "quote"
    /\ Write(j, LiteralClass(j))

\* The rest is plain.
Unterminated ==
    /\ scan = "string"
    /\ j > Len(src)
    /\ Write(Len(src), "plain")

Punctuation == Next1({"punct", "colon"}) /\ Write(i, "plain")

Space == Next1({"space"}) /\ Write(i, "space")

OpenWord == Next1(Bytes \ {"quote", "punct", "colon", "space"}) /\ Enter("word", i)

InWord ==
    /\ scan = "word"
    /\ j <= Len(src) /\ src[j] \notin Stops
    /\ Enter("word", j + 1)

CloseWord ==
    /\ scan = "word"
    /\ j <= Len(src) => src[j] \in Stops
    /\ Write(j - 1, WordClass(SubSeq(src, i, j - 1)))

Finish ==
    /\ scan = "top"
    /\ i > Len(src)
    /\ Enter("done", j)

JsonNext ==
    \/ OpenString \/ InString \/ CloseString \/ Unterminated
    \/ Punctuation \/ Space
    \/ OpenWord \/ InWord \/ CloseWord
    \/ Finish

JsonSpec == JsonInit /\ [][JsonNext]_jsonVars

-----------------------------------------------------------------------------
Classes == {"plain", "space", "key", "str", "num", "bool", "null"}

\* The type of the state.
JsonTypeOK ==
    /\ src \in Seq(Bytes)
    /\ scan \in {"top", "string", "word", "done"}
    /\ i \in 1..(Len(src) + 1)
    /\ j \in 1..(Len(src) + 2)
    /\ out \in Seq([from : Nat, to : Nat, cls : Classes])

\* The pieces tile the text up to the token at hand: they follow each other
\* without a gap or an overlap, and none is empty, so that each round of the
\* loop gets on.  At the end they are the whole text: the page shows each
\* character of the raw report once and in its place, whatever it is, valid
\* JSON or not, and in an unterminated string or after a lone backslash, too.
RawShownWhole ==
    /\ \A n \in DOMAIN out : out[n].from <= out[n].to
    /\ \A n \in DOMAIN out :
          out[n].from = IF n = 1 THEN 1 ELSE out[n - 1].to + 1
    /\ i = IF out = <<>> THEN 1 ELSE out[Len(out)].to + 1
    /\ scan = "done" => i = Len(src) + 1

-----------------------------------------------------------------------------
(* JSON's own grammar, for comparison *)

AllDigits(s) == s # <<>> /\ \A k \in DOMAIN s : s[k] \in {"0", "1"}

IsInt(s) == AllDigits(s) /\ (s[1] = "0" => Len(s) = 1)

IsFraction(s) == s # <<>> /\ s[1] = "." /\ AllDigits(Tail(s))

IsExponent(s) ==
    /\ s # <<>> /\ s[1] = "e"
    /\ \/ AllDigits(Tail(s))
       \/ Len(s) > 1 /\ s[2] \in {"+", "-"} /\ AllDigits(SubSeq(s, 3, Len(s)))

\* number = [ "-" ] int [ frac ] [ exp ] (RFC 8259).
IsNumber(s) ==
    \E a, b, c \in 0..Len(s) :
        /\ SubSeq(s, 1, a) \in {<<>>, <<"-">>}
        /\ IsInt(SubSeq(s, a + 1, b))
        /\ b = c \/ IsFraction(SubSeq(s, b + 1, c))
        /\ c = Len(s) \/ IsExponent(SubSeq(s, c + 1, Len(s)))

\* string = quotation-mark *char quotation-mark: S are the places where a char
\* begins, and that of the closing mark; a backslash takes one character more.
IsChars(s, S) ==
    /\ 2 \in S /\ Len(s) \in S /\ s[Len(s)] = "quote"
    /\ \A k \in S \ {Len(s)} :
          s[k] # "quote" /\ (IF s[k] = "backslash" THEN k + 2 ELSE k + 1) \in S

IsString(s) ==
    /\ Len(s) > 1 /\ s[1] = "quote"
    /\ \E S \in SUBSET (2..Len(s)) : IsChars(s, S)

WordClasses == {"num", "bool", "null"}

StringClasses == {"key", "str"}

\* What a token of each class is like.
IsToken(t) ==
    \/ t.cls = "space" /\ t.text = <<"space">>
    \/ t.cls = "plain" /\ t.text \in {<<"punct">>, <<"colon">>}
    \/ t.cls \in StringClasses /\ IsString(t.text)
    \/ t.cls = "num" /\ IsNumber(t.text)
    \/ t.cls = "bool" /\ t.text = <<"true">>
    \/ t.cls = "null" /\ t.text = <<"null">>

\* The first token from the k-th on that is no white space is a colon.
ColonFrom(tokens, k) ==
    \E n \in k..Len(tokens) :
        /\ tokens[n].text = <<"colon">>
        /\ \A m \in k..(n - 1) : tokens[m].cls = "space"

\* The tokens of a document and its white space: two words never touch, and a
\* string is a key exactly if a colon follows.
AreTokens(tokens) ==
    /\ \A n \in DOMAIN tokens : IsToken(tokens[n])
    /\ \A n \in 2..Len(tokens) :
          ~(tokens[n - 1].cls \in WordClasses /\ tokens[n].cls \in WordClasses)
    /\ \A n \in DOMAIN tokens :
          tokens[n].cls \in StringClasses =>
              (tokens[n].cls = "key" <=> ColonFrom(tokens, n + 1))

\* In any text a word is coloured as a number exactly if the grammar has it,
\* and nothing else is.
NumbersAreRight ==
    \A n \in DOMAIN out : out[n].cls = "num" <=> IsNumber(TextOf(out[n]))

=============================================================================
