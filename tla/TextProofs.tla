----------------------------- MODULE TextProofs -----------------------------
(***************************************************************************)
(* The text that the program rewrites and shows.                           *)
(*                                                                         *)
(* For every .env file and every hash: set-password makes the server read  *)
(* the new hash, keeps every other line, and leaves nothing to be done the *)
(* second time.  What writeEnvHash returns is found line by line: the loop *)
(* keeps what it has written clean (OutStep), and is the rewritten lines   *)
(* put together (OutIs); a clean file is rewritten to itself (CleanStays). *)
(* What Compose reads of an escaped value is that value                    *)
(* (EscapedComesBack).                                                     *)
(*                                                                         *)
(* For every text: highlightJSON writes each byte once and in its place,   *)
(* and colours as numbers the words that are numbers of the grammar.  Each *)
(* turn of the outer loop writes a piece that begins where the last one    *)
(* ended, and is not empty (WriteKeeps): for a word, as its first          *)
(* character is none of those that end one; for a string, as the inner     *)
(* loop begins behind the quote; and a backslash that takes it past the    *)
(* end is cut off by Unterminated (Scanning).  isJSONNumber goes from the  *)
(* end of one run of digits to the next (DigitsEnd), so that a word that   *)
(* is scanned to its end is made of the parts of the grammar               *)
(* (NumberIsScanned), and one that is made of them is scanned to its end   *)
(* (NumberHasPlaces).  In a document, the pieces written so far are its    *)
(* first tokens, and the inner loop is within the next (Lexing): the first *)
(* character tells the token's class (TokenBegins), the scan of a string   *)
(* goes from one of the grammar's characters to the next (StringGoesOn), a *)
(* word ends before what no word goes on with (WordGoesOn), and the colon  *)
(* behind a key is found over the white space (ColonIsSeen, ColonIsThere). *)
(*                                                                         *)
(* For every trace: the title of the issue is made of what the page shows. *)
(* Both see the same frames, as trimming a line takes nothing but white    *)
(* space of it (TrimKeeps), and hlFrame cuts a frame without losing any of *)
(* it (FramesAreShown).                                                    *)
(*                                                                         *)
(* Induction is over sets of numbers (CountingUp, CountingDown), of which  *)
(* the library's WFMin gives the least element; what FlattenSeq computes   *)
(* is the last of a sequence of beginnings (PutTogether, Flattened).       *)
(***************************************************************************)
EXTENDS EnvFile, ReportText, SequenceTheorems, FiniteSetTheorems, WellFoundedInduction, TLAPS

-----------------------------------------------------------------------------
(* Numbers and sequences *)

\* Any of some numbers are the least.
LEMMA LeastNumber ==
    ASSUME NEW T, T \subseteq Nat, T # {}
    PROVE  \E n \in T : \A m \in T : n <= m
<1>1. PICK n \in T : \A m \in T : <<m, n>> \notin OpToRel(<, Nat)
  BY NatLessThanWellFounded, WFMin, Zenon
<1>2. \A m \in T : ~(m < n)
  BY <1>1 DEF OpToRel
<1> QED
  BY <1>2

\* Any of finitely many numbers are the greatest.
LEMMA GreatestNumber ==
    ASSUME NEW N \in Nat, NEW T, T \subseteq 1..N, T # {}
    PROVE  \E n \in T : \A m \in T : m <= n
<1> DEFINE D == {N - n : n \in T}
<1>1. D \subseteq Nat /\ D # {}
  <2>1. \A n \in T : N - n \in Nat
    OBVIOUS
  <2> QED
    BY <2>1
<1>2. PICK d \in D : \A c \in D : d <= c
  <2> HIDE DEF D
  <2> QED
    BY <1>1, LeastNumber
<1>3. PICK n \in T : d = N - n
  BY <1>2
<1>4. ASSUME NEW m \in T PROVE m <= n
  <2>1. N - m \in D /\ m \in Nat /\ n \in Nat
    OBVIOUS
  <2>2. N - n <= N - m
    BY <1>2, <1>3, <2>1
  <2> QED
    BY <2>1, <2>2
<1> QED
  BY <1>4

\* Induction over a range, upwards: the set has its first number, and with a
\* number the next.
LEMMA CountingUp ==
    ASSUME NEW N \in Nat, NEW P, 0 \in P, \A n \in 0..(N - 1) : n \in P => n + 1 \in P
    PROVE  \A n \in 0..N : n \in P
<1> DEFINE T == {n \in 0..N : n \notin P}
<1>1. ASSUME T # {} PROVE FALSE
  <2>1. PICK n \in T : \A m \in T : n <= m
    <3> HIDE DEF T
    <3>1. T \subseteq Nat
      BY DEF T
    <3> QED
      BY <1>1, <3>1, LeastNumber
  <2>2. n # 0 /\ n - 1 \in 0..(N - 1) /\ n - 1 \notin T
    BY <2>1
  <2> QED
    BY <2>1, <2>2
<1> QED
  BY <1>1

\* And downwards.
LEMMA CountingDown ==
    ASSUME NEW N \in Nat, NEW P, N \in P, \A n \in 1..N : n \in P => n - 1 \in P
    PROVE  \A n \in 0..N : n \in P
<1> DEFINE Q == {k \in 0..N : N - k \in P}
<1>1. 0 \in Q
  OBVIOUS
<1>2. ASSUME NEW k \in 0..(N - 1), k \in Q PROVE k + 1 \in Q
  <2>1. N - k \in 1..N /\ N - k \in P
    BY <1>2
  <2>2. (N - k) - 1 = N - (k + 1)
    OBVIOUS
  <2> QED
    BY <2>1, <2>2
<1> HIDE DEF Q
<1>3. \A k \in 0..N : k \in Q
  BY <1>1, <1>2, CountingUp
<1>4. ASSUME NEW n \in 0..N PROVE n \in P
  <2>1. N - n \in 0..N /\ N - (N - n) = n
    OBVIOUS
  <2>2. N - n \in Q
    BY <1>3, <2>1
  <2> QED
    BY <2>1, <2>2 DEF Q
<1> QED
  BY <1>4

\* f[k] is what the first k of the pieces are together, for k up to n.
PutTogether(f, s, n) ==
    /\ f[0] = <<>>
    /\ \A k \in 1..n : f[k] = f[k - 1] \o s[k]

\* One piece more is put to what is together.
LEMMA OneMorePiece ==
    ASSUME NEW S, NEW s \in Seq(Seq(S)), NEW n \in 0..(Len(s) - 1),
           NEW g \in [0..n -> Seq(S)], PutTogether(g, s, n)
    PROVE  \E f \in [0..(n + 1) -> Seq(S)] : PutTogether(f, s, n + 1)
<1> DEFINE f == [k \in 0..(n + 1) |-> IF k <= n THEN g[k] ELSE g[n] \o s[n + 1]]
<1>1. n \in Nat /\ n + 1 \in 1..Len(s)
  OBVIOUS
<1>2. g[n] \in Seq(S) /\ s[n + 1] \in Seq(S)
  BY <1>1
<1>3. g[n] \o s[n + 1] \in Seq(S)
  BY <1>2, ConcatProperties
<1>4. f \in [0..(n + 1) -> Seq(S)]
  BY <1>3
<1>5. f[0] = <<>>
  BY <1>1 DEF PutTogether
<1>6. ASSUME NEW k \in 1..(n + 1) PROVE f[k] = f[k - 1] \o s[k]
  <2>1. CASE k <= n
    <3>1. k \in 1..n /\ f[k] = g[k] /\ f[k - 1] = g[k - 1]
      BY <1>1, <2>1
    <3> QED
      BY <3>1 DEF PutTogether
  <2>2. CASE k = n + 1
    <3>1. f[k] = g[n] \o s[n + 1] /\ f[k - 1] = g[n]
      BY <1>1, <2>2
    <3> QED
      BY <2>2, <3>1
  <2>3. k <= n \/ k = n + 1
    BY <1>1
  <2> HIDE DEF f
  <2> QED
    BY <2>1, <2>2, <2>3
<1> HIDE DEF f
<1> QED
  BY <1>4, <1>5, <1>6 DEF PutTogether

\* There is a way to put pieces together.
LEMMA PiecesGoTogether ==
    ASSUME NEW S, NEW s \in Seq(Seq(S))
    PROVE  \E f \in [0..Len(s) -> Seq(S)] : PutTogether(f, s, Len(s))
<1> DEFINE P == {n \in 0..Len(s) : \E f \in [0..n -> Seq(S)] : PutTogether(f, s, n)}
<1>1. Len(s) \in Nat
  OBVIOUS
<1>2. 0 \in P
  <2> DEFINE f == [k \in {0} |-> <<>>]
  <2>1. 0..0 = {0} /\ f \in [{0} -> Seq(S)]
    BY EmptySeq
  <2>2. PutTogether(f, s, 0)
    BY DEF PutTogether
  <2> HIDE DEF f
  <2> QED
    BY <1>1, <2>1, <2>2
<1>3. ASSUME NEW n \in 0..(Len(s) - 1), n \in P PROVE n + 1 \in P
  <2>1. PICK g \in [0..n -> Seq(S)] : PutTogether(g, s, n)
    BY <1>3
  <2>2. n + 1 \in 0..Len(s)
    BY <1>1
  <2> QED
    BY <2>1, <2>2, OneMorePiece
<1>4. Len(s) \in P
  <2> HIDE DEF P
  <2>1. \A n \in 0..Len(s) : n \in P
    BY <1>1, <1>2, <1>3, CountingUp
  <2> QED
    BY <1>1, <2>1
<1> QED
  BY <1>4

\* There is but one way to.
LEMMA OneWayTogether ==
    ASSUME NEW S, NEW s \in Seq(Seq(S)), NEW f, NEW g, NEW n \in 0..Len(s),
           PutTogether(f, s, n), PutTogether(g, s, n)
    PROVE  f[n] = g[n]
<1> DEFINE P == {k \in 0..n : f[k] = g[k]}
<1>1. n \in Nat
  OBVIOUS
<1>2. 0 \in P
  BY DEF PutTogether
<1>3. ASSUME NEW k \in 0..(n - 1), k \in P PROVE k + 1 \in P
  <2>1. k + 1 \in 1..n /\ (k + 1) - 1 = k /\ k + 1 \in 0..n
    BY <1>1
  <2>2. /\ f[k + 1] = f[(k + 1) - 1] \o s[k + 1]
        /\ g[k + 1] = g[(k + 1) - 1] \o s[k + 1]
    BY <2>1, Zenon DEF PutTogether
  <2>3. f[k + 1] = g[k + 1]
    BY <1>3, <2>1, <2>2
  <2> QED
    BY <2>1, <2>3
<1>4. n \in P
  <2> HIDE DEF P
  <2>1. \A k \in 0..n : k \in P
    BY <1>1, <1>2, <1>3, CountingUp
  <2> QED
    BY <1>1, <2>1
<1> QED
  BY <1>4

\* The recursion of FlattenSeq.
FlattenStep(f, s) == [n \in 1..Len(s) |-> IF n = 1 THEN s[n] ELSE f[n - 1] \o s[n]]

\* FlattenSeq puts all of them together.
LEMMA Flattened ==
    ASSUME NEW S, NEW s \in Seq(Seq(S))
    PROVE  \E f \in [0..Len(s) -> Seq(S)] :
              PutTogether(f, s, Len(s)) /\ FlattenSeq(s) = f[Len(s)]
<1>1. PICK g \in [0..Len(s) -> Seq(S)] : PutTogether(g, s, Len(s))
  BY PiecesGoTogether
<1>2. Len(s) \in Nat /\ \A k \in 1..Len(s) : s[k] \in Seq(S)
  OBVIOUS
<1>3. CASE Len(s) = 0
  <2>1. s = <<>> /\ FlattenSeq(s) = s /\ g[Len(s)] = <<>>
    BY <1>1, <1>3 DEF FlattenSeq, PutTogether
  <2> QED
    BY <1>1, <2>1
<1>4. CASE Len(s) # 0
  <2> DEFINE h == CHOOSE f : f = FlattenStep(f, s)
             low == [k \in 1..Len(s) |-> g[k]]
             up == [k \in 0..Len(s) |-> IF k = 0 THEN <<>> ELSE h[k]]
  <2>1. FlattenSeq(s) = h[Len(s)]
    BY <1>4 DEF FlattenSeq, FlattenStep
  <2>2. low = FlattenStep(low, s)
    <3>1. ASSUME NEW k \in 1..Len(s)
          PROVE  low[k] = IF k = 1 THEN s[k] ELSE low[k - 1] \o s[k]
      <4>1. g[k] = g[k - 1] \o s[k] /\ g[0] = <<>> /\ s[k] \in Seq(S)
        BY <1>1, <1>2 DEF PutTogether
      <4>2. <<>> \o s[k] = s[k]
        BY <4>1, ConcatEmptySeq
      <4>3. CASE k = 1
        <5>1. k - 1 = 0 /\ low[k] = g[k]
          BY <4>3
        <5> HIDE DEF low
        <5> QED
          BY <4>1, <4>2, <4>3, <5>1
      <4>4. CASE k # 1
        <5>1. k - 1 \in 1..Len(s)
          BY <1>2, <4>4
        <5>2. low[k] = g[k] /\ low[k - 1] = g[k - 1]
          BY <5>1
        <5> QED
          BY <4>1, <4>4, <5>2
      <4> QED
        BY <4>3, <4>4
    <3> HIDE DEF low
    <3>2. low = [k \in 1..Len(s) |-> low[k]]
      BY DEF low
    <3> QED
      BY <3>1, <3>2 DEF FlattenStep
  <2>3. h = FlattenStep(h, s)
    <3> HIDE DEF low
    <3> QED
      BY <2>2, Zenon
  <2> HIDE DEF h, low
  <2>4. \A k \in 1..Len(s) : h[k] = IF k = 1 THEN s[k] ELSE h[k - 1] \o s[k]
    BY <2>3 DEF FlattenStep
  <2>5. PutTogether(up, s, Len(s))
    <3>1. up[0] = <<>>
      BY <1>2
    <3>2. ASSUME NEW k \in 1..Len(s) PROVE up[k] = up[k - 1] \o s[k]
      <4>1. <<>> \o s[k] = s[k]
        BY <1>2, ConcatEmptySeq
      <4>2. k \in 0..Len(s) /\ k - 1 \in 0..Len(s) /\ k # 0
        BY <1>2
      <4>3. up[k] = h[k] /\ up[k - 1] = IF k - 1 = 0 THEN <<>> ELSE h[k - 1]
        BY <4>2
      <4> HIDE DEF up
      <4>4. CASE k = 1
        BY <2>4, <4>1, <4>3, <4>4
      <4>5. CASE k # 1
        <5>1. k - 1 # 0
          BY <1>2, <4>5
        <5> QED
          BY <2>4, <4>3, <4>5, <5>1
      <4> QED
        BY <4>4, <4>5
    <3> HIDE DEF up
    <3> QED
      BY <3>1, <3>2 DEF PutTogether
  <2>6. up[Len(s)] = h[Len(s)]
    BY <1>2, <1>4
  <2>7. up[Len(s)] = g[Len(s)]
    <3> HIDE DEF up
    <3>1. Len(s) \in 0..Len(s)
      BY <1>2
    <3> QED
      BY <1>1, <2>5, <3>1, OneWayTogether
  <2> QED
    BY <1>1, <2>1, <2>6, <2>7
<1> QED
  BY <1>3, <1>4


\* What is put together of pieces is a sequence of their elements.
LEMMA FlattenType ==
    ASSUME NEW S, NEW s \in Seq(Seq(S))
    PROVE  FlattenSeq(s) \in Seq(S)
<1>1. PICK f \in [0..Len(s) -> Seq(S)] : FlattenSeq(s) = f[Len(s)]
  BY Flattened
<1>2. Len(s) \in 0..Len(s)
  OBVIOUS
<1> QED
  BY <1>1, <1>2

\* A piece more at the end.
LEMMA FlattenAppend ==
    ASSUME NEW S, NEW s \in Seq(Seq(S)), NEW x \in Seq(S)
    PROVE  FlattenSeq(Append(s, x)) = FlattenSeq(s) \o x
<1> DEFINE t == Append(s, x)
           n == Len(s)
<1>1. n \in Nat /\ n \in 0..n /\ n + 1 \in 1..(n + 1) /\ (n + 1) - 1 = n
  OBVIOUS
<1>2. t \in Seq(Seq(S)) /\ Len(t) = n + 1 /\ t[n + 1] = x /\ \A k \in 1..n : t[k] = s[k]
  BY AppendProperties
<1>3. PICK f \in [0..n -> Seq(S)] : PutTogether(f, s, n) /\ FlattenSeq(s) = f[n]
  BY Flattened
<1> HIDE DEF t, n
<1>4. PICK g \in [0..Len(t) -> Seq(S)] :
         PutTogether(g, t, Len(t)) /\ FlattenSeq(t) = g[Len(t)]
  BY <1>2, Flattened
<1>5. PutTogether(g, s, n)
  <2>1. \A k \in 1..n : k \in 1..Len(t)
    BY <1>1, <1>2
  <2> QED
    BY <1>2, <1>4, <2>1 DEF PutTogether
<1>6. g[n] = f[n]
  BY <1>1, <1>3, <1>5, OneWayTogether, ZenonT(60) DEF n
<1>7. g[n + 1] = g[(n + 1) - 1] \o t[n + 1]
  BY <1>1, <1>2, <1>4, Zenon DEF PutTogether
<1> QED
  BY <1>1, <1>2, <1>3, <1>4, <1>6, <1>7 DEF t

\* Of no pieces comes nothing.
LEMMA FlattenNothing == FlattenSeq(<<>>) = <<>>
BY DEF FlattenSeq

\* The beginning of a sequence, and the next element.
LEMMA OneMore ==
    ASSUME NEW S, NEW s \in Seq(S), NEW n \in 0..(Len(s) - 1)
    PROVE  SubSeq(s, 1, n + 1) = Append(SubSeq(s, 1, n), s[n + 1])
<1>1. n \in Nat /\ n + 1 \in 1..Len(s) /\ s[n + 1] \in S
  OBVIOUS
<1>2. /\ SubSeq(s, 1, n) \in Seq(S) /\ Len(SubSeq(s, 1, n)) = n
      /\ \A k \in 1..n : SubSeq(s, 1, n)[k] = s[k]
  OBVIOUS
<1>3. /\ SubSeq(s, 1, n + 1) \in Seq(S) /\ Len(SubSeq(s, 1, n + 1)) = n + 1
      /\ \A k \in 1..(n + 1) : SubSeq(s, 1, n + 1)[k] = s[k]
  OBVIOUS
<1> DEFINE a == Append(SubSeq(s, 1, n), s[n + 1])
           b == SubSeq(s, 1, n + 1)
<1>4. /\ a \in Seq(S) /\ Len(a) = n + 1 /\ a[n + 1] = s[n + 1]
      /\ \A k \in 1..n : a[k] = s[k]
  BY <1>1, <1>2, AppendProperties
<1> HIDE DEF a, b
<1>5. \A k \in 1..Len(b) : b[k] = a[k]
  <2>1. \A k \in 1..(n + 1) : k \in 1..n \/ k = n + 1
    BY <1>1
  <2> QED
    BY <1>1, <1>3, <1>4, <2>1 DEF b
<1>6. b = a
  BY <1>3, <1>4, <1>5, SeqEqual DEF b
<1> QED
  BY <1>6 DEF a, b

\* What stands where in two sequences that are put together.
LEMMA TwoParts ==
    ASSUME NEW S, NEW a \in Seq(S), NEW b \in Seq(S)
    PROVE  /\ a \o b \in Seq(S) /\ Len(a \o b) = Len(a) + Len(b)
           /\ \A m \in 1..Len(a) : (a \o b)[m] = a[m]
           /\ \A m \in 1..Len(b) : (a \o b)[Len(a) + m] = b[m]
<1>1. Len(a) \in Nat /\ Len(b) \in Nat
  OBVIOUS
<1>2. a \o b \in Seq(S) /\ Len(a \o b) = Len(a) + Len(b)
  OBVIOUS
<1>3. \A m \in 1..Len(a) : (a \o b)[m] = a[m]
  OBVIOUS
<1>4. \A m \in 1..Len(b) : (a \o b)[Len(a) + m] = b[m]
  OBVIOUS
<1> QED
  BY <1>2, <1>3, <1>4

\* A sequence from some place on is the element there and the rest.
LEMMA FirstAndRest ==
    ASSUME NEW S, NEW s \in Seq(S), NEW k \in 1..Len(s)
    PROVE  <<s[k]>> \o SubSeq(s, k + 1, Len(s)) = SubSeq(s, k, Len(s))
<1> DEFINE a == <<s[k]>> \o SubSeq(s, k + 1, Len(s))
           b == SubSeq(s, k, Len(s))
           r == SubSeq(s, k + 1, Len(s))
<1>1. /\ Len(s) \in Nat /\ k \in Nat /\ s[k] \in S
      /\ r \in Seq(S) /\ Len(r) = Len(s) - k
      /\ \A m \in 1..(Len(s) - k) : r[m] = s[k + m]
  OBVIOUS
<1>2. /\ b \in Seq(S) /\ Len(b) = Len(s) - k + 1
      /\ \A m \in 1..(Len(s) - k + 1) : b[m] = s[k + m - 1]
  OBVIOUS
<1>3. /\ a \in Seq(S) /\ Len(a) = Len(s) - k + 1 /\ a[1] = s[k]
      /\ \A m \in 2..(Len(s) - k + 1) : a[m] = r[m - 1]
  <2> HIDE DEF r
  <2>1. a = <<s[k]>> \o r
    BY DEF r
  <2> HIDE DEF a
  <2> DEFINE c == <<s[k]>>
  <2>2. c \in Seq(S) /\ Len(c) = 1 /\ c[1] = s[k]
    BY <1>1
  <2>3. a = c \o r
    BY <2>1
  <2> HIDE DEF c
  <2>4. /\ a \in Seq(S) /\ Len(a) = 1 + Len(r) /\ a[1] = c[1]
        /\ \A m \in 1..Len(r) : a[1 + m] = r[m]
    <3>1. 1 \in 1..Len(c)
      BY <2>2
    <3>2. /\ a \in Seq(S) /\ Len(a) = Len(c) + Len(r)
          /\ \A m \in 1..Len(c) : a[m] = c[m]
          /\ \A m \in 1..Len(r) : a[Len(c) + m] = r[m]
      <4>1. c \in Seq(S) /\ r \in Seq(S)
        BY <1>1, <2>2
      <4>2. /\ c \o r \in Seq(S) /\ Len(c \o r) = Len(c) + Len(r)
            /\ \A m \in 1..Len(c) : (c \o r)[m] = c[m]
            /\ \A m \in 1..Len(r) : (c \o r)[Len(c) + m] = r[m]
        BY <4>1, TwoParts
      <4> QED
        BY <2>3, <4>2, Zenon
    <3> QED
      BY <2>2, <3>1, <3>2
  <2>5. \A m \in 2..(Len(s) - k + 1) : m - 1 \in 1..Len(r) /\ 1 + (m - 1) = m
    BY <1>1
  <2> QED
    BY <1>1, <2>2, <2>4, <2>5
<1> HIDE DEF a, b, r
<1>4. \A m \in 1..Len(a) : a[m] = b[m]
  <2>1. ASSUME NEW m \in 1..Len(a) PROVE a[m] = b[m]
    <3>1. CASE m = 1
      <4>1. k + 1 - 1 = k
        BY <1>1
      <4> QED
        BY <1>1, <1>2, <1>3, <3>1, <4>1
    <3>2. CASE m # 1
      <4>1. m \in 2..(Len(s) - k + 1) /\ m - 1 \in 1..(Len(s) - k)
            /\ k + (m - 1) = k + m - 1 /\ m \in 1..(Len(s) - k + 1)
        BY <1>1, <1>3, <3>2
      <4>2. a[m] = r[m - 1] /\ r[m - 1] = s[k + (m - 1)] /\ b[m] = s[k + m - 1]
        BY <1>1, <1>2, <1>3, <4>1
      <4> QED
        BY <4>1, <4>2
    <3> QED
      BY <3>1, <3>2
  <2> QED
    BY <2>1
<1>5. a = b
  BY <1>2, <1>3, <1>4, SeqEqual
<1> QED
  BY <1>5 DEF a, b, r

\* A sequence that is cut and put together again.
LEMMA CutInTwo ==
    ASSUME NEW S, NEW s \in Seq(S), NEW k \in 1..Len(s)
    PROVE  SubSeq(s, 1, k - 1) \o SubSeq(s, k, Len(s)) = s
<1> DEFINE a == SubSeq(s, 1, k - 1)
           b == SubSeq(s, k, Len(s))
<1>1. k \in Nat /\ Len(s) \in Nat /\ k - 1 \in Nat /\ k - 1 <= Len(s)
  OBVIOUS
<1>2. /\ a \in Seq(S) /\ Len(a) = k - 1
      /\ \A m \in 1..(k - 1) : a[m] = s[m]
  OBVIOUS
<1>3. /\ b \in Seq(S) /\ Len(b) = Len(s) - k + 1
      /\ \A m \in 1..(Len(s) - k + 1) : b[m] = s[k + m - 1]
  OBVIOUS
<1> HIDE DEF a, b
<1> DEFINE c == a \o b
<1>4. /\ c \in Seq(S) /\ Len(c) = Len(a) + Len(b)
      /\ \A m \in 1..Len(a) : c[m] = a[m]
      /\ \A m \in 1..Len(b) : c[Len(a) + m] = b[m]
  <2>1. a \in Seq(S) /\ b \in Seq(S)
    BY <1>2, <1>3
  <2> QED
    BY <2>1, TwoParts
<1> HIDE DEF c
<1>5. Len(c) = Len(s)
  BY <1>1, <1>2, <1>3, <1>4
<1>6. ASSUME NEW m \in 1..Len(c) PROVE c[m] = s[m]
  <2>1. CASE m <= k - 1
    <3>1. m \in 1..(k - 1)
      BY <1>1, <2>1
    <3> QED
      BY <1>2, <1>4, <3>1
  <2>2. CASE k <= m
    <3> DEFINE p == m - k + 1
    <3>1. p \in 1..(Len(s) - k + 1) /\ (k - 1) + p = m /\ k + p - 1 = m
      BY <1>1, <1>5, <2>2
    <3> HIDE DEF p
    <3>2. c[(k - 1) + p] = b[p] /\ b[p] = s[k + p - 1]
      BY <1>2, <1>3, <1>4, <3>1
    <3> QED
      BY <3>1, <3>2
  <2> QED
    BY <1>1, <1>5, <2>1, <2>2
<1>7. c = s
  BY <1>4, <1>5, <1>6, SeqEqual
<1> QED
  BY <1>7 DEF a, b, c

-----------------------------------------------------------------------------
(* The lines of an .env file *)

\* Every line is of one of three kinds; the blank one has no key.
LEMMA KindsOfLines ==
    /\ Blank \in Lines /\ Blank.key = "none"
    /\ \A line \in Lines : line.key \in {"none", "pw", "hash"} /\ line.value \in Seq(Chars)
BY EmptySeq DEF Blank, Line, Lines

\* What composeEscape makes is characters.
LEMMA EscapedType ==
    ASSUME NEW v \in Seq(Chars)
    PROVE  /\ [k \in DOMAIN v |-> IF v[k] = "$" THEN <<"$", "$">> ELSE <<v[k]>>] \in Seq(Seq(Chars))
           /\ composeEscape(v) \in Seq(Chars)
<1> DEFINE e == [k \in DOMAIN v |-> IF v[k] = "$" THEN <<"$", "$">> ELSE <<v[k]>>]
<1>1. ASSUME NEW k \in DOMAIN v PROVE e[k] \in Seq(Chars)
  <2>1. v[k] \in Chars /\ "$" \in Chars
    BY DEF Chars
  <2>2. <<"$", "$">> \in Seq(Chars) /\ <<v[k]>> \in Seq(Chars)
    BY <2>1
  <2> QED
    BY <2>2
<1>2. e \in Seq(Seq(Chars))
  <2>1. e = [k \in 1..Len(v) |-> e[k]] /\ Len(v) \in Nat /\ DOMAIN v = 1..Len(v)
    OBVIOUS
  <2> HIDE DEF e
  <2> QED
    BY <1>1, <2>1
<1>3. composeEscape(v) = FlattenSeq(e)
  BY DEF composeEscape
<1> QED
  BY <1>2, <1>3, FlattenType

\* The line with the hash is a line, with its key and its value.
LEMMA HashLineType ==
    ASSUME NEW h \in Seq(Chars)
    PROVE  /\ HashLine(h) \in Lines /\ HashLine(h).key = "hash"
           /\ HashLine(h).value = composeEscape(h) /\ HashLine(h) # Blank
BY EscapedType DEF HashLine, Line, Lines, Blank

\* What is kept of one line.
Kept(line, key) == IF line.key = key THEN <<line>> ELSE <<>>

\* The lines with some key are lines.
LEMMA HavingType ==
    ASSUME NEW s \in Seq(Lines), NEW key
    PROVE  /\ [k \in DOMAIN s |-> Kept(s[k], key)] \in Seq(Seq(Lines))
           /\ Having(s, key) = FlattenSeq([k \in DOMAIN s |-> Kept(s[k], key)])
           /\ Having(s, key) \in Seq(Lines)
<1>1. \A k \in 1..Len(s) : Kept(s[k], key) \in Seq(Lines)
  BY EmptySeq DEF Kept
<1>2. [k \in DOMAIN s |-> Kept(s[k], key)] \in Seq(Seq(Lines))
  BY <1>1
<1>3. Having(s, key) = FlattenSeq([k \in DOMAIN s |-> Kept(s[k], key)])
  BY DEF Having, Kept
<1> QED
  BY <1>2, <1>3, FlattenType

\* The lines with some key, when a line is appended.
LEMMA HavingAppend ==
    ASSUME NEW s \in Seq(Lines), NEW x \in Lines, NEW key
    PROVE  /\ x.key = key => Having(Append(s, x), key) = Append(Having(s, key), x)
           /\ x.key # key => Having(Append(s, x), key) = Having(s, key)
<1> DEFINE a == Append(s, x)
           P == [k \in DOMAIN s |-> Kept(s[k], key)]
           Q == [k \in DOMAIN a |-> Kept(a[k], key)]
<1>1. /\ a \in Seq(Lines) /\ Len(a) = Len(s) + 1 /\ a[Len(s) + 1] = x
      /\ \A k \in 1..Len(s) : a[k] = s[k]
      /\ Len(s) \in Nat
  BY AppendProperties
<1>2. /\ P \in Seq(Seq(Lines)) /\ Q \in Seq(Seq(Lines)) /\ Kept(x, key) \in Seq(Lines)
      /\ Having(s, key) = FlattenSeq(P) /\ Having(a, key) = FlattenSeq(Q)
      /\ Having(s, key) \in Seq(Lines)
  <2> HIDE DEF a
  <2>1. Kept(x, key) \in Seq(Lines)
    BY EmptySeq DEF Kept
  <2> QED
    BY <1>1, <2>1, HavingType
<1>3. Q = Append(P, Kept(x, key))
  <2>1. /\ Len(P) = Len(s) /\ Len(Q) = Len(s) + 1
        /\ \A k \in 1..Len(s) : P[k] = Kept(s[k], key)
        /\ \A k \in 1..(Len(s) + 1) : Q[k] = Kept(a[k], key)
    <3> HIDE DEF a
    <3> QED
      BY <1>1
  <2> HIDE DEF a, P, Q
  <2> DEFINE R == Append(P, Kept(x, key))
  <2>2. /\ R \in Seq(Seq(Lines)) /\ Len(R) = Len(s) + 1
        /\ R[Len(s) + 1] = Kept(x, key) /\ \A k \in 1..Len(s) : R[k] = P[k]
    BY <1>2, <2>1, AppendProperties
  <2> HIDE DEF R
  <2>3. \A k \in 1..(Len(s) + 1) : Q[k] = R[k]
    <3>1. \A k \in 1..(Len(s) + 1) : k \in 1..Len(s) \/ k = Len(s) + 1
      BY <1>1
    <3> QED
      BY <1>1, <2>1, <2>2, <3>1
  <2>4. Q = R
    BY <1>2, <2>1, <2>2, <2>3, SeqEqual
  <2> QED
    BY <2>4 DEF R
<1> HIDE DEF a, P, Q
<1>4. Having(a, key) = Having(s, key) \o Kept(x, key)
  BY <1>2, <1>3, FlattenAppend
<1>5. Having(s, key) \o <<>> = Having(s, key) /\ Having(s, key) \o <<x>> = Append(Having(s, key), x)
  BY <1>2, ConcatEmptySeq, AppendIsConcat
<1> QED
  BY <1>4, <1>5 DEF Kept, a

\* In no lines, none has the key.
LEMMA HavingNothing == ASSUME NEW key PROVE Having(<<>>, key) = <<>>
BY FlattenNothing DEF Having


\* The part of a file that is no blank line at its end.
LEMMA TrimmedIs ==
    ASSUME NEW s \in Seq(Lines)
    PROVE  \E n \in 0..Len(s) :
              /\ n = 0 \/ s[n] # Blank
              /\ \A k \in (n + 1)..Len(s) : s[k] = Blank
              /\ Trimmed(s) = SubSeq(s, 1, n)
<1> DEFINE ends(n) == (n = 0 \/ s[n] # Blank) /\ \A k \in (n + 1)..Len(s) : s[k] = Blank
           T == {n \in 0..Len(s) : \A k \in (n + 1)..Len(s) : s[k] = Blank}
<1>1. Len(s) \in Nat
  OBVIOUS
<1>2. \E n \in 0..Len(s) : ends(n)
  <2>1. Len(s) \in T
    BY <1>1
  <2>2. PICK n \in T : \A m \in T : n <= m
    <3>1. T \subseteq Nat /\ T # {}
      BY <1>1, <2>1
    <3> HIDE DEF T
    <3> QED
      BY <3>1, LeastNumber
  <2>3. ASSUME n # 0, s[n] = Blank PROVE FALSE
    <3>1. n - 1 \in 0..Len(s) /\ \A k \in ((n - 1) + 1)..Len(s) : k = n \/ k \in (n + 1)..Len(s)
      BY <1>1, <2>2, <2>3
    <3>2. n - 1 \in T
      BY <2>2, <2>3, <3>1
    <3>3. n \in Nat
      BY <1>1, <2>2
    <3> HIDE DEF T
    <3>4. n <= n - 1
      BY <2>2, <3>2
    <3> QED
      BY <3>3, <3>4
  <2> QED
    BY <2>2, <2>3
<1> DEFINE m == CHOOSE n \in 0..Len(s) : ends(n)
<1>3. m \in 0..Len(s) /\ ends(m)
  <2> HIDE DEF ends
  <2> QED
    BY <1>2, Zenon
<1>4. Trimmed(s) = SubSeq(s, 1, m)
  BY DEF Trimmed
<1> QED
  BY <1>3, <1>4

\* There is one such part only.
LEMMA TrimmedAt ==
    ASSUME NEW s \in Seq(Lines), NEW n \in 0..Len(s), n = 0 \/ s[n] # Blank,
           \A k \in (n + 1)..Len(s) : s[k] = Blank
    PROVE  Trimmed(s) = SubSeq(s, 1, n)
<1>1. PICK m \in 0..Len(s) :
         /\ m = 0 \/ s[m] # Blank
         /\ \A k \in (m + 1)..Len(s) : s[k] = Blank
         /\ Trimmed(s) = SubSeq(s, 1, m)
  BY TrimmedIs
<1>2. Len(s) \in Nat
  OBVIOUS
<1>3. ~(m < n) /\ ~(n < m)
  BY <1>1, <1>2
<1>4. m = n
  BY <1>2, <1>3
<1> QED
  BY <1>1, <1>4

\* An empty line at the end is trimmed away.
LEMMA BlankIsTrimmed ==
    ASSUME NEW s \in Seq(Lines)
    PROVE  Trimmed(Append(s, Blank)) = Trimmed(s)
<1> DEFINE a == Append(s, Blank)
<1>1. PICK n \in 0..Len(s) :
         /\ n = 0 \/ s[n] # Blank
         /\ \A k \in (n + 1)..Len(s) : s[k] = Blank
         /\ Trimmed(s) = SubSeq(s, 1, n)
  BY TrimmedIs
<1>2. /\ a \in Seq(Lines) /\ Len(a) = Len(s) + 1 /\ a[Len(s) + 1] = Blank
      /\ \A k \in 1..Len(s) : a[k] = s[k]
      /\ Len(s) \in Nat
  BY AppendProperties, KindsOfLines
<1> HIDE DEF a
<1>3. n \in 0..Len(a) /\ (n = 0 \/ a[n] # Blank)
  BY <1>1, <1>2
<1>4. ASSUME NEW k \in (n + 1)..Len(a) PROVE a[k] = Blank
  <2>1. k = Len(s) + 1 \/ (k \in (n + 1)..Len(s) /\ k \in 1..Len(s))
    BY <1>2
  <2> QED
    BY <1>1, <1>2, <2>1
<1>5. Trimmed(a) = SubSeq(a, 1, n)
  BY <1>2, <1>3, <1>4, TrimmedAt
<1>6. SubSeq(a, 1, n) = SubSeq(s, 1, n)
  <2>1. /\ SubSeq(a, 1, n) \in Seq(Lines) /\ SubSeq(s, 1, n) \in Seq(Lines)
        /\ Len(SubSeq(a, 1, n)) = n /\ Len(SubSeq(s, 1, n)) = n
        /\ \A k \in 1..n : SubSeq(a, 1, n)[k] = a[k] /\ SubSeq(s, 1, n)[k] = s[k]
    BY <1>2, <1>3
  <2>2. \A k \in 1..n : a[k] = s[k]
    BY <1>2
  <2> QED
    BY <2>1, <2>2, SeqEqual
<1> QED
  BY <1>1, <1>5, <1>6 DEF a

\* What is trimmed ends in no blank line, and the lines that it has are those
\* of the file.
LEMMA TrimmedEnds ==
    ASSUME NEW s \in Seq(Lines)
    PROVE  LET t == Trimmed(s) IN
           /\ t \in Seq(Lines) /\ Len(t) \in 0..Len(s)
           /\ \A k \in 1..Len(t) : t[k] = s[k]
           /\ \A k \in (Len(t) + 1)..Len(s) : s[k] = Blank
           /\ t # <<>> => t[Len(t)] # Blank
           /\ t = SubSeq(s, 1, Len(t))
           /\ Trimmed(t) = t
<1> DEFINE t == Trimmed(s)
<1>1. PICK n \in 0..Len(s) :
         /\ n = 0 \/ s[n] # Blank
         /\ \A k \in (n + 1)..Len(s) : s[k] = Blank
         /\ t = SubSeq(s, 1, n)
  BY TrimmedIs
<1> HIDE DEF t
<1>2. /\ t \in Seq(Lines) /\ Len(t) = n /\ n \in Nat /\ Len(s) \in Nat
      /\ \A k \in 1..n : t[k] = s[k]
  BY <1>1
<1>3. t # <<>> => t[Len(t)] # Blank
  BY <1>1, <1>2
<1>4. Trimmed(t) = SubSeq(t, 1, Len(t))
  <2>1. Len(t) \in 0..Len(t) /\ \A k \in (Len(t) + 1)..Len(t) : t[k] = Blank
    BY <1>2
  <2>2. Len(t) = 0 \/ t[Len(t)] # Blank
    BY <1>1, <1>2
  <2> QED
    BY <1>2, <2>1, <2>2, TrimmedAt
<1>5. SubSeq(t, 1, Len(t)) = t
  BY <1>2, SubSeqFull
<1> QED
  BY <1>1, <1>2, <1>3, <1>4, <1>5 DEF t

\* No password, and at most one line for the hash, which is this one.
Clean(s, h) ==
    /\ \A k \in 1..Len(s) : s[k].key # "pw" /\ (s[k].key = "hash" => s[k] = HashLine(h))
    /\ \A k, m \in 1..Len(s) : s[k].key = "hash" /\ s[m].key = "hash" => k = m

\* A line more, if it may stand there, leaves the lines clean.
LEMMA CleanAppend ==
    ASSUME NEW s \in Seq(Lines), NEW h, Clean(s, h), NEW x \in Lines, x.key # "pw",
           x.key = "hash" => x = HashLine(h) /\ ~HasHash(s)
    PROVE  /\ Clean(Append(s, x), h)
           /\ HasHash(Append(s, x)) <=> HasHash(s) \/ x.key = "hash"
<1> DEFINE a == Append(s, x)
<1>1. /\ a \in Seq(Lines) /\ Len(a) = Len(s) + 1 /\ a[Len(s) + 1] = x
      /\ \A k \in 1..Len(s) : a[k] = s[k]
      /\ Len(s) \in Nat
  BY AppendProperties
<1>2. /\ HasHash(s) <=> \E k \in 1..Len(s) : s[k].key = "hash"
      /\ HasHash(a) <=> \E k \in 1..Len(a) : a[k].key = "hash"
  <2> HIDE DEF a
  <2>1. DOMAIN s = 1..Len(s) /\ DOMAIN a = 1..Len(a)
    BY <1>1
  <2> QED
    BY <2>1 DEF HasHash
<1> HIDE DEF a
<1>3. \A k \in 1..Len(a) : k \in 1..Len(s) \/ k = Len(s) + 1
  BY <1>1
<1>4. \A k \in 1..Len(s) : k \in 1..Len(a)
  BY <1>1
<1>5. Len(s) + 1 \in 1..Len(a)
  BY <1>1
<1>6. Clean(a, h)
  <2>1. \A k \in 1..Len(a) : a[k].key # "pw" /\ (a[k].key = "hash" => a[k] = HashLine(h))
    BY <1>1, <1>3 DEF Clean
  <2>2. ASSUME NEW k \in 1..Len(a), NEW m \in 1..Len(a), a[k].key = "hash", a[m].key = "hash"
        PROVE  k = m
    BY <1>1, <1>2, <1>3, <2>2 DEF Clean
  <2> QED
    BY <2>1, <2>2 DEF Clean
<1>7. HasHash(a) <=> HasHash(s) \/ x.key = "hash"
  BY <1>1, <1>2, <1>3, <1>4, <1>5
<1> QED
  BY <1>6, <1>7 DEF a

-----------------------------------------------------------------------------
(* The lines that are written *)

\* What is known of the first n lines when they have been gone through, and o is
\* what is left of them.
OutInv(s, h, n, o) ==
    /\ o \in Seq(Lines) /\ Clean(o, h)
    /\ HasHash(o) <=> \E k \in 1..n : s[k].key = "hash"
    /\ Having(o, "none") = Having(SubSeq(s, 1, n), "none")

\* The loop over the lines keeps what it has written clean.
LEMMA OutStep ==
    ASSUME NEW s \in Seq(Lines), NEW h \in Seq(Chars), NEW n \in 0..(Len(s) - 1),
           NEW o, OutInv(s, h, n, o)
    PROVE  OutInv(s, h, n + 1, o \o Rewritten(s, n + 1, h))
<1> DEFINE x == s[n + 1]
           first == SubSeq(s, 1, n)
<1>1. n \in Nat /\ n + 1 \in 1..Len(s) /\ x \in Lines /\ first \in Seq(Lines)
      /\ (n + 1) - 1 = n
  OBVIOUS
<1>2. SubSeq(s, 1, n + 1) = Append(first, x)
  BY OneMore
<1>3. \A k \in 1..(n + 1) : k \in 1..n \/ k = n + 1
  BY <1>1
<1>4. /\ o \in Seq(Lines) /\ Clean(o, h) /\ (HasHash(o) <=> \E k \in 1..n : s[k].key = "hash")
      /\ Having(o, "none") = Having(first, "none")
  BY DEF OutInv
<1>5. (\E k \in 1..(n + 1) : s[k].key = "hash") <=> HasHash(o) \/ x.key = "hash"
  BY <1>1, <1>3, <1>4
<1>6. x.key \in {"none", "pw", "hash"}
  BY <1>1, KindsOfLines
<1>7. o \o <<>> = o /\ \A y \in Lines : o \o <<y>> = Append(o, y) /\ Append(o, y) \in Seq(Lines)
  BY <1>4, ConcatEmptySeq, AppendIsConcat, AppendProperties
<1>8. ASSUME Rewritten(s, n + 1, h) = <<>>, x.key # "none", HasHash(o) \/ x.key # "hash"
      PROVE  OutInv(s, h, n + 1, o \o Rewritten(s, n + 1, h))
  <2>1. Having(Append(first, x), "none") = Having(first, "none")
    <3> HIDE DEF x, first
    <3> QED
      BY <1>1, <1>8, HavingAppend
  <2> HIDE DEF x, first
  <2> QED
    BY <1>2, <1>4, <1>5, <1>7, <1>8, <2>1 DEF OutInv
<1>9. ASSUME NEW y \in Lines, Rewritten(s, n + 1, h) = <<y>>, y.key = x.key, y.key # "pw",
             y.key = "hash" => y = HashLine(h) /\ ~HasHash(o),
             y.key = "none" => y = x
      PROVE  OutInv(s, h, n + 1, o \o Rewritten(s, n + 1, h))
  <2> HIDE DEF x, first
  <2>1. Clean(Append(o, y), h) /\ (HasHash(Append(o, y)) <=> HasHash(o) \/ y.key = "hash")
    BY <1>4, <1>9, CleanAppend
  <2>2. Having(Append(o, y), "none") = Having(Append(first, x), "none")
    <3>1. CASE y.key = "none"
      <4>1. x.key = "none" /\ y = x
        BY <1>9, <3>1
      <4>2. Having(Append(o, x), "none") = Append(Having(o, "none"), x)
            /\ Having(Append(first, x), "none") = Append(Having(first, "none"), x)
        BY <1>1, <1>4, <4>1, HavingAppend
      <4> QED
        BY <1>4, <4>1, <4>2
    <3>2. CASE y.key # "none"
      <4>1. x.key # "none"
        BY <1>9, <3>2
      <4>2. Having(Append(o, y), "none") = Having(o, "none")
        BY <1>4, <1>9, <3>2, HavingAppend
      <4>3. Having(Append(first, x), "none") = Having(first, "none")
        BY <1>1, <4>1, HavingAppend
      <4> QED
        BY <1>4, <4>2, <4>3
    <3> QED
      BY <3>1, <3>2
  <2> QED
    BY <1>2, <1>5, <1>7, <1>9, <2>1, <2>2 DEF OutInv
<1>10. CASE x.key = "pw"
  BY <1>8, <1>10 DEF Rewritten
<1>11. CASE x.key = "none"
  <2>1. Rewritten(s, n + 1, h) = <<x>>
    BY <1>11 DEF Rewritten
  <2> QED
    BY <1>1, <1>9, <1>11, <2>1
<1>12. CASE x.key = "hash"
  <2>1. Rewritten(s, n + 1, h) = IF HasHash(o) THEN <<>> ELSE <<HashLine(h)>>
    BY <1>1, <1>4, <1>12 DEF Rewritten
  <2>2. HashLine(h) \in Lines /\ HashLine(h).key = "hash"
    BY HashLineType
  <2> QED
    BY <1>8, <1>9, <1>12, <2>1, <2>2
<1> QED
  BY <1>6, <1>10, <1>11, <1>12

\* The lines of a file, each as it is in the new one.
Pieces(s, h) == [k \in DOMAIN s |-> Rewritten(s, k, h)]

\* Each line of a file gives a sequence of lines.
LEMMA PiecesType ==
    ASSUME NEW s \in Seq(Lines), NEW h \in Seq(Chars)
    PROVE  Pieces(s, h) \in Seq(Seq(Lines)) /\ Len(Pieces(s, h)) = Len(s)
<1>1. HashLine(h) \in Lines
  BY HashLineType
<1>2. ASSUME NEW k \in 1..Len(s) PROVE Rewritten(s, k, h) \in Seq(Lines)
  <2>1. s[k] \in Lines /\ s[k].key \in {"none", "pw", "hash"}
    BY KindsOfLines
  <2>2. Rewritten(s, k, h) = <<>> \/ Rewritten(s, k, h) = <<s[k]>>
           \/ Rewritten(s, k, h) = <<HashLine(h)>>
    BY <2>1, Zenon DEF Rewritten
  <2>3. <<>> \in Seq(Lines) /\ <<s[k]>> \in Seq(Lines) /\ <<HashLine(h)>> \in Seq(Lines)
    BY <1>1, <2>1
  <2> QED
    BY <2>2, <2>3, Zenon
<1>3. Pieces(s, h) = [k \in 1..Len(s) |-> Rewritten(s, k, h)] /\ Len(s) \in Nat
  <2>1. DOMAIN s = 1..Len(s) /\ Len(s) \in Nat
    OBVIOUS
  <2> QED
    BY <2>1, Zenon DEF Pieces
<1>4. [k \in 1..Len(s) |-> Rewritten(s, k, h)] \in [1..Len(s) -> Seq(Lines)]
  BY <1>2, Zenon
<1> DEFINE P == [k \in 1..Len(s) |-> Rewritten(s, k, h)]
<1> HIDE DEF P
<1>5. \A n \in Nat : \A f \in [1..n -> Seq(Lines)] : f \in Seq(Seq(Lines)) /\ Len(f) = n
  OBVIOUS
<1>6. P \in [1..Len(s) -> Seq(Lines)]
  BY <1>4 DEF P
<1>7. P \in Seq(Seq(Lines)) /\ Len(P) = Len(s)
  BY <1>3, <1>5, <1>6, Zenon
<1> QED
  BY <1>3, <1>7, Zenon DEF P

\* What the loop has written is the rewritten lines, put together.
LEMMA OutIs ==
    ASSUME NEW s \in Seq(Lines), NEW h \in Seq(Chars)
    PROVE  OutInv(s, h, Len(s), FlattenSeq(Pieces(s, h)))
<1>1. Pieces(s, h) \in Seq(Seq(Lines)) /\ Len(Pieces(s, h)) = Len(s) /\ Len(s) \in Nat
  BY PiecesType
<1>2. PICK f \in [0..Len(s) -> Seq(Lines)] :
         PutTogether(f, Pieces(s, h), Len(s)) /\ FlattenSeq(Pieces(s, h)) = f[Len(s)]
  BY <1>1, Flattened
<1> DEFINE P == {n \in 0..Len(s) : OutInv(s, h, n, f[n])}
<1>3. 0 \in P
  <2>1. f[0] = <<>> /\ SubSeq(s, 1, 0) = <<>> /\ <<>> \in Seq(Lines)
    BY <1>2 DEF PutTogether
  <2>2. Clean(<<>>, h) /\ ~HasHash(<<>>)
    BY DEF Clean, HasHash
  <2>3. ~\E k \in 1..0 : s[k].key = "hash"
    OBVIOUS
  <2>4. OutInv(s, h, 0, f[0])
    BY <2>1, <2>2, <2>3, Zenon DEF OutInv
  <2> QED
    BY <1>1, <2>4
<1>4. ASSUME NEW n \in 0..(Len(s) - 1), n \in P PROVE n + 1 \in P
  <2>1. n + 1 \in 1..Len(s) /\ n + 1 \in 0..Len(s) /\ (n + 1) - 1 = n
        /\ n + 1 \in DOMAIN s
    BY <1>1
  <2>2. f[n + 1] = f[(n + 1) - 1] \o Pieces(s, h)[n + 1]
    BY <1>2, <2>1, Zenon DEF PutTogether
  <2>3. f[n + 1] = f[n] \o Rewritten(s, n + 1, h)
    BY <2>1, <2>2 DEF Pieces
  <2>4. OutInv(s, h, n + 1, f[n + 1])
    BY <1>4, <2>3, OutStep
  <2> QED
    BY <2>1, <2>4
<1> HIDE DEF P
<1>5. \A n \in 0..Len(s) : n \in P
  BY <1>1, <1>3, <1>4, CountingUp
<1>6. Len(s) \in 0..Len(s)
  BY <1>1
<1> QED
  BY <1>2, <1>5, <1>6 DEF P

\* The other lines are kept, each in its place.
LEMMA HavingClean ==
    ASSUME NEW s \in Seq(Lines), NEW h \in Seq(Chars), Clean(s, h)
    PROVE  /\ Having(s, "pw") = <<>>
           /\ HasHash(s) => Having(s, "hash") = <<HashLine(h)>>
<1> DEFINE hashed(n) == \E k \in 1..n : s[k].key = "hash"
           ok(n) == /\ Having(SubSeq(s, 1, n), "pw") = <<>>
                    /\ Having(SubSeq(s, 1, n), "hash") =
                          IF hashed(n) THEN <<HashLine(h)>> ELSE <<>>
           P == {n \in 0..Len(s) : ok(n)}
<1>1. Len(s) \in Nat
  OBVIOUS
<1>2. 0 \in P
  <2>1. SubSeq(s, 1, 0) = <<>> /\ ~hashed(0)
    OBVIOUS
  <2> HIDE DEF hashed
  <2>2. ok(0)
    BY <2>1, HavingNothing, Zenon
  <2> HIDE DEF ok
  <2> QED
    BY <1>1, <2>2
<1>3. ASSUME NEW n \in 0..(Len(s) - 1), n \in P PROVE n + 1 \in P
  <2> DEFINE x == s[n + 1]
             first == SubSeq(s, 1, n)
  <2>1. n + 1 \in 1..Len(s) /\ n + 1 \in 0..Len(s) /\ x \in Lines /\ first \in Seq(Lines)
    BY <1>1
  <2>2. SubSeq(s, 1, n + 1) = Append(first, x)
    BY OneMore
  <2>3. x.key \in {"none", "hash"} /\ (x.key = "hash" => x = HashLine(h))
    BY <2>1, KindsOfLines DEF Clean
  <2>4. \A k \in 1..(n + 1) : k \in 1..n \/ k = n + 1
    BY <1>1
  <2>5. hashed(n + 1) <=> hashed(n) \/ x.key = "hash"
    BY <2>1, <2>4
  <2>6. x.key = "hash" => ~hashed(n)
    <3>1. \A k \in 1..n : k \in 1..Len(s) /\ k # n + 1
      BY <1>1
    <3> QED
      BY <2>1, <3>1 DEF Clean
  <2>7. Having(first, "pw") = <<>>
        /\ Having(first, "hash") = IF hashed(n) THEN <<HashLine(h)>> ELSE <<>>
    BY <1>3
  <2> HIDE DEF hashed, x, first
  <2>8. Having(Append(first, x), "pw") = <<>>
    BY <2>1, <2>3, <2>7, HavingAppend
  <2>9. Having(Append(first, x), "hash") = IF hashed(n + 1) THEN <<HashLine(h)>> ELSE <<>>
    <3>1. CASE x.key = "hash"
      <4>1. Having(Append(first, x), "hash") = Append(Having(first, "hash"), x)
        BY <2>1, <3>1, HavingAppend
      <4>2. Append(<<>>, x) = <<x>>
        OBVIOUS
      <4> QED
        BY <2>3, <2>5, <2>6, <2>7, <3>1, <4>1, <4>2
    <3>2. CASE x.key # "hash"
      BY <2>1, <2>5, <2>7, <3>2, HavingAppend
    <3> QED
      BY <3>1, <3>2
  <2> QED
    BY <2>1, <2>2, <2>8, <2>9
<1> HIDE DEF P
<1>4. \A n \in 0..Len(s) : n \in P
  BY <1>1, <1>2, <1>3, CountingUp
<1>5. Len(s) \in P
  BY <1>1, <1>4
<1>6. SubSeq(s, 1, Len(s)) = s
  BY SubSeqFull
<1>7. HasHash(s) <=> hashed(Len(s))
  BY DEF HasHash
<1> QED
  BY <1>5, <1>6, <1>7 DEF P

\* The empty lines at the end are none of those that are kept.
LEMMA TrimmedHaving ==
    ASSUME NEW s \in Seq(Lines)
    PROVE  Trimmed(Having(Trimmed(s), "none")) = Trimmed(Having(s, "none"))
<1> DEFINE t == Trimmed(s)
           L == Len(t)
           P == {d \in 0..(Len(s) - L) :
                   Trimmed(Having(SubSeq(s, 1, L + d), "none")) = Trimmed(Having(t, "none"))}
<1>1. /\ t \in Seq(Lines) /\ L \in 0..Len(s) /\ t = SubSeq(s, 1, L)
      /\ \A k \in (L + 1)..Len(s) : s[k] = Blank
      /\ Len(s) \in Nat
  BY TrimmedEnds
<1> HIDE DEF L, t
<1>2. Len(s) - L \in Nat /\ L \in Nat
  BY <1>1
<1>3. 0 \in P
  <2>1. L + 0 = L
    BY <1>2
  <2> QED
    BY <1>1, <1>2, <2>1
<1>4. ASSUME NEW d \in 0..((Len(s) - L) - 1), d \in P PROVE d + 1 \in P
  <2> DEFINE m == L + d
             first == SubSeq(s, 1, m)
  <2>1. m \in 0..(Len(s) - 1) /\ m + 1 \in (L + 1)..Len(s) /\ L + (d + 1) = m + 1
        /\ d + 1 \in 0..(Len(s) - L)
    BY <1>1, <1>2
  <2>2. Trimmed(Having(first, "none")) = Trimmed(Having(t, "none"))
    BY <1>4
  <2> HIDE DEF m
  <2>3. SubSeq(s, 1, m + 1) = Append(first, Blank)
    <3>1. SubSeq(s, 1, m + 1) = Append(first, s[m + 1])
      BY <2>1, OneMore
    <3> QED
      BY <1>1, <2>1, <3>1
  <2>4. first \in Seq(Lines)
    BY <2>1
  <2> HIDE DEF first
  <2>5. Having(Append(first, Blank), "none") = Append(Having(first, "none"), Blank)
    BY <2>4, KindsOfLines, HavingAppend
  <2>6. Trimmed(Append(Having(first, "none"), Blank)) = Trimmed(Having(first, "none"))
    <3>1. Having(first, "none") \in Seq(Lines)
      BY <2>4, HavingType
    <3> QED
      BY <3>1, BlankIsTrimmed
  <2> QED
    BY <2>1, <2>2, <2>3, <2>5, <2>6
<1> HIDE DEF P
<1>5. \A d \in 0..(Len(s) - L) : d \in P
  BY <1>2, <1>3, <1>4, CountingUp
<1>6. Len(s) - L \in P /\ L + (Len(s) - L) = Len(s)
  BY <1>2, <1>5
<1>7. SubSeq(s, 1, Len(s)) = s
  BY SubSeqFull
<1> QED
  BY <1>6, <1>7 DEF P, t

\* There is nothing more to be done about such lines.
LEMMA CleanStays ==
    ASSUME NEW s \in Seq(Lines), NEW h \in Seq(Chars), Clean(s, h)
    PROVE  FlattenSeq(Pieces(s, h)) = s
<1>1. Pieces(s, h) \in Seq(Seq(Lines)) /\ Len(Pieces(s, h)) = Len(s) /\ Len(s) \in Nat
  BY PiecesType
<1>2. PICK f \in [0..Len(s) -> Seq(Lines)] :
         PutTogether(f, Pieces(s, h), Len(s)) /\ FlattenSeq(Pieces(s, h)) = f[Len(s)]
  BY <1>1, Flattened
<1>3. ASSUME NEW k \in 1..Len(s) PROVE Rewritten(s, k, h) = <<s[k]>>
  <2>1. s[k].key \in {"none", "hash"} /\ (s[k].key = "hash" => s[k] = HashLine(h))
    BY KindsOfLines DEF Clean
  <2>2. ASSUME s[k].key = "hash" PROVE ~\E m \in 1..(k - 1) : s[m].key = "hash"
    <3>1. \A m \in 1..(k - 1) : m \in 1..Len(s) /\ m # k
      BY <1>1
    <3> QED
      BY <2>2, <3>1 DEF Clean
  <2>3. CASE s[k].key = "none"
    BY <2>3 DEF Rewritten
  <2>4. CASE s[k].key = "hash"
    BY <2>1, <2>2, <2>4 DEF Rewritten
  <2> QED
    BY <2>1, <2>3, <2>4
<1> DEFINE P == {n \in 0..Len(s) : f[n] = SubSeq(s, 1, n)}
<1>4. 0 \in P
  <2>1. f[0] = <<>> /\ SubSeq(s, 1, 0) = <<>>
    BY <1>2 DEF PutTogether
  <2>2. f[0] = SubSeq(s, 1, 0)
    BY <2>1, Zenon
  <2> QED
    BY <1>1, <2>2
<1>5. ASSUME NEW n \in 0..(Len(s) - 1), n \in P PROVE n + 1 \in P
  <2>1. n + 1 \in 1..Len(s) /\ n + 1 \in 0..Len(s) /\ (n + 1) - 1 = n
        /\ n + 1 \in DOMAIN s
    BY <1>1
  <2>2. f[n + 1] = f[(n + 1) - 1] \o Pieces(s, h)[n + 1]
    BY <1>2, <2>1, Zenon DEF PutTogether
  <2>3. f[n + 1] = SubSeq(s, 1, n) \o <<s[n + 1]>>
    BY <1>3, <1>5, <2>1, <2>2 DEF Pieces
  <2>4. SubSeq(s, 1, n) \in Seq(Lines) /\ s[n + 1] \in Lines
    BY <2>1
  <2>5. SubSeq(s, 1, n) \o <<s[n + 1]>> = Append(SubSeq(s, 1, n), s[n + 1])
    BY <2>4, AppendIsConcat
  <2>6. SubSeq(s, 1, n + 1) = Append(SubSeq(s, 1, n), s[n + 1])
    BY OneMore
  <2> QED
    BY <2>1, <2>3, <2>5, <2>6
<1> HIDE DEF P
<1>6. \A n \in 0..Len(s) : n \in P
  BY <1>1, <1>4, <1>5, CountingUp
<1>7. Len(s) \in P
  BY <1>1, <1>6
<1> QED
  BY <1>2, <1>7, SubSeqFull DEF P

\* What is left when a file has been gone through: its lines are clean, with the
\* hash, and the last one is not empty.
LEMMA Tidy ==
    ASSUME NEW t \in Seq(Lines), NEW h \in Seq(Chars), Clean(t, h), HasHash(t),
           t[Len(t)] # Blank, NEW text, text = t \/ text = Append(t, Blank)
    PROVE  /\ text \in Seq(Lines) /\ Clean(text, h) /\ HasHash(text)
           /\ rewriteEnv(text, h) = text
           /\ Trimmed(Having(text, "none")) = Trimmed(Having(t, "none"))
<1> DEFINE b == Append(t, Blank)
<1>1. /\ Len(t) \in Nat /\ Len(t) > 0
      /\ b \in Seq(Lines) /\ Len(b) = Len(t) + 1 /\ b[Len(t) + 1] = Blank
  <2>1. Len(t) # 0
    BY DEF HasHash
  <2> QED
    BY <2>1, KindsOfLines, AppendProperties
<1>2. Clean(b, h) /\ HasHash(b)
  BY KindsOfLines, CleanAppend
<1>3. Trimmed(t) = t /\ Trimmed(b) = t
  <2>1. Trimmed(t) = SubSeq(t, 1, Len(t))
    <3>1. Len(t) \in 0..Len(t) /\ \A k \in (Len(t) + 1)..Len(t) : t[k] = Blank
      BY <1>1
    <3> QED
      BY <3>1, TrimmedAt
  <2> QED
    BY <2>1, SubSeqFull, BlankIsTrimmed
<1>4. Trimmed(Having(b, "none")) = Trimmed(Having(t, "none"))
  <2>1. Having(b, "none") = Append(Having(t, "none"), Blank)
    BY KindsOfLines, HavingAppend
  <2>2. Having(t, "none") \in Seq(Lines)
    BY HavingType
  <2> HIDE DEF b
  <2> QED
    BY <2>1, <2>2, BlankIsTrimmed
<1>5. ~EndsInNewline(t) /\ EndsInNewline(b)
  <2> HIDE DEF b
  <2> QED
    BY <1>1 DEF EndsInNewline, Last
<1> HIDE DEF b
<1>6. rewriteEnv(t, h) = t
  <2>1. FlattenSeq(Pieces(t, h)) = t
    BY CleanStays
  <2> QED
    BY <1>3, <1>5, <2>1, Zenon DEF rewriteEnv, Pieces
<1>7. rewriteEnv(b, h) = b
  <2>1. FlattenSeq(Pieces(b, h)) = b
    BY <1>1, <1>2, CleanStays
  <2>2. rewriteEnv(b, h) = Append(t, Blank)
    BY <1>2, <1>3, <1>5, <2>1, Zenon DEF rewriteEnv, Pieces
  <2> QED
    BY <2>2 DEF b
<1>8. text = t \/ text = b
  BY DEF b
<1> QED
  BY <1>1, <1>2, <1>4, <1>6, <1>7, <1>8

\* What is written over any file, or to a new one.
LEMMA WrittenIs ==
    ASSUME NEW s \in Seq(Lines) \cup {NoFile}, NEW h \in Seq(Chars)
    PROVE  LET text == writeEnvHash(s, h) IN
           /\ text \in Seq(Lines) /\ Clean(text, h) /\ HasHash(text)
           /\ rewriteEnv(text, h) = text
           /\ Trimmed(Having(text, "none")) = Rest(s)
<1> DEFINE text == writeEnvHash(s, h)
           x == HashLine(h)
<1>1. x \in Lines /\ x.key = "hash" /\ x # Blank
  BY HashLineType
<1>2. <<>> \in Seq(Lines) /\ Clean(<<>>, h) /\ ~HasHash(<<>>) /\ Having(<<>>, "none") = <<>>
  BY HavingNothing DEF Clean, HasHash
\* A line for the hash at the end of clean lines without one.
<1>3. ASSUME NEW u \in Seq(Lines), Clean(u, h), ~HasHash(u)
      PROVE  LET t == Append(u, x) IN
             /\ t \in Seq(Lines) /\ Clean(t, h) /\ HasHash(t) /\ t[Len(t)] # Blank
             /\ Having(t, "none") = Having(u, "none")
  <2> HIDE DEF x
  <2>1. Clean(Append(u, x), h) /\ HasHash(Append(u, x))
    BY <1>1, <1>3, CleanAppend DEF x
  <2>2. Append(u, x) \in Seq(Lines) /\ Len(Append(u, x)) = Len(u) + 1
        /\ Append(u, x)[Len(u) + 1] = x
    BY <1>1, AppendProperties
  <2>3. Having(Append(u, x), "none") = Having(u, "none")
    BY <1>1, HavingAppend
  <2> QED
    BY <1>1, <2>1, <2>2, <2>3
<1>4. CASE s = NoFile
  <2> DEFINE t == Append(<<>>, x)
  <2>1. /\ t \in Seq(Lines) /\ Clean(t, h) /\ HasHash(t) /\ t[Len(t)] # Blank
        /\ Having(t, "none") = <<>>
    BY <1>2, <1>3
  <2>2. text = Append(t, Blank)
    BY <1>4 DEF writeEnvHash
  <2>3. Trimmed(<<>>) = <<>> /\ Rest(s) = <<>>
    <3>1. Len(Trimmed(<<>>)) \in 0..0 /\ Trimmed(<<>>) \in Seq(Lines)
      BY <1>2, TrimmedEnds
    <3> QED
      BY <1>4, <3>1 DEF Rest
  <2> HIDE DEF t, text
  <2> QED
    BY <2>1, <2>2, <2>3, Tidy, ZenonT(60) DEF text
<1>5. CASE s # NoFile
  <2> DEFINE o == FlattenSeq(Pieces(s, h))
             u == Trimmed(o)
             t == IF HasHash(s) THEN u ELSE Append(u, x)
  <2>1. s \in Seq(Lines) /\ Rest(s) = Trimmed(Having(s, "none"))
    BY <1>5 DEF Rest
  <2>2. /\ o \in Seq(Lines) /\ Clean(o, h) /\ (HasHash(o) <=> HasHash(s))
        /\ Having(o, "none") = Having(s, "none")
    <3>1. OutInv(s, h, Len(s), o) /\ SubSeq(s, 1, Len(s)) = s
      BY <2>1, OutIs, SubSeqFull
    <3>2. HasHash(s) <=> \E k \in 1..Len(s) : s[k].key = "hash"
      BY <2>1 DEF HasHash
    <3> HIDE DEF o
    <3> QED
      BY <3>1, <3>2 DEF OutInv
  <2>3. text = t \/ text = Append(t, Blank)
    BY <1>5 DEF writeEnvHash, rewriteEnv, Pieces
  <2> HIDE DEF o, text
  <2>4. /\ u \in Seq(Lines) /\ Len(u) \in 0..Len(o)
        /\ \A k \in 1..Len(u) : u[k] = o[k]
        /\ \A k \in (Len(u) + 1)..Len(o) : o[k] = Blank
        /\ u # <<>> => u[Len(u)] # Blank
    BY <2>2, TrimmedEnds
  <2>5. Trimmed(Having(u, "none")) = Rest(s)
    BY <2>1, <2>2, TrimmedHaving
  <2> HIDE DEF u
  <2>6. Clean(u, h) /\ (HasHash(u) <=> HasHash(s))
    <3>1. \A k \in 1..Len(u) : k \in 1..Len(o)
      BY <2>2, <2>4
    <3>2. Clean(u, h)
      BY <2>2, <2>4, <3>1 DEF Clean
    <3>3. \A k \in 1..Len(o) : k \in 1..Len(u) \/ k \in (Len(u) + 1)..Len(o)
      BY <2>2, <2>4
    <3>4. DOMAIN u = 1..Len(u) /\ DOMAIN o = 1..Len(o)
      BY <2>2, <2>4
    <3>5. HasHash(u) <=> HasHash(o)
      BY <2>4, <3>1, <3>3, <3>4, KindsOfLines DEF HasHash
    <3> QED
      BY <2>2, <3>2, <3>5
  <2>7. /\ t \in Seq(Lines) /\ Clean(t, h) /\ HasHash(t) /\ t[Len(t)] # Blank
        /\ Having(t, "none") = Having(u, "none")
    <3>1. CASE HasHash(s)
      <4>1. u # <<>>
        BY <1>2, <2>6, <3>1
      <4> QED
        BY <2>4, <2>6, <3>1, <4>1
    <3>2. CASE ~HasHash(s)
      BY <1>3, <2>4, <2>6, <3>2
    <3> QED
      BY <3>1, <3>2
  <2> HIDE DEF t
  <2> QED
    BY <2>3, <2>5, <2>7, Tidy DEF text
<1> QED
  BY <1>4, <1>5

-----------------------------------------------------------------------------
(* What Compose makes of it *)

\* The recursion of Interpolated: what is read from place k on, given what is
\* read from the places after it.
ReadFrom(v, g, k) ==
    IF k > Len(v) THEN <<>>
    ELSE IF v[k] # "$" THEN <<v[k]>> \o g[k + 1]
    ELSE IF k < Len(v) /\ v[k + 1] = "$" THEN <<"$">> \o g[k + 2]
    ELSE g[k + 2]

ReadAll(v, g) == [k \in 1..(Len(v) + 2) |-> ReadFrom(v, g, k)]

\* There is a way to read every text: it is found from the end.
LEMMA ReadingExists ==
    ASSUME NEW v \in Seq(Chars)
    PROVE  \E g : g = ReadAll(v, g)
<1> DEFINE N == Len(v) + 2
           good(g, n) == \A k \in n..N : g[k] = ReadFrom(v, g, k)
           P == {n \in 0..N : n = 0 \/ \E g : g = [k \in 1..N |-> g[k]] /\ good(g, n)}
<1>1. N \in Nat /\ Len(v) \in Nat
  OBVIOUS
<1>2. N \in P
  <2> DEFINE g == [k \in 1..N |-> <<>>]
  <2>1. g = [k \in 1..N |-> g[k]]
    OBVIOUS
  <2>2. good(g, N)
    BY <1>1 DEF ReadFrom
  <2> HIDE DEF g, good
  <2>3. \E f : f = [k \in 1..N |-> f[k]] /\ good(f, N)
    BY <2>1, <2>2
  <2> QED
    BY <1>1, <2>3
<1>3. ASSUME NEW n \in 1..N, n \in P PROVE n - 1 \in P
  <2>1. PICK g : g = [k \in 1..N |-> g[k]] /\ good(g, n)
    BY <1>1, <1>3
  <2>2. CASE n = 1
    BY <1>1, <2>2
  <2>3. CASE n # 1
    <3> DEFINE m == n - 1
               f == [k \in 1..N |-> IF k = m THEN ReadFrom(v, g, m) ELSE g[k]]
    <3>1. m \in 1..N /\ m + 1 = n
      BY <1>1, <2>3
    <3> HIDE DEF m
    <3>2. f = [k \in 1..N |-> f[k]] /\ f[m] = ReadFrom(v, g, m)
          /\ \A k \in 1..N : k # m => f[k] = g[k]
      BY <3>1
    <3> HIDE DEF f
    <3>3. ASSUME NEW k \in m..N PROVE ReadFrom(v, f, k) = ReadFrom(v, g, k)
      <4>1. CASE k > Len(v)
        BY <4>1 DEF ReadFrom
      <4>2. CASE ~(k > Len(v))
        <5>1. k + 1 \in 1..N /\ k + 2 \in 1..N /\ k + 1 # m /\ k + 2 # m
          BY <1>1, <3>1, <4>2
        <5>2. f[k + 1] = g[k + 1] /\ f[k + 2] = g[k + 2]
          BY <3>2, <5>1
        <5> QED
          BY <5>2 DEF ReadFrom
      <4> QED
        BY <4>1, <4>2
    <3>4. good(f, m)
      <4>1. ASSUME NEW k \in m..N PROVE f[k] = ReadFrom(v, f, k)
        <5>1. CASE k = m
          BY <3>2, <3>3, <5>1
        <5>2. CASE k # m
          <6>1. k \in n..N /\ k \in 1..N
            BY <1>1, <3>1, <5>2
          <6> QED
            BY <2>1, <3>2, <3>3, <5>2, <6>1
        <5> QED
          BY <5>1, <5>2
      <4> QED
        BY <4>1
    <3> HIDE DEF good
    <3>5. m \in P
      BY <1>1, <3>1, <3>2, <3>4
    <3> QED
      BY <3>5 DEF m
  <2> QED
    BY <2>2, <2>3
<1> HIDE DEF P
<1>4. \A n \in 0..N : n \in P
  BY <1>1, <1>2, <1>3, CountingDown
<1>5. 1 \in P
  BY <1>1, <1>4
<1>6. PICK g : g = [k \in 1..N |-> g[k]] /\ good(g, 1)
  BY <1>5 DEF P
<1>7. [k \in 1..N |-> g[k]] = [k \in 1..N |-> ReadFrom(v, g, k)]
  BY <1>6
<1> QED
  BY <1>6, <1>7 DEF ReadAll

\* How a value is read, from each of its characters on.
LEMMA Reading ==
    ASSUME NEW v \in Seq(Chars)
    PROVE  \E g : /\ \A k \in 1..(Len(v) + 2) : g[k] = ReadFrom(v, g, k)
                  /\ Interpolated(v) = g[1]
<1> DEFINE g == CHOOSE f : f = ReadAll(v, f)
<1>1. Interpolated(v) = g[1]
  BY DEF Interpolated, ReadAll, ReadFrom
<1>2. g = ReadAll(v, g)
  BY ReadingExists, Zenon
<1> HIDE DEF g
<1>3. \A k \in 1..(Len(v) + 2) : g[k] = ReadFrom(v, g, k)
  BY <1>2 DEF ReadAll
<1> QED
  BY <1>1, <1>3

\* The first pieces are the beginning of all of them together.
LEMMA PiecesBegin ==
    ASSUME NEW S, NEW s \in Seq(Seq(S)), NEW f \in [0..Len(s) -> Seq(S)],
           PutTogether(f, s, Len(s))
    PROVE  \A k \in 0..Len(s) :
              /\ Len(f[k]) <= Len(f[Len(s)])
              /\ \A m \in 1..Len(f[k]) : f[Len(s)][m] = f[k][m]
<1> DEFINE N == Len(s)
           ok(k) == /\ Len(f[k]) <= Len(f[N])
                    /\ \A m \in 1..Len(f[k]) : f[N][m] = f[k][m]
           P == {k \in 0..N : ok(k)}
<1>1. N \in Nat /\ \A k \in 0..N : f[k] \in Seq(S) /\ Len(f[k]) \in Nat
  OBVIOUS
<1>2. N \in P
  BY <1>1
<1>3. ASSUME NEW k \in 1..N, k \in P PROVE k - 1 \in P
  <2> DEFINE l == k - 1
  <2>1. l \in 0..N /\ k \in 0..N /\ f[l] \in Seq(S) /\ s[k] \in Seq(S)
    BY <1>1
  <2>2. f[k] = f[l] \o s[k]
    BY DEF PutTogether
  <2> HIDE DEF l
  <2>3. Len(f[l]) <= Len(f[k]) /\ \A m \in 1..Len(f[l]) : m \in 1..Len(f[k]) /\ f[k][m] = f[l][m]
    BY <2>1, <2>2
  <2>4. ok(k)
    BY <1>3
  <2>5. Len(f[l]) \in Nat /\ Len(f[k]) \in Nat /\ Len(f[N]) \in Nat
    BY <1>1, <2>1
  <2>6. ok(l)
    BY <2>3, <2>4, <2>5
  <2> HIDE DEF ok
  <2>7. l \in P
    BY <2>1, <2>6
  <2> QED
    BY <2>7 DEF l
<1> HIDE DEF P
<1>4. \A k \in 0..N : k \in P
  BY <1>1, <1>2, <1>3, CountingDown
<1> QED
  BY <1>4 DEF P

\* Compose takes off what composeEscape has put on.
LEMMA EscapedComesBack ==
    ASSUME NEW h \in Seq(Chars)
    PROVE  Interpolated(composeEscape(h)) = h
<1> DEFINE E == [k \in DOMAIN h |-> IF h[k] = "$" THEN <<"$", "$">> ELSE <<h[k]>>]
           N == Len(h)
           v == composeEscape(h)
<1>1. /\ E \in Seq(Seq(Chars)) /\ v \in Seq(Chars) /\ v = FlattenSeq(E)
      /\ Len(E) = N /\ N \in Nat
  BY EscapedType DEF composeEscape
<1>2. \A k \in 1..N : E[k] = IF h[k] = "$" THEN <<"$", "$">> ELSE <<h[k]>>
  OBVIOUS
<1> HIDE DEF E, v
<1>3. PICK f \in [0..N -> Seq(Chars)] : PutTogether(f, E, N) /\ v = f[N]
  BY <1>1, Flattened
<1>4. \A k \in 0..N : /\ Len(f[k]) <= Len(v)
                      /\ \A m \in 1..Len(f[k]) : v[m] = f[k][m]
  <2>1. f \in [0..Len(E) -> Seq(Chars)] /\ PutTogether(f, E, Len(E)) /\ f[Len(E)] = v
    BY <1>1, <1>3
  <2> HIDE DEF N
  <2>2. \A k \in 0..Len(E) : /\ Len(f[k]) <= Len(f[Len(E)])
                             /\ \A m \in 1..Len(f[k]) : f[Len(E)][m] = f[k][m]
    BY <1>1, <2>1, PiecesBegin, ZenonT(60)
  <2> QED
    BY <1>1, <2>1, <2>2
<1>5. PICK g : /\ \A k \in 1..(Len(v) + 2) : g[k] = ReadFrom(v, g, k)
               /\ Interpolated(v) = g[1]
  BY <1>1, Reading
<1> DEFINE P == {k \in 0..N : g[Len(f[k]) + 1] = SubSeq(h, k + 1, N)}
<1>6. N \in P
  <2>1. g[Len(v) + 1] = <<>>
    <3>1. Len(v) + 1 \in 1..(Len(v) + 2) /\ Len(v) + 1 > Len(v)
      BY <1>1
    <3> QED
      BY <1>5, <3>1 DEF ReadFrom
  <2>2. SubSeq(h, N + 1, N) = <<>>
    OBVIOUS
  <2>3. g[Len(f[N]) + 1] = SubSeq(h, N + 1, N)
    BY <1>3, <2>1, <2>2, Zenon
  <2> QED
    BY <1>1, <2>3
<1>7. ASSUME NEW k \in 1..N, k \in P PROVE k - 1 \in P
  <2> DEFINE l == k - 1
             p == Len(f[l])
             w == E[k]
  <2>1. /\ l \in 0..N /\ k \in 0..N /\ l + 1 = k
        /\ f[l] \in Seq(Chars) /\ f[k] \in Seq(Chars) /\ h[k] \in Chars /\ w \in Seq(Chars)
        /\ p \in Nat /\ Len(v) \in Nat
    <3>1. l \in 0..N /\ k \in 0..N /\ l + 1 = k /\ k \in 1..Len(E)
      BY <1>1
    <3> HIDE DEF l
    <3>2. f[l] \in Seq(Chars) /\ f[k] \in Seq(Chars)
      BY <1>3, <3>1
    <3>3. h[k] \in Chars
      OBVIOUS
    <3> QED
      BY <1>1, <3>1, <3>2, <3>3
  <2>2. f[k] = f[l] \o w
    BY <1>3 DEF PutTogether
  <2>3. w = IF h[k] = "$" THEN <<"$", "$">> ELSE <<h[k]>>
    BY <1>2
  <2>4. g[Len(f[k]) + 1] = SubSeq(h, k + 1, N)
    BY <1>7
  <2>5. <<h[k]>> \o SubSeq(h, k + 1, N) = SubSeq(h, k, N)
    BY FirstAndRest
  <2> HIDE DEF l, w
  <2>6. Len(f[k]) = p + Len(w) /\ \A m \in 1..Len(w) : f[k][p + m] = w[m]
    BY <2>1, <2>2, TwoParts
  <2>7. /\ Len(f[k]) <= Len(v)
        /\ \A m \in 1..Len(f[k]) : v[m] = f[k][m]
    BY <1>4, <2>1
  <2>8. p \in Nat /\ h[k] \in Chars
    BY <2>1
  <2> HIDE DEF p
  <2>9. ASSUME h[k] = "$" PROVE g[p + 1] = SubSeq(h, k, N)
    <3>1. w \in Seq(Chars) /\ Len(w) = 2 /\ w[1] = "$" /\ w[2] = "$"
      BY <2>3, <2>9 DEF Chars
    <3>2. Len(f[k]) = p + 2 /\ f[k][p + 1] = "$" /\ f[k][p + 2] = "$"
      BY <2>6, <2>8, <3>1
    <3>3. p + 2 <= Len(v) /\ v[p + 1] = "$" /\ v[p + 2] = "$"
      BY <2>1, <2>7, <2>8, <3>2
    <3>4. p + 1 \in 1..(Len(v) + 2) /\ ~(p + 1 > Len(v)) /\ p + 1 < Len(v)
          /\ (p + 1) + 1 = p + 2 /\ (p + 1) + 2 = (p + 2) + 1
      BY <2>1, <3>3
    <3>5. g[p + 1] = <<"$">> \o g[(p + 1) + 2]
      BY <1>5, <3>3, <3>4 DEF ReadFrom
    <3>6. g[(p + 1) + 2] = SubSeq(h, k + 1, N)
      BY <2>4, <3>2, <3>4
    <3> QED
      BY <2>5, <2>9, <3>5, <3>6
  <2>10. ASSUME h[k] # "$" PROVE g[p + 1] = SubSeq(h, k, N)
    <3>1. w \in Seq(Chars) /\ Len(w) = 1 /\ w[1] = h[k]
      BY <2>1, <2>3, <2>10
    <3>2. Len(f[k]) = p + 1 /\ f[k][p + 1] = h[k]
      BY <2>6, <2>8, <3>1
    <3>3. p + 1 <= Len(v) /\ v[p + 1] = h[k]
      BY <2>1, <2>7, <2>8, <3>2
    <3>4. p + 1 \in 1..(Len(v) + 2) /\ ~(p + 1 > Len(v))
      BY <2>1, <3>3
    <3>5. g[p + 1] = <<h[k]>> \o g[(p + 1) + 1]
      BY <1>5, <2>10, <3>3, <3>4 DEF ReadFrom
    <3>6. g[(p + 1) + 1] = SubSeq(h, k + 1, N)
      BY <2>4, <3>2
    <3> QED
      BY <2>5, <3>5, <3>6
  <2>11. g[Len(f[l]) + 1] = SubSeq(h, l + 1, N)
    BY <2>1, <2>9, <2>10 DEF p
  <2>12. l \in P
    BY <2>1, <2>11
  <2> QED
    BY <2>12 DEF l
<1> HIDE DEF P
<1>8. \A k \in 0..N : k \in P
  BY <1>1, <1>6, <1>7, CountingDown
<1>9. g[Len(f[0]) + 1] = SubSeq(h, 0 + 1, N)
  BY <1>1, <1>8 DEF P
<1>10. f[0] = <<>>
  BY <1>3 DEF PutTogether
<1>11. g[1] = h
  <2>1. Len(f[0]) + 1 = 1 /\ 0 + 1 = 1
    BY <1>10
  <2>2. SubSeq(h, 1, N) = h
    BY SubSeqFull
  <2> QED
    BY <1>9, <2>1, <2>2
<1> QED
  BY <1>5, <1>11 DEF v

-----------------------------------------------------------------------------
(* set-password *)

\* A run knows what it will write, and what it has written stays until somebody
\* edits it.
EnvInv ==
    /\ file \in Seq(Lines) \cup {NoFile} /\ before \in Seq(Lines) \cup {NoFile}
    /\ \/ run = Idle
       \/ /\ run \in [pc : {"write", "fill", "done"}, hash : Hashes, text : Seq(Lines)]
          /\ run.text = writeEnvHash(before, run.hash)
    /\ Done => file = run.text

\* Every step keeps the invariant.
LEMMA EnvInvStep == EnvInv /\ [Next]_vars => EnvInv'
<1> SUFFICES ASSUME EnvInv, [Next]_vars PROVE EnvInv'
  OBVIOUS
<1>1. CASE ReadFile
  <2>1. PICK hash \in Hashes :
           run' = [pc |-> "write", hash |-> hash, text |-> writeEnvHash(file, hash)]
    BY <1>1 DEF ReadFile
  <2>2. writeEnvHash(file, hash) \in Seq(Lines)
    <3>1. hash \in Seq(Chars)
      BY EnvFileAssumption
    <3> QED
      BY <3>1, WrittenIs DEF EnvInv
  <2>3. UNCHANGED file /\ before' = file
    BY <1>1 DEF ReadFile
  <2> QED
    BY <2>1, <2>2, <2>3 DEF EnvInv, Done
<1>2. CASE Truncate
  <2>1. <<Blank>> \in Seq(Lines)
    BY KindsOfLines
  <2> QED
    BY <1>2, <2>1 DEF Truncate, EnvInv, Done, Idle
<1>3. CASE Fill
  BY <1>3 DEF Fill, EnvInv, Done, Idle
<1>4. CASE Crash
  BY <1>4 DEF Crash, EnvInv, Done, Idle
<1>5. CASE Edit
  <2>1. file' \in Seq(Lines)
    <3>1. PICK line \in Edits : file' = IF file = NoFile THEN <<line>> ELSE Append(file, line)
      BY <1>5 DEF Edit
    <3>2. line \in Lines
      BY EnvFileAssumption
    <3> QED
      BY <3>1, <3>2, AppendProperties DEF EnvInv
  <2> QED
    BY <1>5, <2>1 DEF Edit, EnvInv, Done
<1>6. CASE UNCHANGED vars
  BY <1>6 DEF vars, EnvInv, Done
<1> QED
  BY <1>1, <1>2, <1>3, <1>4, <1>5, <1>6 DEF Next

\* The command keeps the invariant.
LEMMA EnvInvHolds == Spec => []EnvInv
<1>1. Init => EnvInv
  BY EnvFileAssumption DEF Init, EnvInv, Done, Idle
<1> QED
  BY <1>1, EnvInvStep, PTL DEF Spec

\* What the file is when a run is over and nobody has edited it.
LEMMA WhenDone ==
    ASSUME EnvInv, Done
    PROVE  /\ run.hash \in Seq(Chars) \ {<<>>}
           /\ file \in Seq(Lines) /\ Clean(file, run.hash) /\ HasHash(file)
           /\ rewriteEnv(file, run.hash) = file
           /\ Trimmed(Having(file, "none")) = Rest(before)
<1>1. /\ run.hash \in Hashes /\ file = writeEnvHash(before, run.hash)
      /\ before \in Seq(Lines) \cup {NoFile}
  BY DEF EnvInv, Done, Idle
<1>2. run.hash \in Seq(Chars) \ {<<>>}
  BY <1>1, EnvFileAssumption
<1> QED
  BY <1>1, <1>2, WrittenIs

\* After a run the server starts, and with the new password, whatever the file
\* held.
THEOREM PasswordTakesEffect == Spec => []TakesEffect
<1>1. EnvInv => TakesEffect
  <2> SUFFICES ASSUME EnvInv, Done
               PROVE  Accepted(file) /\ Values(file, "hash") = <<run.hash>>
    BY DEF TakesEffect
  <2> DEFINE h == run.hash
  <2>1. h \in Seq(Chars) /\ h # <<>> /\ file \in Seq(Lines) /\ Clean(file, h) /\ HasHash(file)
    BY WhenDone
  <2>2. Having(file, "pw") = <<>> /\ Having(file, "hash") = <<HashLine(h)>>
    BY <2>1, HavingClean
  <2>3. Interpolated(HashLine(h).value) = h
    BY <2>1, HashLineType, EscapedComesBack
  <2>4. Values(file, "pw") = <<>>
    BY <2>2 DEF Values
  <2>5. Values(file, "hash") = <<h>>
    BY <2>2, <2>3 DEF Values
  <2> HIDE DEF h
  <2>6. Last(<<h>>) = h /\ <<h>> # <<>>
    BY DEF Last
  <2>7. Accepted(file)
    BY <2>1, <2>4, <2>5, <2>6 DEF Accepted, IsSet
  <2> QED
    BY <2>5, <2>7 DEF h
<1> QED
  BY <1>1, EnvInvHolds, PTL

\* The other lines of the file are still there, and in their order.
THEOREM OthersAreKept == Spec => []OtherLinesKept
<1>1. EnvInv => OtherLinesKept
  <2> SUFFICES ASSUME EnvInv, Done PROVE Rest(file) = Rest(before)
    BY DEF OtherLinesKept
  <2>1. file \in Seq(Lines) /\ HasHash(file) /\ Trimmed(Having(file, "none")) = Rest(before)
    BY WhenDone
  <2>2. file # NoFile
    BY <2>1, EnvFileAssumption
  <2> QED
    BY <2>1, <2>2 DEF Rest
<1> QED
  BY <1>1, EnvInvHolds, PTL

\* Setting the same hash again changes nothing.
THEOREM SettingIsStable == Spec => []RewriteIsStable
<1>1. EnvInv => RewriteIsStable
  BY WhenDone DEF RewriteIsStable
<1> QED
  BY <1>1, EnvInvHolds, PTL

-----------------------------------------------------------------------------
(* highlightJSON *)

\* The inner loops' places.
Scanning ==
    /\ scan = "string" => i < j /\ i <= Len(src)
    /\ scan = "word" => i <= j /\ j <= Len(src) + 1 /\ i <= Len(src) /\ src[i] \notin Stops

JsonInv == JsonTypeOK /\ Scanning /\ RawShownWhole

\* A piece that begins at the token at hand and is not empty continues the
\* tiling.
LEMMA WriteKeeps ==
    ASSUME JsonInv, scan # "done",
           NEW to \in Nat, i <= to, to <= Len(src),
           NEW cls \in Classes, Write(to, cls)
    PROVE  JsonInv'
<1>1. /\ out' = Append(out, Piece(i, to, cls))
      /\ i' = to + 1 /\ scan' = "top" /\ src' = src /\ j' = j
  BY DEF Write
<1>2. /\ src \in Seq(Bytes) /\ i \in Nat /\ Len(src) \in Nat
      /\ out \in Seq([from : Nat, to : Nat, cls : Classes])
  BY DEF JsonInv, JsonTypeOK
<1>3. Piece(i, to, cls) \in [from : Nat, to : Nat, cls : Classes]
  BY <1>2 DEF Piece
<1>4. JsonTypeOK'
  BY <1>1, <1>2, <1>3 DEF JsonInv, JsonTypeOK
<1>5. Scanning'
  BY <1>1 DEF Scanning
<1>6. /\ Len(out') = Len(out) + 1 /\ Len(out) \in Nat
      /\ \A n \in 1..Len(out) : out'[n] = out[n]
      /\ out'[Len(out) + 1] = Piece(i, to, cls)
  BY <1>1, <1>2, <1>3
<1>7. RawShownWhole'
  <2> DEFINE last == Len(out) + 1
  <2>1. DOMAIN out = 1..Len(out) /\ DOMAIN out' = 1..last
    BY <1>1, <1>2, <1>3
  <2>2. out'[last].from = i /\ out'[last].to = to
    BY <1>6 DEF Piece
  <2>3. \A n \in DOMAIN out' : out'[n].from <= out'[n].to
    <3> SUFFICES ASSUME NEW n \in DOMAIN out' PROVE out'[n].from <= out'[n].to
      OBVIOUS
    <3>1. CASE n = last
      BY <2>2, <3>1
    <3>2. CASE n # last
      <4>1. n \in DOMAIN out /\ out'[n] = out[n]
        BY <1>6, <2>1, <3>2
      <4> QED
        BY <4>1 DEF JsonInv, RawShownWhole
    <3> QED
      BY <3>1, <3>2
  <2>4. i = IF out = <<>> THEN 1 ELSE out[Len(out)].to + 1
    BY DEF JsonInv, RawShownWhole
  <2>5. \A n \in DOMAIN out' : out'[n].from = IF n = 1 THEN 1 ELSE out'[n - 1].to + 1
    <3> SUFFICES ASSUME NEW n \in DOMAIN out'
                 PROVE  out'[n].from = IF n = 1 THEN 1 ELSE out'[n - 1].to + 1
      OBVIOUS
    <3>1. CASE n = last /\ out = <<>>
      <4>1. n = 1
        BY <3>1
      <4> QED
        BY <2>2, <2>4, <3>1, <4>1
    <3>2. CASE n = last /\ out # <<>>
      <4>1. Len(out) >= 1
        BY <1>2, <1>6, <3>2
      <4>2. n # 1 /\ n - 1 = Len(out) /\ Len(out) \in 1..Len(out)
        BY <1>6, <3>2, <4>1
      <4> QED
        BY <1>6, <2>2, <2>4, <3>2, <4>2
    <3>3. CASE n # last
      <4>1. n \in 1..Len(out) /\ (n # 1 => n - 1 \in 1..Len(out))
        BY <1>6, <2>1, <3>3
      <4>2. out'[n] = out[n] /\ (n # 1 => out'[n - 1] = out[n - 1])
        BY <1>6, <4>1
      <4> QED
        BY <2>1, <4>1, <4>2 DEF JsonInv, RawShownWhole
    <3> QED
      BY <3>1, <3>2, <3>3
  <2>6. out' # <<>> /\ i' = out'[Len(out')].to + 1 /\ scan' # "done"
    BY <1>1, <1>6, <2>2
  <2> QED
    BY <2>3, <2>5, <2>6 DEF RawShownWhole
<1> QED
  BY <1>4, <1>5, <1>7 DEF JsonInv

\* The inner loops write nothing.
LEMMA EnterKeeps ==
    ASSUME JsonInv, scan # "done",
           NEW loop \in {"string", "word", "done"}, NEW at \in 1..(Len(src) + 2),
           loop = "done" => i = Len(src) + 1,
           loop = "string" => i < at /\ i <= Len(src),
           loop = "word" => i <= at /\ at <= Len(src) + 1 /\ i <= Len(src) /\ src[i] \notin Stops,
           Enter(loop, at)
    PROVE  JsonInv'
<1>1. scan' = loop /\ j' = at /\ UNCHANGED <<src, i, out>>
  BY DEF Enter
<1>2. JsonTypeOK'
  BY <1>1 DEF JsonInv, JsonTypeOK
<1>3. Scanning'
  BY <1>1 DEF Scanning
<1>4. RawShownWhole'
  BY <1>1 DEF JsonInv, RawShownWhole
<1> QED
  BY <1>2, <1>3, <1>4 DEF JsonInv

LEMMA ClassesAre ==
    /\ \A end : LiteralClass(end) \in Classes
    /\ \A word : WordClass(word) \in Classes
    /\ "plain" \in Classes /\ "space" \in Classes
BY DEF LiteralClass, WordClass, Classes

LEMMA JsonInvInit == JsonInit => JsonInv
BY DEF JsonInit, JsonInv, JsonTypeOK, Scanning, RawShownWhole

LEMMA JsonInvNext == JsonInv /\ [JsonNext]_jsonVars => JsonInv'
<1> SUFFICES ASSUME JsonInv, [JsonNext]_jsonVars PROVE JsonInv'
  OBVIOUS
<1>0. /\ src \in Seq(Bytes) /\ Len(src) \in Nat
      /\ i \in 1..(Len(src) + 1) /\ j \in 1..(Len(src) + 2)
  BY DEF JsonInv, JsonTypeOK
<1>1. CASE OpenString
  <2>1. i <= Len(src) /\ scan = "top" /\ Enter("string", i + 1)
    BY <1>1 DEF OpenString, Next1
  <2> QED
    BY <1>0, <2>1, EnterKeeps
<1>2. CASE InString
  <2>1. PICK at \in {j + 1, j + 2} : Enter("string", at)
    BY <1>2 DEF InString
  <2>2. scan = "string" /\ j <= Len(src)
    BY <1>2 DEF InString
  <2>3. i < at /\ i <= Len(src) /\ at \in 1..(Len(src) + 2)
    BY <1>0, <2>1, <2>2 DEF JsonInv, Scanning
  <2> QED
    BY <2>1, <2>2, <2>3, EnterKeeps
<1>3. CASE CloseString
  <2>1. scan = "string" /\ j <= Len(src) /\ Write(j, LiteralClass(j)) /\ i < j
    BY <1>3 DEF CloseString, JsonInv, Scanning
  <2> QED
    BY <1>0, <2>1, ClassesAre, WriteKeeps
<1>4. CASE Unterminated
  <2>1. scan = "string" /\ Write(Len(src), "plain") /\ i <= Len(src)
    BY <1>4 DEF Unterminated, JsonInv, Scanning
  <2> QED
    BY <1>0, <2>1, ClassesAre, WriteKeeps
<1>5. CASE Punctuation \/ Space
  <2>1. PICK cls \in {"plain", "space"} : Write(i, cls)
    BY <1>5 DEF Punctuation, Space
  <2>2. scan = "top" /\ i <= Len(src)
    BY <1>5 DEF Punctuation, Space, Next1
  <2> QED
    BY <1>0, <2>1, <2>2, ClassesAre, WriteKeeps
<1>6. CASE OpenWord
  <2>1. /\ i <= Len(src) /\ scan = "top" /\ Enter("word", i)
        /\ src[i] \notin Stops
    BY <1>6 DEF OpenWord, Next1, Stops
  <2> QED
    BY <1>0, <2>1, EnterKeeps
<1>7. CASE InWord
  <2>1. scan = "word" /\ j <= Len(src) /\ Enter("word", j + 1)
    BY <1>7 DEF InWord
  <2>2. i <= j + 1 /\ i <= Len(src) /\ src[i] \notin Stops /\ j + 1 \in 1..(Len(src) + 1)
    BY <1>0, <2>1 DEF JsonInv, Scanning
  <2> QED
    BY <1>0, <2>1, <2>2, EnterKeeps
<1>8. CASE CloseWord
  <2>1. /\ scan = "word" /\ Write(j - 1, WordClass(SubSeq(src, i, j - 1)))
        /\ j <= Len(src) => src[j] \in Stops
    BY <1>8 DEF CloseWord
  <2>2. i <= j /\ j <= Len(src) + 1 /\ i <= Len(src) /\ src[i] \notin Stops
    BY <2>1 DEF JsonInv, Scanning
  <2>3. j # i
    BY <2>1, <2>2
  <2>4. j - 1 \in Nat /\ i <= j - 1 /\ j - 1 <= Len(src)
    BY <1>0, <2>2, <2>3
  <2> QED
    BY <2>1, <2>4, ClassesAre, WriteKeeps
<1>9. CASE Finish
  <2>1. scan = "top" /\ i = Len(src) + 1 /\ Enter("done", j)
    BY <1>0, <1>9 DEF Finish
  <2> QED
    BY <1>0, <2>1, EnterKeeps
<1>10. CASE UNCHANGED jsonVars
  BY <1>10 DEF jsonVars, JsonInv, JsonTypeOK, Scanning, RawShownWhole
<1> QED
  BY <1>1, <1>2, <1>3, <1>4, <1>5, <1>6, <1>7, <1>8, <1>9, <1>10 DEF JsonNext

LEMMA JsonKeepsInv == JsonSpec => []JsonInv
BY JsonInvInit, JsonInvNext, PTL DEF JsonSpec

\* The scanner stays within the text, or one place behind it, or two after a
\* backslash at the end.
THEOREM ScannerIsTyped == JsonSpec => []JsonTypeOK
<1>1. JsonInv => JsonTypeOK
  BY DEF JsonInv
<1> QED
  BY <1>1, JsonKeepsInv, PTL

\* For every text of any length, valid JSON or not: the page shows each of its
\* characters once and in its place.
THEOREM NothingIsHidden == JsonSpec => []RawShownWhole
<1>1. JsonInv => RawShownWhole
  BY DEF JsonInv
<1> QED
  BY <1>1, JsonKeepsInv, PTL

-----------------------------------------------------------------------------
(* isJSONNumber and JSON's grammar *)

\* Where the digits end that begin at a place, and that it is one place only.
LEMMA DigitsEnd ==
    ASSUME NEW s \in Seq(Bytes), NEW k \in 1..(Len(s) + 1)
    PROVE  /\ SkipDigits(s, k) \in k..(Len(s) + 1)
           /\ ~IsDigit(s, SkipDigits(s, k))
           /\ \A m \in k..(SkipDigits(s, k) - 1) : IsDigit(s, m)
           /\ \A n \in k..(Len(s) + 1) :
                 ~IsDigit(s, n) /\ (\A m \in k..(n - 1) : IsDigit(s, m)) => n = SkipDigits(s, k)
<1> DEFINE T == {n \in k..(Len(s) + 1) : ~IsDigit(s, n)}
           ends(n) == ~IsDigit(s, n) /\ \A m \in k..(n - 1) : IsDigit(s, m)
<1>1. Len(s) \in Nat
  OBVIOUS
<1>2. Len(s) + 1 \in T
  BY <1>1 DEF IsDigit
<1>3. T \subseteq Nat
  BY <1>1
<1>4. PICK n \in T : \A m \in T : n <= m
  <2> HIDE DEF T
  <2> QED
    BY <1>2, <1>3, LeastNumber
<1>5. n \in k..(Len(s) + 1) /\ ends(n)
  BY <1>1, <1>4
<1> HIDE DEF ends
<1>6. SkipDigits(s, k) \in k..(Len(s) + 1) /\ ends(SkipDigits(s, k))
  BY <1>5, Zenon DEF SkipDigits, ends
<1>7. ASSUME NEW m \in k..(Len(s) + 1), ends(m), NEW p \in k..(Len(s) + 1), ends(p)
      PROVE  m = p
  <2>1. ~(m < p) /\ ~(p < m)
    BY <1>1, <1>7 DEF ends
  <2> QED
    BY <1>1, <2>1
<1> QED
  BY <1>6, <1>7 DEF ends

\* The grammar by places: the sign ends at a, the digits at b and the fraction
\* at c.
Digits(s, m, n) == m <= n /\ \A k \in m..n : IsDigit(s, k)

NumberEndsAt(s, a, b, c) ==
    /\ a = 0 \/ (a = 1 /\ Is(s, 1, "-"))
    /\ Digits(s, a + 1, b) /\ (Is(s, a + 1, "0") => b = a + 1)
    /\ b = c \/ (Is(s, b + 1, ".") /\ Digits(s, b + 2, c))
    /\ \/ c = Len(s)
       \/ /\ Is(s, c + 1, "e")
          /\ \/ Digits(s, c + 2, Len(s))
             \/ (Is(s, c + 2, "+") \/ Is(s, c + 2, "-")) /\ Digits(s, c + 3, Len(s))

\* The code's way through a text finds the grammar's places, and no others.
LEMMA NumberIsScanned ==
    ASSUME NEW s \in Seq(Bytes)
    PROVE  isJSONNumber(s) <=> \E a, b, c \in 0..Len(s) : NumberEndsAt(s, a, b, c)
<1> DEFINE sign == IF Is(s, 1, "-") THEN 2 ELSE 1
           int == IF Is(s, sign, "0") THEN sign + 1 ELSE SkipDigits(s, sign)
           frac == IF Is(s, int, ".") THEN SkipDigits(s, int + 1) ELSE int
           e == IF Is(s, frac + 1, "+") \/ Is(s, frac + 1, "-") THEN frac + 2 ELSE frac + 1
           end == IF Is(s, frac, "e") THEN SkipDigits(s, e) ELSE frac
<1>1. isJSONNumber(s) <=> /\ IsDigit(s, sign)
                          /\ Is(s, int, ".") => IsDigit(s, int + 1)
                          /\ Is(s, frac, "e") => IsDigit(s, e)
                          /\ end = Len(s) + 1
  BY DEF isJSONNumber
<1>2. Len(s) \in Nat
  OBVIOUS
<1>3. sign \in 1..2 /\ sign <= Len(s) + 1
  BY <1>2 DEF Is
<1> HIDE DEF sign
<1>4. int \in sign..(Len(s) + 1)
  BY <1>2, <1>3, DigitsEnd DEF Is
<1> HIDE DEF int
<1>5. frac \in int..(Len(s) + 1)
  BY <1>2, <1>3, <1>4, DigitsEnd DEF Is
<1> HIDE DEF frac
<1>6. Is(s, frac, "e") => e \in (frac + 1)..(Len(s) + 1)
  BY <1>2, <1>3, <1>4, <1>5 DEF Is
<1> HIDE DEF e
<1>7. ASSUME isJSONNumber(s)
      PROVE  NumberEndsAt(s, sign - 1, int - 1, frac - 1)
  <2>1. sign - 1 = 0 \/ (sign - 1 = 1 /\ Is(s, 1, "-"))
    <3>1. sign = 1 \/ (sign = 2 /\ Is(s, 1, "-"))
      BY DEF sign, Is
    <3> QED
      BY <3>1
  <2>2. IsDigit(s, sign)
    BY <1>1, <1>7
  <2>3. Digits(s, sign, int - 1) /\ (Is(s, sign, "0") => int - 1 = sign)
    BY <1>2, <1>3, <2>2, DigitsEnd DEF int, Digits, Is, IsDigit
  <2>4. int = frac \/ (Is(s, int, ".") /\ Digits(s, int + 1, frac - 1))
    <3>1. CASE Is(s, int, ".")
      <4>1. IsDigit(s, int + 1) /\ int + 1 \in 1..(Len(s) + 1)
        BY <1>1, <1>2, <1>3, <1>4, <1>7, <3>1 DEF Is
      <4>2. frac = SkipDigits(s, int + 1)
        BY <3>1 DEF frac
      <4>3. /\ frac \in (int + 1)..(Len(s) + 1) /\ ~IsDigit(s, frac)
            /\ \A m \in (int + 1)..(frac - 1) : IsDigit(s, m)
        BY <4>1, <4>2, DigitsEnd
      <4>4. frac # int + 1
        BY <4>1, <4>3
      <4>5. int + 1 <= frac - 1
        BY <1>2, <1>3, <1>4, <4>3, <4>4
      <4> QED
        BY <3>1, <4>3, <4>5 DEF Digits
    <3>2. CASE ~Is(s, int, ".")
      BY <3>2 DEF frac, Is
    <3> QED
      BY <3>1, <3>2
  <2>5. \/ frac = Len(s) + 1
        \/ /\ Is(s, frac, "e")
           /\ \/ Digits(s, frac + 1, Len(s))
              \/ (Is(s, frac + 1, "+") \/ Is(s, frac + 1, "-")) /\ Digits(s, frac + 2, Len(s))
    <3>1. CASE Is(s, frac, "e")
      <4>1. IsDigit(s, e) /\ SkipDigits(s, e) = Len(s) + 1 /\ e \in 1..(Len(s) + 1)
        BY <1>1, <1>2, <1>3, <1>4, <1>5, <1>6, <1>7, <3>1
      <4>2. Digits(s, e, Len(s))
        BY <1>2, <4>1, DigitsEnd DEF Digits, IsDigit
      <4> QED
        BY <3>1, <4>2 DEF e
    <3>2. CASE ~Is(s, frac, "e")
      BY <1>1, <1>7, <3>2
    <3> QED
      BY <3>1, <3>2
  <2>6. /\ (sign - 1) + 1 = sign /\ (int - 1) + 1 = int /\ (int - 1) + 2 = int + 1
        /\ (frac - 1) + 1 = frac /\ (frac - 1) + 2 = frac + 1 /\ (frac - 1) + 3 = frac + 2
        /\ (int = frac => int - 1 = frac - 1) /\ (frac = Len(s) + 1 => frac - 1 = Len(s))
    BY <1>2, <1>3, <1>4, <1>5
  <2> QED
    BY <2>1, <2>3, <2>4, <2>5, <2>6 DEF NumberEndsAt
<1>8. ASSUME NEW a \in 0..Len(s), NEW b \in 0..Len(s), NEW c \in 0..Len(s),
             NumberEndsAt(s, a, b, c)
      PROVE  isJSONNumber(s)
  <2>1. a = 0 \/ (a = 1 /\ Is(s, 1, "-"))
    BY <1>8 DEF NumberEndsAt
  <2>2. Digits(s, a + 1, b) /\ (Is(s, a + 1, "0") => b = a + 1)
    BY <1>8 DEF NumberEndsAt
  <2>3. b = c \/ (Is(s, b + 1, ".") /\ Digits(s, b + 2, c))
    BY <1>8 DEF NumberEndsAt
  <2>4. \/ c = Len(s)
        \/ /\ Is(s, c + 1, "e")
           /\ \/ Digits(s, c + 2, Len(s))
              \/ (Is(s, c + 2, "+") \/ Is(s, c + 2, "-")) /\ Digits(s, c + 3, Len(s))
    BY <1>8 DEF NumberEndsAt
  <2>5. IsDigit(s, a + 1) /\ a + 1 <= b
    BY <1>2, <2>2 DEF Digits
  <2>6. sign = a + 1
    BY <2>1, <2>5 DEF sign, Is, IsDigit
  <2>7. ~IsDigit(s, c + 1)
    BY <1>2, <2>4 DEF Is, IsDigit
  <2>8. ~IsDigit(s, b + 1)
    BY <2>3, <2>7 DEF Is, IsDigit
  <2>9. int = b + 1
    <3>1. CASE Is(s, sign, "0")
      BY <2>2, <2>6, <3>1 DEF int
    <3>2. CASE ~Is(s, sign, "0")
      <4>1. b + 1 \in sign..(Len(s) + 1) /\ \A m \in sign..((b + 1) - 1) : IsDigit(s, m)
        BY <1>2, <2>2, <2>5, <2>6 DEF Digits
      <4>2. b + 1 = SkipDigits(s, sign)
        BY <1>2, <1>3, <2>8, <4>1, DigitsEnd
      <4> QED
        BY <3>2, <4>2 DEF int
    <3> QED
      BY <3>1, <3>2
  <2>10. (Is(s, int, ".") => IsDigit(s, int + 1)) /\ frac = c + 1
    <3>1. CASE b = c
      <4>1. ~Is(s, c + 1, ".")
        BY <1>2, <2>4 DEF Is
      <4> QED
        BY <2>9, <3>1, <4>1 DEF frac
    <3>2. CASE Is(s, b + 1, ".") /\ Digits(s, b + 2, c)
      <4>1. b + 2 <= c /\ b + 2 = int + 1
        BY <1>2, <2>9, <3>2 DEF Digits
      <4>2. c + 1 \in (b + 2)..(Len(s) + 1) /\ \A m \in (b + 2)..((c + 1) - 1) : IsDigit(s, m)
        BY <1>2, <3>2, <4>1 DEF Digits
      <4>3. c + 1 = SkipDigits(s, b + 2)
        BY <1>2, <2>7, <4>1, <4>2, DigitsEnd
      <4> QED
        BY <1>2, <2>9, <3>2, <4>1, <4>2, <4>3 DEF frac
    <3> QED
      BY <2>3, <3>1, <3>2
  <2>11. (Is(s, frac, "e") => IsDigit(s, e)) /\ end = Len(s) + 1
    <3>1. CASE c = Len(s)
      BY <1>2, <2>10, <3>1 DEF Is
    <3>2. CASE Is(s, c + 1, "e") /\ Digits(s, e, Len(s))
      <4>1. e <= Len(s) /\ e \in 1..(Len(s) + 1)
        BY <1>2, <1>3, <1>4, <1>5, <1>6, <2>10, <3>2 DEF Digits
      <4>2. Len(s) + 1 \in e..(Len(s) + 1) /\ \A m \in e..((Len(s) + 1) - 1) : IsDigit(s, m)
        BY <1>2, <3>2, <4>1 DEF Digits
      <4>3. ~IsDigit(s, Len(s) + 1)
        BY <1>2 DEF IsDigit
      <4>4. Len(s) + 1 = SkipDigits(s, e)
        BY <1>2, <4>1, <4>2, <4>3, DigitsEnd
      <4> QED
        BY <1>2, <2>10, <3>2, <4>1, <4>2, <4>4
    <3>3. Is(s, c + 1, "e") /\ Digits(s, c + 2, Len(s)) => e = c + 2
      <4>1. Digits(s, c + 2, Len(s)) => IsDigit(s, c + 2)
        BY <1>2 DEF Digits
      <4>2. IsDigit(s, c + 2) => ~Is(s, c + 2, "+") /\ ~Is(s, c + 2, "-")
        BY DEF IsDigit, Is
      <4>3. frac + 1 = c + 2
        BY <2>10
      <4> QED
        BY <4>1, <4>2, <4>3 DEF e
    <3>4. Is(s, c + 2, "+") \/ Is(s, c + 2, "-") => e = c + 3
      <4>1. frac + 1 = c + 2 /\ frac + 2 = c + 3
        BY <2>10
      <4> QED
        BY <4>1 DEF e
    <3> QED
      BY <2>4, <3>1, <3>2, <3>3, <3>4
  <2> QED
    BY <1>1, <2>5, <2>6, <2>10, <2>11
<1>9. isJSONNumber(s) => \E a, b, c \in 0..Len(s) : NumberEndsAt(s, a, b, c)
  <2> SUFFICES ASSUME isJSONNumber(s)
               PROVE  \E a, b, c \in 0..Len(s) : NumberEndsAt(s, a, b, c)
    OBVIOUS
  <2>1. sign - 1 \in 0..Len(s) /\ int - 1 \in 0..Len(s) /\ frac - 1 \in 0..Len(s)
    BY <1>2, <1>3, <1>4, <1>5
  <2> QED
    BY <1>7, <2>1
<1> QED
  BY <1>8, <1>9

\* A part of a text, by its places.
LEMMA PartOf ==
    ASSUME NEW s \in Seq(Bytes), NEW m \in Nat \ {0}, NEW n \in 0..Len(s)
    PROVE  /\ SubSeq(s, m, n) \in Seq(Bytes)
           /\ Len(SubSeq(s, m, n)) = IF m <= n THEN n - m + 1 ELSE 0
           /\ SubSeq(s, m, n) = <<>> <=> n < m
           /\ \A k \in 1..(n - m + 1) : SubSeq(s, m, n)[k] = s[m + k - 1]
<1>1. SubSeq(s, m, n) \in Seq(Bytes) /\ Len(SubSeq(s, m, n)) = IF m <= n THEN n - m + 1 ELSE 0
  OBVIOUS
<1>2. \A k \in 1..(n - m + 1) : SubSeq(s, m, n)[k] = s[m + k - 1]
  OBVIOUS
<1>3. SubSeq(s, m, n) = <<>> <=> n < m
  BY <1>1
<1> QED
  BY <1>1, <1>2, <1>3

\* The part of a text that has the characters of another.
LEMMA PartIs ==
    ASSUME NEW s \in Seq(Bytes), NEW u \in Seq(Bytes), NEW m \in Nat \ {0},
           u # <<>>, m + Len(u) - 1 <= Len(s),
           \A k \in 1..Len(u) : s[m + k - 1] = u[k]
    PROVE  SubSeq(s, m, m + Len(u) - 1) = u
<1> DEFINE to == m + Len(u) - 1
           v == SubSeq(s, m, to)
<1>1. to \in 0..Len(s) /\ m <= to /\ to - m + 1 = Len(u)
  OBVIOUS
<1> HIDE DEF to
<1>2. v \in Seq(Bytes) /\ Len(v) = to - m + 1 /\ \A k \in 1..(to - m + 1) : v[k] = s[m + k - 1]
  BY <1>1, PartOf
<1> HIDE DEF v
<1>3. Len(v) = Len(u) /\ \A k \in 1..Len(v) : v[k] = u[k]
  BY <1>1, <1>2
<1>4. v = u
  BY <1>2, <1>3, SeqEqual
<1> QED
  BY <1>4 DEF v, to

LEMMA PartBegins ==
    ASSUME NEW s \in Seq(Bytes), NEW m \in Nat \ {0}, NEW n \in 0..Len(s), m <= n
    PROVE  /\ SubSeq(s, m, n) # <<>> /\ SubSeq(s, m, n)[1] = s[m]
           /\ Len(SubSeq(s, m, n)) = n - m + 1
<1> DEFINE t == SubSeq(s, m, n)
<1>1. n \in Nat /\ 1 \in 1..(n - m + 1) /\ m + 1 - 1 = m
  OBVIOUS
<1>2. t # <<>> /\ Len(t) = n - m + 1
  BY PartOf
<1>3. \A k \in 1..(n - m + 1) : t[k] = s[m + k - 1]
  BY PartOf
<1> HIDE DEF t
<1>4. t[1] = s[m]
  BY <1>1, <1>3
<1> QED
  BY <1>2, <1>4 DEF t

LEMMA DigitsOfPart ==
    ASSUME NEW s \in Seq(Bytes), NEW m \in Nat \ {0}, NEW n \in 0..Len(s)
    PROVE  AllDigits(SubSeq(s, m, n)) <=> Digits(s, m, n)
<1> DEFINE t == SubSeq(s, m, n)
<1>1. CASE n < m
  <2>1. t = <<>>
    BY <1>1, PartOf
  <2> HIDE DEF t
  <2>2. ~AllDigits(t) /\ ~Digits(s, m, n)
    BY <1>1, <2>1 DEF AllDigits, Digits
  <2> QED
    BY <2>2 DEF t
<1>2. CASE m <= n
  <2>1. DOMAIN t = 1..(n - m + 1) /\ t # <<>>
    <3>1. t \in Seq(Bytes) /\ Len(t) = n - m + 1 /\ t # <<>>
      BY <1>2, PartOf
    <3> HIDE DEF t
    <3> QED
      BY <3>1
  <2>2. AllDigits(t) <=> \A k \in 1..(n - m + 1) : s[m + k - 1] \in {"0", "1"}
    <3>1. \A k \in 1..(n - m + 1) : t[k] = s[m + k - 1]
      BY <1>2, PartOf
    <3> HIDE DEF t
    <3> QED
      BY <2>1, <3>1 DEF AllDigits
  <2>3. (\A k \in 1..(n - m + 1) : s[m + k - 1] \in {"0", "1"})
           <=> \A p \in m..n : s[p] \in {"0", "1"}
    <3>1. ASSUME \A k \in 1..(n - m + 1) : s[m + k - 1] \in {"0", "1"}, NEW p \in m..n
          PROVE  s[p] \in {"0", "1"}
      <4>1. p - m + 1 \in 1..(n - m + 1) /\ m + (p - m + 1) - 1 = p
        OBVIOUS
      <4> QED
        BY <3>1, <4>1
    <3>2. \A k \in 1..(n - m + 1) : m + k - 1 \in m..n
      OBVIOUS
    <3> QED
      BY <3>1, <3>2
  <2>4. Digits(s, m, n) <=> \A p \in m..n : s[p] \in {"0", "1"}
    BY <1>2 DEF Digits, IsDigit
  <2> QED
    BY <2>2, <2>3, <2>4
<1> QED
  BY <1>1, <1>2

\* A part of a part, from its k-th place to its end.
LEMMA EndOfPart ==
    ASSUME NEW s \in Seq(Bytes), NEW m \in Nat \ {0}, NEW n \in m..Len(s), NEW k \in {2, 3}
    PROVE  /\ k = 2 => Tail(SubSeq(s, m, n)) = SubSeq(s, m + 1, n)
           /\ SubSeq(SubSeq(s, m, n), k, Len(SubSeq(s, m, n))) = SubSeq(s, m + k - 1, n)
<1> DEFINE t == SubSeq(s, m, n)
<1>1. t \in Seq(Bytes) /\ Len(t) = n - m + 1
  BY PartOf
<1>2. \A p \in 1..(n - m + 1) : t[p] = s[m + p - 1]
  BY PartOf
<1> HIDE DEF t
<1>3. SubSeq(t, k, Len(t)) = SubSeq(s, m + k - 1, n)
  <2>1. Len(SubSeq(t, k, Len(t))) = Len(SubSeq(s, m + k - 1, n))
    BY <1>1
  <2>2. \A p \in 1..Len(SubSeq(t, k, Len(t))) : SubSeq(t, k, Len(t))[p] = SubSeq(s, m + k - 1, n)[p]
    BY <1>1, <1>2
  <2>3. SubSeq(t, k, Len(t)) \in Seq(Bytes) /\ SubSeq(s, m + k - 1, n) \in Seq(Bytes)
    BY <1>1
  <2> QED
    BY <2>1, <2>2, <2>3, SeqEqual
<1>4. k = 2 => Tail(t) = SubSeq(s, m + 1, n)
  <2> SUFFICES ASSUME k = 2 PROVE Tail(t) = SubSeq(s, m + 1, n)
    OBVIOUS
  <2>1. t # <<>> /\ Len(Tail(t)) = n - m /\ Len(SubSeq(s, m + 1, n)) = n - m
    BY <1>1
  <2>2. \A p \in 1..(n - m) : Tail(t)[p] = SubSeq(s, m + 1, n)[p]
    BY <1>1, <1>2
  <2>3. Tail(t) \in Seq(Bytes) /\ SubSeq(s, m + 1, n) \in Seq(Bytes)
    BY <1>1, <2>1
  <2> QED
    BY <2>1, <2>2, <2>3, SeqEqual
<1> QED
  BY <1>3, <1>4 DEF t

\* The grammar of RFC 8259 is that by places.
LEMMA NumberHasPlaces ==
    ASSUME NEW s \in Seq(Bytes)
    PROVE  IsNumber(s) <=> \E a, b, c \in 0..Len(s) : NumberEndsAt(s, a, b, c)
<1>1. Len(s) \in Nat
  OBVIOUS
<1>2. ASSUME NEW a \in 0..Len(s), NEW b \in 0..Len(s), NEW c \in 0..Len(s)
      PROVE  NumberEndsAt(s, a, b, c) <=>
                /\ SubSeq(s, 1, a) \in {<<>>, <<"-">>}
                /\ IsInt(SubSeq(s, a + 1, b))
                /\ b = c \/ IsFraction(SubSeq(s, b + 1, c))
                /\ c = Len(s) \/ IsExponent(SubSeq(s, c + 1, Len(s)))
  <2>1. SubSeq(s, 1, a) \in {<<>>, <<"-">>} <=> a = 0 \/ (a = 1 /\ Is(s, 1, "-"))
    <3> DEFINE t == SubSeq(s, 1, a)
    <3>1. /\ t \in Seq(Bytes) /\ Len(t) = a
          /\ \A k \in 1..a : t[k] = s[k]
      BY PartOf
    <3> HIDE DEF t
    <3>2. t = <<>> <=> a = 0
      BY <3>1
    <3>3. t = <<"-">> <=> a = 1 /\ s[1] = "-"
      <4> DEFINE minus == <<"-">>
      <4>1. minus \in Seq(Bytes) /\ Len(minus) = 1 /\ minus[1] = "-"
        BY DEF Bytes
      <4> HIDE DEF minus
      <4>2. a = 1 /\ s[1] = "-" => t = minus
        <5> SUFFICES ASSUME a = 1, s[1] = "-" PROVE t = minus
          OBVIOUS
        <5>1. Len(t) = Len(minus) /\ \A k \in 1..Len(t) : t[k] = minus[k]
          BY <3>1, <4>1
        <5> QED
          BY <3>1, <4>1, <5>1, SeqEqual
      <4>3. t = minus => a = 1 /\ s[1] = "-"
        <5> SUFFICES ASSUME t = minus PROVE a = 1 /\ s[1] = "-"
          OBVIOUS
        <5>1. a = 1
          BY <3>1, <4>1
        <5> QED
          BY <3>1, <4>1, <5>1
      <4> QED
        BY <4>2, <4>3 DEF minus
    <3> QED
      BY <3>2, <3>3 DEF t, Is
  <2>2. IsInt(SubSeq(s, a + 1, b)) <=> Digits(s, a + 1, b) /\ (Is(s, a + 1, "0") => b = a + 1)
    <3> DEFINE t == SubSeq(s, a + 1, b)
    <3>1. AllDigits(t) <=> Digits(s, a + 1, b)
      BY DigitsOfPart
    <3>2. a + 1 <= b => t[1] = s[a + 1] /\ Len(t) = b - a
      <4> SUFFICES ASSUME a + 1 <= b PROVE t[1] = s[a + 1] /\ Len(t) = b - a
        OBVIOUS
      <4>1. a + 1 \in Nat \ {0} /\ b - (a + 1) + 1 = b - a
        OBVIOUS
      <4>2. t[1] = s[a + 1] /\ Len(t) = b - (a + 1) + 1
        BY <4>1, PartBegins
      <4> QED
        BY <4>1, <4>2
    <3> HIDE DEF t
    <3>3. Digits(s, a + 1, b) => a + 1 <= b
      BY DEF Digits
    <3>4. ASSUME Digits(s, a + 1, b)
          PROVE  (t[1] = "0" => Len(t) = 1) <=> (Is(s, a + 1, "0") => b = a + 1)
      <4>1. a + 1 <= b /\ a + 1 <= Len(s) /\ t[1] = s[a + 1] /\ Len(t) = b - a
        BY <1>1, <3>2, <3>3, <3>4
      <4>2. Len(t) = 1 <=> b = a + 1
        BY <4>1
      <4> QED
        BY <4>1, <4>2 DEF Is
    <3>5. IsInt(t) <=> AllDigits(t) /\ (t[1] = "0" => Len(t) = 1)
      BY DEF IsInt
    <3> QED
      BY <3>1, <3>4, <3>5, Zenon DEF t
  <2>3. IsFraction(SubSeq(s, b + 1, c)) <=> Is(s, b + 1, ".") /\ Digits(s, b + 2, c)
    <3> DEFINE t == SubSeq(s, b + 1, c)
    <3>1. CASE c < b + 1
      <4>1. t = <<>>
        BY <3>1, PartOf
      <4> QED
        BY <3>1, <4>1 DEF IsFraction, Digits
    <3>2. CASE b + 1 <= c
      <4>1. t # <<>> /\ t[1] = s[b + 1]
        <5>1. b + 1 \in Nat \ {0} /\ b + 1 <= c
          BY <3>2
        <5> QED
          BY <5>1, PartBegins
      <4>2. Tail(t) = SubSeq(s, b + 2, c)
        <5>1. b + 1 \in Nat \ {0} /\ c \in (b + 1)..Len(s) /\ (b + 1) + 1 = b + 2
          BY <3>2
        <5> QED
          BY <5>1, EndOfPart
      <4>3. AllDigits(SubSeq(s, b + 2, c)) <=> Digits(s, b + 2, c)
        BY DigitsOfPart
      <4> HIDE DEF t
      <4>4. IsFraction(t) <=> s[b + 1] = "." /\ AllDigits(SubSeq(s, b + 2, c))
        BY <4>1, <4>2 DEF IsFraction
      <4>5. Is(s, b + 1, ".") <=> s[b + 1] = "."
        BY <1>1, <3>2 DEF Is
      <4> QED
        BY <4>3, <4>4, <4>5, Zenon DEF t
    <3> QED
      BY <3>1, <3>2
  <2>4. c # Len(s) =>
          (IsExponent(SubSeq(s, c + 1, Len(s))) <=>
             /\ Is(s, c + 1, "e")
             /\ \/ Digits(s, c + 2, Len(s))
                \/ (Is(s, c + 2, "+") \/ Is(s, c + 2, "-")) /\ Digits(s, c + 3, Len(s)))
    <3> SUFFICES ASSUME c < Len(s)
                 PROVE  IsExponent(SubSeq(s, c + 1, Len(s))) <=>
                           /\ Is(s, c + 1, "e")
                           /\ \/ Digits(s, c + 2, Len(s))
                              \/ (Is(s, c + 2, "+") \/ Is(s, c + 2, "-"))
                                    /\ Digits(s, c + 3, Len(s))
      OBVIOUS
    <3> DEFINE t == SubSeq(s, c + 1, Len(s))
    <3>1. /\ t # <<>> /\ t[1] = s[c + 1] /\ Len(t) = Len(s) - c
          /\ Len(t) > 1 => t[2] = s[c + 2]
      <4> DEFINE m == c + 1
                 n == Len(s)
                 u == SubSeq(s, m, n)
      <4>1. m \in Nat \ {0} /\ n \in 0..Len(s) /\ m <= n
        BY <1>1
      <4> HIDE DEF m, n
      <4>2. Len(u) = n - m + 1 /\ u # <<>> /\ \A k \in 1..(n - m + 1) : u[k] = s[m + k - 1]
        BY <4>1, PartOf
      <4>3. u[1] = s[m] /\ (n - m + 1 > 1 => u[2] = s[m + 1])
        BY <1>1, <4>1, <4>2
      <4> HIDE DEF u
      <4>4. n - m + 1 = Len(s) - c /\ m + 1 = c + 2
        BY <1>1 DEF m, n
      <4>5. t = u
        BY DEF u, m, n
      <4> QED
        BY <4>2, <4>3, <4>4, <4>5 DEF m
    <3>2. Tail(t) = SubSeq(s, c + 2, Len(s)) /\ SubSeq(t, 3, Len(t)) = SubSeq(s, c + 3, Len(s))
      <4>1. /\ c + 1 \in Nat \ {0} /\ Len(s) \in (c + 1)..Len(s)
            /\ (c + 1) + 1 = c + 2 /\ (c + 1) + 3 - 1 = c + 3
        BY <1>1
      <4> QED
        BY <4>1, EndOfPart
    <3>3. /\ AllDigits(SubSeq(s, c + 2, Len(s))) <=> Digits(s, c + 2, Len(s))
          /\ AllDigits(SubSeq(s, c + 3, Len(s))) <=> Digits(s, c + 3, Len(s))
      BY DigitsOfPart
    <3> HIDE DEF t
    <3>4. Len(t) > 1 /\ t[2] \in {"+", "-"} <=> Is(s, c + 2, "+") \/ Is(s, c + 2, "-")
      BY <1>1, <3>1 DEF Is
    <3>5. IsExponent(t) <=>
             /\ s[c + 1] = "e"
             /\ \/ AllDigits(SubSeq(s, c + 2, Len(s)))
                \/ Len(t) > 1 /\ t[2] \in {"+", "-"} /\ AllDigits(SubSeq(s, c + 3, Len(s)))
      BY <3>1, <3>2 DEF IsExponent
    <3>6. Is(s, c + 1, "e") <=> s[c + 1] = "e"
      BY <1>1 DEF Is
    <3> QED
      BY <3>3, <3>4, <3>5, <3>6, Zenon DEF t
  <2> QED
    BY <2>1, <2>2, <2>3, <2>4 DEF NumberEndsAt
<1> QED
  BY <1>2 DEF IsNumber

\* isJSONNumber accepts the numbers of JSON's grammar, and nothing else: words
\* of any length.
THEOREM NumbersOfTheGrammar == \A s \in Seq(Bytes) : isJSONNumber(s) <=> IsNumber(s)
BY NumberIsScanned, NumberHasPlaces

-----------------------------------------------------------------------------
(* The colour of numbers *)

NumbersInv == JsonInv /\ (scan = "string" => src[i] = "quote") /\ NumbersAreRight

\* What does not begin like a number is none.
LEMMA NumbersBegin ==
    ASSUME NEW s \in Seq(Bytes), IsNumber(s)
    PROVE  s # <<>> /\ s[1] \in {"-", "0", "1"}
<1>1. PICK a \in 0..Len(s), b \in 0..Len(s), c \in 0..Len(s) : NumberEndsAt(s, a, b, c)
  BY NumberHasPlaces
<1>2. IsDigit(s, a + 1)
  BY <1>1 DEF NumberEndsAt, Digits
<1>3. a = 0 \/ (a = 1 /\ Is(s, 1, "-"))
  BY <1>1 DEF NumberEndsAt
<1>4. Len(s) >= 1 /\ s[1] \in {"-", "0", "1"}
  BY <1>2, <1>3 DEF Is, IsDigit
<1> QED
  BY <1>4

LEMMA FirstOfPart ==
    ASSUME JsonTypeOK, NEW to \in Nat, i <= to, to <= Len(src)
    PROVE  SubSeq(src, i, to) \in Seq(Bytes) /\ SubSeq(src, i, to)[1] = src[i]
<1> DEFINE s == src
           m == i
<1>1. s \in Seq(Bytes) /\ m \in Nat \ {0} /\ to \in 0..Len(s) /\ m <= to
  BY DEF JsonTypeOK
<1> HIDE DEF s, m
<1>2. SubSeq(s, m, to) \in Seq(Bytes) /\ \A k \in 1..(to - m + 1) : SubSeq(s, m, to)[k] = s[m + k - 1]
  BY <1>1, PartOf
<1>3. SubSeq(s, m, to)[1] = s[m]
  BY <1>1, <1>2
<1> QED
  BY <1>2, <1>3 DEF s, m

\* A new piece with the right colour leaves all of them right.
LEMMA WriteColours ==
    ASSUME NumbersInv, NEW to \in Nat, i <= to, to <= Len(src), NEW cls \in Classes,
           cls = "num" <=> IsNumber(SubSeq(src, i, to)),
           Write(to, cls)
    PROVE  NumbersAreRight' /\ scan' = "top"
<1>1. /\ out' = Append(out, Piece(i, to, cls)) /\ src' = src /\ scan' = "top"
  BY DEF Write
<1>2. out \in Seq([from : Nat, to : Nat, cls : Classes]) /\ i \in Nat
  BY DEF NumbersInv, JsonInv, JsonTypeOK
<1>3. /\ DOMAIN out = 1..Len(out) /\ DOMAIN out' = 1..(Len(out) + 1) /\ Len(out) \in Nat
      /\ \A n \in 1..Len(out) : out'[n] = out[n]
      /\ out'[Len(out) + 1] = Piece(i, to, cls)
  BY <1>1, <1>2
<1>4. ASSUME NEW n \in DOMAIN out'
      PROVE  out'[n].cls = "num" <=> IsNumber(SubSeq(src, out'[n].from, out'[n].to))
  <2>1. CASE n = Len(out) + 1
    BY <1>3, <2>1 DEF Piece
  <2>2. CASE n # Len(out) + 1
    <3>1. n \in DOMAIN out /\ out'[n] = out[n]
      BY <1>3, <1>4, <2>2
    <3> QED
      BY <3>1 DEF NumbersInv, NumbersAreRight, TextOf
  <2> QED
    BY <2>1, <2>2
<1> QED
  BY <1>1, <1>4 DEF NumbersAreRight, TextOf

LEMMA NumbersInvNext == NumbersInv /\ [JsonNext]_jsonVars => NumbersInv'
<1> SUFFICES ASSUME NumbersInv, [JsonNext]_jsonVars PROVE NumbersInv'
  OBVIOUS
<1>1. JsonInv'
  BY JsonInvNext DEF NumbersInv
<1>2. /\ src \in Seq(Bytes) /\ Len(src) \in Nat /\ JsonTypeOK
      /\ i \in 1..(Len(src) + 1) /\ j \in 1..(Len(src) + 2)
  BY DEF NumbersInv, JsonInv, JsonTypeOK
<1>3. ASSUME NEW to \in Nat, i <= to, to <= Len(src), src[i] \notin {"-", "0", "1"},
             NEW cls \in Classes \ {"num"}, Write(to, cls)
      PROVE  NumbersInv'
  <2>1. ~IsNumber(SubSeq(src, i, to))
    BY <1>2, <1>3, FirstOfPart, NumbersBegin
  <2>2. NumbersAreRight' /\ scan' = "top"
    BY <1>3, <2>1, WriteColours
  <2> QED
    BY <1>1, <2>2 DEF NumbersInv
<1>4. ASSUME NEW loop, NEW at, loop = "string" => src[i] = "quote", Enter(loop, at)
      PROVE  NumbersInv'
  BY <1>1, <1>4 DEF Enter, NumbersInv, NumbersAreRight, TextOf
<1>5. CASE OpenString
  BY <1>4, <1>5 DEF OpenString, Next1
<1>6. CASE InString
  <2>1. PICK at : Enter("string", at)
    BY <1>6 DEF InString
  <2>2. src[i] = "quote"
    BY <1>6 DEF InString, NumbersInv
  <2> QED
    BY <1>4, <2>1, <2>2
<1>7. CASE CloseString
  <2>1. scan = "string" /\ j <= Len(src) /\ Write(j, LiteralClass(j)) /\ i < j /\ src[i] = "quote"
    BY <1>7 DEF CloseString, NumbersInv, JsonInv, Scanning
  <2>2. LiteralClass(j) \in Classes \ {"num"}
    BY DEF LiteralClass, Classes
  <2> QED
    BY <1>2, <1>3, <2>1, <2>2
<1>8. CASE Unterminated
  <2>1. Write(Len(src), "plain") /\ i <= Len(src) /\ src[i] = "quote"
    BY <1>8 DEF Unterminated, NumbersInv, JsonInv, Scanning
  <2> QED
    BY <1>2, <1>3, <2>1 DEF Classes
<1>9. CASE Punctuation \/ Space
  <2>1. PICK cls \in {"plain", "space"} : Write(i, cls)
    BY <1>9 DEF Punctuation, Space
  <2>2. i <= Len(src) /\ src[i] \in {"punct", "colon", "space"}
    BY <1>9 DEF Punctuation, Space, Next1
  <2> QED
    BY <1>2, <1>3, <2>1, <2>2 DEF Classes
<1>10. CASE OpenWord \/ InWord \/ Finish
  <2>1. PICK loop \in {"word", "done"}, at \in {i, j, j + 1} : Enter(loop, at)
    BY <1>10 DEF OpenWord, InWord, Finish
  <2> QED
    BY <1>4, <2>1
<1>11. CASE CloseWord
  <2> DEFINE word == SubSeq(src, i, j - 1)
  <2>1. /\ scan = "word" /\ Write(j - 1, WordClass(word))
        /\ j <= Len(src) => src[j] \in Stops
    BY <1>11 DEF CloseWord
  <2>2. i <= j /\ j <= Len(src) + 1 /\ i <= Len(src) /\ src[i] \notin Stops
    BY <2>1 DEF NumbersInv, JsonInv, Scanning
  <2>3. j # i
    BY <2>1, <2>2
  <2>4. j - 1 \in Nat /\ i <= j - 1 /\ j - 1 <= Len(src)
    BY <1>2, <2>2, <2>3
  <2>5. word \in Seq(Bytes)
    BY <1>2, <2>4, FirstOfPart
  <2> HIDE DEF word
  <2>6. WordClass(word) = "num" <=> IsNumber(word)
    <3>1. isJSONNumber(word) <=> IsNumber(word)
      BY <2>5, NumbersOfTheGrammar
    <3>2. IsNumber(word) => word # <<"true">> /\ word # <<"null">>
      BY <2>5, NumbersBegin
    <3> QED
      BY <3>1, <3>2 DEF WordClass
  <2>7. NumbersAreRight' /\ scan' = "top"
    BY <2>1, <2>4, <2>6, ClassesAre, WriteColours DEF word
  <2> QED
    BY <1>1, <2>7 DEF NumbersInv
<1>12. CASE UNCHANGED jsonVars
  BY <1>1, <1>12 DEF jsonVars, NumbersInv, NumbersAreRight, TextOf
<1> QED
  BY <1>5, <1>6, <1>7, <1>8, <1>9, <1>10, <1>11, <1>12 DEF JsonNext

\* In any text whatever, a piece has the colour of numbers exactly if it is one
\* of JSON's: the page does not call 01 or 1.e5 a number.
THEOREM NumbersAreColoured == JsonSpec => []NumbersAreRight
<1>1. JsonInit => NumbersInv
  BY JsonInvInit DEF JsonInit, NumbersInv, NumbersAreRight
<1>2. NumbersInv => NumbersAreRight
  BY DEF NumbersInv
<1> QED
  BY <1>1, <1>2, NumbersInvNext, PTL DEF JsonSpec

-----------------------------------------------------------------------------
(* The tokens of a document *)

TokenSet == [cls : Classes, text : Seq(Bytes)]

TextsOf(t) == [n \in 1..Len(t) |-> t[n].text]

\* s is the text of the tokens t, of which the n-th ends at p[n].
PlacedIn(s, t, p) ==
    /\ p \in [0..Len(t) -> Nat] /\ p[0] = 0 /\ p[Len(t)] = Len(s)
    /\ \A n \in 1..Len(t) :
          /\ p[n] = p[n - 1] + Len(t[n].text) /\ p[n] <= Len(s)
          /\ \A k \in 1..Len(t[n].text) : s[p[n - 1] + k] = t[n].text[k]

\* Tokens that are put together end somewhere.
LEMMA TokensHavePlaces ==
    ASSUME NEW t \in Seq(TokenSet)
    PROVE  \E p : PlacedIn(FlattenSeq(TextsOf(t)), t, p)
<1> DEFINE s == TextsOf(t)
           N == Len(t)
<1>1. /\ N \in Nat /\ s \in Seq(Seq(Bytes)) /\ Len(s) = N
      /\ \A n \in 1..N : t[n] \in TokenSet /\ s[n] = t[n].text /\ s[n] \in Seq(Bytes)
  <2>1. N \in Nat /\ \A n \in 1..N : t[n] \in TokenSet
    OBVIOUS
  <2>2. \A n \in 1..N : t[n].text \in Seq(Bytes)
    BY <2>1 DEF TokenSet
  <2> QED
    BY <2>1, <2>2 DEF TextsOf
<1> HIDE DEF s, N
<1>2. PICK f \in [0..N -> Seq(Bytes)] : PutTogether(f, s, N) /\ FlattenSeq(s) = f[N]
  BY <1>1, Flattened
<1>3. \A k \in 0..N : /\ f[k] \in Seq(Bytes) /\ Len(f[k]) \in Nat /\ Len(f[k]) <= Len(f[N])
                      /\ \A m \in 1..Len(f[k]) : f[N][m] = f[k][m]
  <2>1. s \in Seq(Seq(Bytes))
    BY <1>1
  <2>2. f \in [0..Len(s) -> Seq(Bytes)] /\ PutTogether(f, s, Len(s))
    BY <1>1, <1>2
  <2>3. \A k \in 0..Len(s) :
           /\ Len(f[k]) <= Len(f[Len(s)])
           /\ \A m \in 1..Len(f[k]) : f[Len(s)][m] = f[k][m]
    BY <2>1, <2>2, PiecesBegin, ZenonT(60)
  <2>4. \A k \in 0..N : f[k] \in Seq(Bytes) /\ Len(f[k]) \in Nat
    BY <1>2
  <2> QED
    BY <1>1, <2>3, <2>4
<1> DEFINE p == [k \in 0..N |-> Len(f[k])]
<1>4. p \in [0..N -> Nat] /\ p[0] = 0 /\ p[N] = Len(f[N])
  BY <1>1, <1>2, <1>3 DEF PutTogether
<1>5. ASSUME NEW n \in 1..N
      PROVE  /\ p[n] = p[n - 1] + Len(t[n].text) /\ p[n] <= Len(f[N])
             /\ \A k \in 1..Len(t[n].text) : f[N][p[n - 1] + k] = t[n].text[k]
  <2> DEFINE l == n - 1
  <2>1. l \in 0..N /\ n \in 0..N /\ p[n] = Len(f[n]) /\ p[l] = Len(f[l])
    BY <1>1
  <2>2. f[n] = f[l] \o s[n]
    BY <1>2 DEF PutTogether
  <2> HIDE DEF l
  <2>3. f[l] \in Seq(Bytes) /\ s[n] \in Seq(Bytes) /\ s[n] = t[n].text
    BY <1>1, <1>3, <2>1
  <2>4. /\ Len(f[n]) = Len(f[l]) + Len(s[n])
        /\ \A k \in 1..Len(s[n]) : f[n][Len(f[l]) + k] = s[n][k] /\ Len(f[l]) + k \in 1..Len(f[n])
    <3> DEFINE u == f[l]
               v == s[n]
    <3>1. u \in Seq(Bytes) /\ v \in Seq(Bytes) /\ f[n] = u \o v
      BY <2>2, <2>3
    <3> HIDE DEF u, v
    <3>2. /\ Len(f[n]) = Len(u) + Len(v)
          /\ \A k \in 1..Len(v) : f[n][Len(u) + k] = v[k] /\ Len(u) + k \in 1..Len(f[n])
      BY <3>1
    <3> QED
      BY <3>2 DEF u, v
  <2>5. \A k \in 1..Len(s[n]) : f[N][Len(f[l]) + k] = s[n][k]
    BY <1>3, <2>1, <2>4
  <2>6. Len(f[n]) <= Len(f[N])
    BY <1>3, <2>1
  <2> HIDE DEF p
  <2>7. p[n] = p[l] + Len(t[n].text) /\ \A k \in 1..Len(t[n].text) : f[N][p[l] + k] = t[n].text[k]
    BY <2>1, <2>3, <2>4, <2>5
  <2> QED
    BY <2>1, <2>6, <2>7 DEF l
<1> HIDE DEF p
<1>6. PlacedIn(f[N], t, p)
  BY <1>4, <1>5 DEF PlacedIn, N
<1> QED
  BY <1>2, <1>6 DEF s

\* A number has nothing in it that ends a word.
LEMMA NumbersGoOn ==
    ASSUME NEW s \in Seq(Bytes), IsNumber(s), NEW k \in 1..Len(s)
    PROVE  s[k] \notin Stops
<1>1. PICK a \in 0..Len(s), b \in 0..Len(s), c \in 0..Len(s) : NumberEndsAt(s, a, b, c)
  BY NumberHasPlaces
<1>2. Len(s) \in Nat
  OBVIOUS
<1>3. CASE k <= a
  <2>1. k = 1 /\ Is(s, 1, "-")
    BY <1>1, <1>3 DEF NumberEndsAt
  <2> QED
    BY <2>1 DEF Is, Stops
<1>4. ASSUME NEW m \in Nat, NEW n \in Nat, Digits(s, m, n), m <= k, k <= n PROVE s[k] \notin Stops
  BY <1>4 DEF Digits, IsDigit, Stops
<1>5. CASE a < k /\ k <= b
  <2>1. Digits(s, a + 1, b)
    BY <1>1 DEF NumberEndsAt
  <2> QED
    BY <1>4, <1>5, <2>1
<1>6. CASE b < k /\ k <= c
  <2>1. Is(s, b + 1, ".") /\ Digits(s, b + 2, c)
    BY <1>1, <1>6 DEF NumberEndsAt
  <2>2. CASE k = b + 1
    BY <2>1, <2>2 DEF Is, Stops
  <2>3. CASE k # b + 1
    BY <1>4, <1>6, <2>1, <2>3
  <2> QED
    BY <2>2, <2>3
<1>7. CASE c < k
  <2>1. /\ Is(s, c + 1, "e")
        /\ \/ Digits(s, c + 2, Len(s))
           \/ (Is(s, c + 2, "+") \/ Is(s, c + 2, "-")) /\ Digits(s, c + 3, Len(s))
    BY <1>1, <1>7 DEF NumberEndsAt
  <2>2. CASE k = c + 1
    BY <2>1, <2>2 DEF Is, Stops
  <2>3. CASE k # c + 1 /\ Digits(s, c + 2, Len(s))
    BY <1>4, <1>7, <2>3
  <2>4. CASE k # c + 1 /\ k = c + 2 /\ (Is(s, c + 2, "+") \/ Is(s, c + 2, "-"))
    BY <2>4 DEF Is, Stops
  <2>5. CASE k # c + 1 /\ k # c + 2 /\ Digits(s, c + 3, Len(s))
    BY <1>4, <1>7, <2>5
  <2> QED
    BY <2>1, <2>2, <2>3, <2>4, <2>5
<1> QED
  BY <1>1, <1>2, <1>3, <1>5, <1>6, <1>7

\* The first character of a token tells what it is.
LEMMA TokenBegins ==
    ASSUME NEW x \in TokenSet, IsToken(x)
    PROVE  /\ x.text \in Seq(Bytes) /\ Len(x.text) >= 1
           /\ x.cls = "space" <=> x.text[1] = "space"
           /\ x.cls = "plain" <=> x.text[1] \in {"punct", "colon"}
           /\ x.cls \in StringClasses <=> x.text[1] = "quote"
           /\ x.cls \in WordClasses <=> x.text[1] \notin Stops
           /\ x.cls \in {"space", "plain"} => Len(x.text) = 1
           /\ x.text = <<"colon">> <=> x.text[1] = "colon"
<1> DEFINE u == x.text
           c == x.cls
<1>1. u \in Seq(Bytes) /\ c \in Classes /\ Len(u) \in Nat
  BY DEF TokenSet
<1>2. \/ c = "space" /\ u = <<"space">>
      \/ c = "plain" /\ u \in {<<"punct">>, <<"colon">>}
      \/ c \in StringClasses /\ IsString(u)
      \/ c = "num" /\ IsNumber(u)
      \/ c = "bool" /\ u = <<"true">>
      \/ c = "null" /\ u = <<"null">>
  BY Zenon DEF IsToken
<1>3. IsString(u) => Len(u) > 1 /\ u[1] = "quote"
  BY Zenon DEF IsString
<1>4. IsNumber(u) => u # <<>> /\ u[1] \in {"-", "0", "1"}
  BY <1>1, NumbersBegin
<1>5. \A b \in Bytes : u = <<b>> => Len(u) = 1 /\ u[1] = b
  OBVIOUS
<1>6. /\ Len(u) >= 1
      /\ c = "space" <=> u[1] = "space"
      /\ c = "plain" <=> u[1] \in {"punct", "colon"}
      /\ c \in StringClasses <=> u[1] = "quote"
      /\ c \in WordClasses <=> u[1] \notin Stops
      /\ c \in {"space", "plain"} => Len(u) = 1
      /\ u = <<"colon">> <=> u[1] = "colon"
  <2> HIDE DEF u, c
  <2>1. CASE c = "space" /\ u = <<"space">>
    BY <2>1 DEF StringClasses, WordClasses, Stops
  <2>2. CASE c = "plain" /\ u \in {<<"punct">>, <<"colon">>}
    BY <2>2 DEF StringClasses, WordClasses, Stops
  <2>3. CASE c \in StringClasses /\ IsString(u)
    BY <1>1, <1>3, <2>3 DEF StringClasses, WordClasses, Stops
  <2>4. CASE c = "num" /\ IsNumber(u)
    BY <1>1, <1>4, <2>4 DEF StringClasses, WordClasses, Stops
  <2>5. CASE c \in {"bool", "null"} /\ u \in {<<"true">>, <<"null">>}
    BY <2>5 DEF StringClasses, WordClasses, Stops
  <2> QED
    BY <1>2, <2>1, <2>2, <2>3, <2>4, <2>5
<1> QED
  BY <1>1, <1>6

\* A word is one to its end.
LEMMA WordsGoOn ==
    ASSUME NEW x \in TokenSet, IsToken(x), x.cls \in WordClasses, NEW k \in 1..Len(x.text)
    PROVE  x.text[k] \notin Stops
<1>1. x.text \in Seq(Bytes)
  BY DEF TokenSet
<1>2. CASE IsNumber(x.text)
  BY <1>1, <1>2, NumbersGoOn
<1>3. CASE x.text \in {<<"true">>, <<"null">>}
  BY <1>3 DEF Stops
<1> QED
  BY <1>2, <1>3 DEF IsToken, WordClasses, StringClasses

\* A word has the colour of its class.
LEMMA WordsAreKnown ==
    ASSUME NEW x \in TokenSet, IsToken(x), x.cls \in WordClasses
    PROVE  WordClass(x.text) = x.cls
<1>1. x.text \in Seq(Bytes)
  BY DEF TokenSet
<1>2. CASE x.cls = "num" /\ IsNumber(x.text)
  <2>1. isJSONNumber(x.text) /\ x.text # <<"true">> /\ x.text # <<"null">>
    BY <1>1, <1>2, NumbersOfTheGrammar, NumbersBegin
  <2> QED
    BY <1>2, <2>1, Zenon DEF WordClass
<1>3. CASE x.cls = "bool" /\ x.text = <<"true">>
  BY <1>3 DEF WordClass
<1>4. CASE x.cls = "null" /\ x.text = <<"null">>
  BY <1>4 DEF WordClass
<1> QED
  BY <1>2, <1>3, <1>4 DEF IsToken, WordClasses, StringClasses

\* The token behind the first n, and where it is.
LEMMA TokenAt ==
    ASSUME NEW s \in Seq(Bytes), NEW t \in Seq(TokenSet), AreTokens(t),
           NEW p, PlacedIn(s, t, p), NEW n \in 0..(Len(t) - 1)
    PROVE  /\ t[n + 1] \in TokenSet /\ IsToken(t[n + 1])
           /\ t[n + 1].text \in Seq(Bytes) /\ Len(t[n + 1].text) >= 1
           /\ p[n] \in Nat /\ p[n + 1] = p[n] + Len(t[n + 1].text) /\ p[n + 1] <= Len(s)
           /\ \A k \in 1..Len(t[n + 1].text) : s[p[n] + k] = t[n + 1].text[k]
           /\ s[p[n] + 1] = t[n + 1].text[1]
<1> DEFINE m == n + 1
<1>1. m \in 1..Len(t) /\ m \in DOMAIN t /\ m - 1 = n /\ n \in 0..Len(t)
  OBVIOUS
<1>2. /\ p[m] = p[m - 1] + Len(t[m].text) /\ p[m] <= Len(s)
      /\ \A k \in 1..Len(t[m].text) : s[p[m - 1] + k] = t[m].text[k]
  <2> HIDE DEF m
  <2> QED
    BY <1>1 DEF PlacedIn
<1>3. t[m] \in TokenSet /\ IsToken(t[m])
  <2> HIDE DEF m
  <2> QED
    BY <1>1 DEF AreTokens
<1>4. p[n] \in Nat
  BY <1>1 DEF PlacedIn
<1> HIDE DEF m
<1>5. t[m].text \in Seq(Bytes) /\ Len(t[m].text) >= 1
  BY <1>3, TokenBegins
<1>6. 1 \in 1..Len(t[m].text)
  BY <1>5
<1>7. s[p[n] + 1] = t[m].text[1]
  BY <1>1, <1>2, <1>6
<1> QED
  BY <1>1, <1>2, <1>3, <1>4, <1>5, <1>7 DEF m

\* The text ends where the tokens do.
LEMMA MoreTokens ==
    ASSUME NEW s \in Seq(Bytes), NEW t \in Seq(TokenSet), AreTokens(t),
           NEW p, PlacedIn(s, t, p), NEW n \in 0..Len(t)
    PROVE  p[n] \in Nat /\ (p[n] < Len(s) <=> n < Len(t)) /\ p[n] <= Len(s)
<1>1. CASE n = Len(t)
  BY <1>1 DEF PlacedIn
<1>2. CASE n # Len(t)
  <2>1. n \in 0..(Len(t) - 1)
    BY <1>2
  <2>2. /\ Len(t[n + 1].text) >= 1 /\ Len(t[n + 1].text) \in Nat
        /\ p[n] \in Nat /\ p[n + 1] = p[n] + Len(t[n + 1].text) /\ p[n + 1] <= Len(s)
    <3>1. t[n + 1].text \in Seq(Bytes)
      BY <2>1, TokenAt
    <3>2. Len(t[n + 1].text) \in Nat
      BY <3>1
    <3> QED
      BY <2>1, <3>2, TokenAt
  <2> QED
    BY <2>1, <2>2
<1> QED
  BY <1>1, <1>2

\* After any white space from a place on there is a colon.
ColonAfter(s, end) ==
    \E k \in (end + 1)..Len(s) :
        s[k] = "colon" /\ \A m \in (end + 1)..(k - 1) : s[m] = "space"

\* The code looks for the colon in the text, the grammar among the tokens.
LEMMA ColonIsSeen ==
    ASSUME NEW s \in Seq(Bytes), NEW t \in Seq(TokenSet), AreTokens(t),
           NEW p, PlacedIn(s, t, p), NEW n \in 1..Len(t), ColonFrom(t, n + 1)
    PROVE  ColonAfter(s, p[n])
<1>1. PICK k \in (n + 1)..Len(t) :
         t[k].text = <<"colon">> /\ \A m \in (n + 1)..(k - 1) : t[m].cls = "space"
  BY DEF ColonFrom
<1> DEFINE d == k - 1 - n
           P == {q \in 0..d : /\ p[n + q] = p[n] + q
                              /\ \A m \in 1..q : s[p[n] + m] = "space"}
<1>2. n \in Nat /\ Len(t) \in Nat /\ d \in Nat /\ n + d \in 0..(Len(t) - 1) /\ k = n + d + 1
  BY <1>1
<1> HIDE DEF d
<1>3. p[n] \in Nat
  <2>1. n \in 0..Len(t)
    BY <1>2
  <2> QED
    BY <2>1, MoreTokens
<1>4. 0 \in P
  BY <1>2, <1>3
<1>5. ASSUME NEW q \in 0..(d - 1), q \in P PROVE q + 1 \in P
  <2>1. p[n + q] = p[n] + q /\ \A m \in 1..q : s[p[n] + m] = "space"
    BY <1>5
  <2> DEFINE l == n + q
  <2>2. /\ l \in 0..(Len(t) - 1) /\ l + 1 \in (n + 1)..(k - 1)
        /\ l + 1 = n + (q + 1) /\ q \in Nat /\ q + 1 \in 0..d
    BY <1>2
  <2>3. p[l] = p[n] + q
    BY <2>1
  <2> HIDE DEF l, P
  <2>4. /\ t[l + 1] \in TokenSet /\ IsToken(t[l + 1])
        /\ p[l + 1] = p[l] + Len(t[l + 1].text)
        /\ s[p[l] + 1] = t[l + 1].text[1]
    BY <2>2, TokenAt
  <2>5. t[l + 1].cls = "space"
    BY <1>1, <2>2
  <2>6. Len(t[l + 1].text) = 1 /\ t[l + 1].text[1] = "space"
    BY <2>4, <2>5, TokenBegins
  <2> DEFINE b == p[n]
  <2>7. b \in Nat /\ q \in Nat /\ p[l] = b + q /\ p[l + 1] = p[l] + 1 /\ n + (q + 1) = l + 1
    BY <1>3, <2>2, <2>3, <2>4, <2>6
  <2>8. s[p[l] + 1] = "space"
    BY <2>4, <2>6
  <2> HIDE DEF b
  <2>9. p[n + (q + 1)] = b + (q + 1) /\ s[b + (q + 1)] = "space"
    BY <2>7, <2>8
  <2>10. ASSUME NEW m \in 1..(q + 1) PROVE s[b + m] = "space"
    <3>1. m \in 1..q \/ m = q + 1
      BY <2>7
    <3> QED
      BY <2>1, <2>9, <3>1 DEF b
  <2> QED
    BY <2>2, <2>9, <2>10 DEF P, b
<1> HIDE DEF P
<1>6. d \in P
  <2>1. \A q \in 0..d : q \in P
    BY <1>2, <1>4, <1>5, CountingUp
  <2> QED
    BY <1>2, <2>1
<1>7. p[n + d] = p[n] + d /\ \A m \in 1..d : s[p[n] + m] = "space"
  BY <1>6 DEF P
<1> DEFINE e == p[n] + d + 1
<1>8. s[e] = "colon" /\ e <= Len(s)
  <2> DEFINE l == n + d
  <2>1. l \in 0..(Len(t) - 1) /\ k = l + 1 /\ p[l] + 1 = e
    BY <1>2, <1>3, <1>7
  <2> HIDE DEF l, e
  <2>2. /\ s[p[l] + 1] = t[l + 1].text[1] /\ p[l + 1] <= Len(s)
        /\ p[l + 1] = p[l] + Len(t[l + 1].text) /\ p[l] \in Nat
    BY <2>1, TokenAt
  <2>3. t[l + 1].text = <<"colon">>
    BY <1>1, <2>1
  <2>4. Len(t[l + 1].text) = 1 /\ t[l + 1].text[1] = "colon"
    BY <2>3
  <2> QED
    BY <2>1, <2>2, <2>4
<1>9. ASSUME NEW m \in (p[n] + 1)..(e - 1) PROVE s[m] = "space"
  <2> DEFINE b == p[n]
  <2>1. b \in Nat /\ d \in Nat /\ m \in (b + 1)..(b + d)
    BY <1>2, <1>3
  <2>2. \A q \in 1..d : s[b + q] = "space"
    BY <1>7
  <2> HIDE DEF b
  <2>3. m - b \in 1..d /\ b + (m - b) = m
    BY <2>1
  <2> QED
    BY <2>2, <2>3
<1>10. e \in (p[n] + 1)..Len(s)
  BY <1>2, <1>3, <1>8
<1> HIDE DEF e
<1> QED
  BY <1>8, <1>9, <1>10 DEF ColonAfter

\* And finds none that the grammar has not.
LEMMA ColonIsThere ==
    ASSUME NEW s \in Seq(Bytes), NEW t \in Seq(TokenSet), AreTokens(t),
           NEW p, PlacedIn(s, t, p), NEW n \in 1..Len(t), ColonAfter(s, p[n])
    PROVE  ColonFrom(t, n + 1)
<1>1. p[n] \in Nat /\ n \in Nat /\ Len(t) \in Nat /\ Len(s) \in Nat
  <2>1. n \in 0..Len(t)
    OBVIOUS
  <2>2. p[n] \in Nat
    BY <2>1, MoreTokens
  <2> QED
    BY <2>2
<1>2. PICK k \in (p[n] + 1)..Len(s) :
         s[k] = "colon" /\ \A m \in (p[n] + 1)..(k - 1) : s[m] = "space"
  BY DEF ColonAfter
<1> DEFINE d == k - 1 - p[n]
           P == {q \in 0..d : /\ n + q <= Len(t) /\ p[n + q] = p[n] + q
                              /\ \A m \in (n + 1)..(n + q) : t[m].cls = "space"}
<1>3. d \in Nat /\ p[n] + d < Len(s) /\ k = p[n] + d + 1
  BY <1>1, <1>2
<1> HIDE DEF d
<1>4. 0 \in P
  BY <1>1, <1>3
\* Where the places go on so far, there is a token more, and what it is.
<1>5. ASSUME NEW q \in 0..d, q \in P
      PROVE  /\ n + q \in 0..(Len(t) - 1)
             /\ t[n + q + 1] \in TokenSet /\ IsToken(t[n + q + 1])
             /\ p[n + q + 1] = p[n + q] + Len(t[n + q + 1].text)
             /\ s[p[n] + q + 1] = t[n + q + 1].text[1]
  <2> DEFINE l == n + q
  <2> DEFINE b == p[n]
  <2>1. /\ b \in Nat /\ q \in 0..d /\ d \in Nat /\ b + d < Len(s) /\ Len(s) \in Nat
        /\ n \in Nat /\ l <= Len(t) /\ Len(t) \in Nat /\ p[l] = b + q
    BY <1>1, <1>3, <1>5
  <2>2. l \in 0..Len(t)
    BY <2>1
  <2> HIDE DEF l, b
  <2>3. p[l] < Len(s)
    BY <2>1
  <2>4. l \in 0..(Len(t) - 1)
    BY <2>1, <2>2, <2>3, MoreTokens
  <2>5. /\ t[l + 1] \in TokenSet /\ IsToken(t[l + 1])
        /\ p[l + 1] = p[l] + Len(t[l + 1].text) /\ s[p[l] + 1] = t[l + 1].text[1]
    BY <2>4, TokenAt
  <2> QED
    BY <2>1, <2>4, <2>5 DEF l, b
<1>6. ASSUME NEW q \in 0..(d - 1), q \in P PROVE q + 1 \in P
  <2> DEFINE l == n + q
  <2>1. p[l] = p[n] + q /\ \A m \in (n + 1)..l : t[m].cls = "space"
    BY <1>6
  <2>2. /\ q \in 0..d /\ q + 1 \in 0..d /\ l + 1 = n + (q + 1)
        /\ p[n] + q + 1 \in (p[n] + 1)..(k - 1)
    <3> DEFINE b == p[n]
    <3>1. b \in Nat /\ n \in Nat /\ d \in Nat /\ k = b + d + 1
      BY <1>1, <1>3
    <3> HIDE DEF b
    <3>2. q \in 0..d /\ q + 1 \in 0..d /\ n + q + 1 = n + (q + 1) /\ b + q + 1 \in (b + 1)..(k - 1)
      BY <3>1
    <3> QED
      BY <3>2 DEF b
  <2>3. /\ l \in 0..(Len(t) - 1) /\ t[l + 1] \in TokenSet /\ IsToken(t[l + 1])
        /\ p[l + 1] = p[l] + Len(t[l + 1].text)
        /\ s[p[n] + q + 1] = t[l + 1].text[1]
    BY <1>5, <1>6, <2>2
  <2> HIDE DEF l, P
  <2>4. t[l + 1].text[1] = "space"
    BY <1>2, <2>2, <2>3
  <2>5. t[l + 1].cls = "space" /\ Len(t[l + 1].text) = 1
    BY <2>3, <2>4, TokenBegins
  <2>6. p[n + (q + 1)] = p[n] + (q + 1) /\ n + (q + 1) <= Len(t)
    <3>1. l + 1 <= Len(t) /\ p[l + 1] = p[l] + 1
      BY <1>1, <2>3, <2>5
    <3>2. q \in Nat /\ p[l] = p[n] + q
      BY <1>3, <2>1
    <3>3. p[n + (q + 1)] = p[l + 1] /\ n + (q + 1) = l + 1
      BY <2>2
    <3>4. p[n + (q + 1)] = p[n] + (q + 1)
      <4> DEFINE b == p[n]
      <4>1. b \in Nat /\ q \in Nat /\ p[l] = b + q /\ p[n + (q + 1)] = p[l] + 1
        BY <1>1, <3>1, <3>2, <3>3
      <4> HIDE DEF b
      <4> QED
        BY <4>1 DEF b
    <3>5. n + (q + 1) <= Len(t)
      BY <3>1, <3>3
    <3> QED
      BY <3>4, <3>5
  <2>7. ASSUME NEW m \in (n + 1)..(n + (q + 1)) PROVE t[m].cls = "space"
    <3>1. m \in (n + 1)..l \/ m = l + 1
      BY <2>2, <2>3
    <3> QED
      BY <2>1, <2>5, <3>1
  <2> QED
    BY <2>2, <2>6, <2>7 DEF P
<1> HIDE DEF P
<1>7. d \in P
  <2>1. \A q \in 0..d : q \in P
    BY <1>3, <1>4, <1>6, CountingUp
  <2> QED
    BY <1>3, <2>1
<1> DEFINE l == n + d
<1>8. /\ l \in 0..(Len(t) - 1) /\ t[l + 1] \in TokenSet /\ IsToken(t[l + 1])
      /\ s[p[n] + d + 1] = t[l + 1].text[1]
  BY <1>3, <1>5, <1>7
<1>9. \A m \in (n + 1)..l : t[m].cls = "space"
  BY <1>7 DEF P
<1>10. l \in Nat /\ n <= l
  BY <1>1, <1>3
<1> HIDE DEF l
<1>11. t[l + 1].text[1] = "colon"
  BY <1>2, <1>3, <1>8
<1>12. t[l + 1].text = <<"colon">>
  BY <1>8, <1>11, TokenBegins
<1>13. l + 1 \in (n + 1)..Len(t) /\ (l + 1) - 1 = l
  BY <1>1, <1>8, <1>10
<1> QED
  BY <1>9, <1>12, <1>13 DEF ColonFrom

\* The inner loop is at a place in the token x: at the beginning of one of a
\* string's characters, or somewhere in a word.
Within(x, loop, at) ==
    /\ loop = "string" =>
          /\ x.cls \in StringClasses
          /\ \E S \in SUBSET (2..Len(x.text)), k \in Nat :
                IsChars(x.text, S) /\ k \in S /\ at = i + k - 1
    /\ loop = "word" => x.cls \in WordClasses /\ at <= i + Len(x.text)

\* The pieces are the first of the tokens t, which end at p.
Lexing(t, p) ==
    /\ Len(out) <= Len(t) /\ i = p[Len(out)] + 1
    /\ \A n \in 1..Len(out) : out[n].cls = t[n].cls /\ SubSeq(src, out[n].from, out[n].to) = t[n].text
    /\ scan \in {"string", "word"} => Len(out) < Len(t) /\ Within(t[Len(out) + 1], scan, j)
    /\ scan = "done" => Len(out) = Len(t)

\* Where the scanner is, if there is a token left, and that there is one if
\* there is text left.
LEMMA AtHand ==
    ASSUME JsonInv, NEW t \in Seq(TokenSet), AreTokens(t),
           NEW p, PlacedIn(src, t, p), Lexing(t, p), i <= Len(src) \/ Len(out) < Len(t)
    PROVE  /\ Len(out) \in 0..(Len(t) - 1) /\ i \in Nat /\ i <= Len(src)
           /\ t[Len(out) + 1] \in TokenSet /\ IsToken(t[Len(out) + 1])
           /\ t[Len(out) + 1].text \in Seq(Bytes) /\ Len(t[Len(out) + 1].text) >= 1
           /\ p[Len(out) + 1] = i + Len(t[Len(out) + 1].text) - 1 /\ p[Len(out) + 1] <= Len(src)
           /\ \A k \in 1..Len(t[Len(out) + 1].text) : src[i + k - 1] = t[Len(out) + 1].text[k]
           /\ src[i] = t[Len(out) + 1].text[1]
<1> DEFINE n == Len(out)
           s == src
<1>1. s \in Seq(Bytes) /\ Len(s) \in Nat /\ n \in Nat /\ Len(t) \in Nat
  BY DEF JsonInv, JsonTypeOK
<1>2. n <= Len(t) /\ i = p[n] + 1 /\ PlacedIn(s, t, p) /\ (i <= Len(s) \/ n < Len(t))
  BY DEF Lexing
<1> HIDE DEF n, s
<1>3. n \in 0..Len(t)
  BY <1>1, <1>2
<1>4. p[n] \in Nat /\ (p[n] < Len(s) <=> n < Len(t))
  BY <1>1, <1>2, <1>3, MoreTokens
<1>5. n \in 0..(Len(t) - 1) /\ i \in Nat /\ i <= Len(s)
  BY <1>1, <1>2, <1>3, <1>4
<1>6. /\ t[n + 1] \in TokenSet /\ IsToken(t[n + 1])
      /\ t[n + 1].text \in Seq(Bytes) /\ Len(t[n + 1].text) >= 1
      /\ p[n + 1] = p[n] + Len(t[n + 1].text) /\ p[n + 1] <= Len(s)
      /\ \A k \in 1..Len(t[n + 1].text) : s[p[n] + k] = t[n + 1].text[k]
      /\ s[p[n] + 1] = t[n + 1].text[1]
  BY <1>1, <1>2, <1>5, TokenAt
<1>7. Len(t[n + 1].text) \in Nat
  BY <1>6
<1>8. p[n + 1] = i + Len(t[n + 1].text) - 1 /\ s[i] = t[n + 1].text[1]
  <2>1. p[n] \in Nat /\ i = p[n] + 1
    BY <1>2, <1>4
  <2>2. p[n + 1] = p[n] + Len(t[n + 1].text) /\ s[p[n] + 1] = t[n + 1].text[1]
    BY <1>6
  <2> DEFINE w == Len(t[n + 1].text)
             b == p[n]
  <2>3. w \in Nat /\ b \in Nat /\ i = b + 1 /\ p[n + 1] = b + w /\ s[b + 1] = t[n + 1].text[1]
    BY <1>7, <2>1, <2>2
  <2> HIDE DEF w, b
  <2>4. p[n + 1] = i + w - 1 /\ s[i] = t[n + 1].text[1]
    BY <2>3
  <2> QED
    BY <2>4 DEF w
<1>9. ASSUME NEW k \in 1..Len(t[n + 1].text) PROVE s[i + k - 1] = t[n + 1].text[k]
  <2>1. i + k - 1 = p[n] + k
    BY <1>2, <1>4, <1>7
  <2> QED
    BY <1>6, <2>1
<1> QED
  BY <1>5, <1>6, <1>8, <1>9 DEF n, s

\* The token at hand is written, whole and in its colour.
LEMMA WriteToken ==
    ASSUME JsonInv, NEW t \in Seq(TokenSet), AreTokens(t),
           NEW p, PlacedIn(src, t, p), Lexing(t, p), i <= Len(src),
           Write(i + Len(t[Len(out) + 1].text) - 1, t[Len(out) + 1].cls)
    PROVE  Lexing(t, p)'
<1> DEFINE n == Len(out)
           x == t[n + 1]
           to == i + Len(x.text) - 1
<1>1. /\ out' = Append(out, Piece(i, to, x.cls)) /\ i' = to + 1 /\ scan' = "top" /\ src' = src
  BY DEF Write
<1>2. /\ n \in 0..(Len(t) - 1) /\ i \in Nat /\ i <= Len(src)
      /\ x.text \in Seq(Bytes) /\ Len(x.text) >= 1
      /\ p[n + 1] = to /\ to <= Len(src)
      /\ \A k \in 1..Len(x.text) : src[i + k - 1] = x.text[k]
  BY AtHand
<1>3. /\ src \in Seq(Bytes) /\ i >= 1
      /\ out \in Seq([from : Nat, to : Nat, cls : Classes])
  BY DEF JsonInv, JsonTypeOK
<1> HIDE DEF x
<1>4. Len(x.text) \in Nat
  BY <1>2
<1>5. SubSeq(src, i, to) = x.text
  <2> DEFINE s == src
             f == i
             u == x.text
  <2>1. /\ s \in Seq(Bytes) /\ u \in Seq(Bytes) /\ f \in Nat \ {0} /\ u # <<>>
        /\ f + Len(u) - 1 <= Len(s) /\ \A k \in 1..Len(u) : s[f + k - 1] = u[k]
    BY <1>2, <1>3
  <2> HIDE DEF s, f, u
  <2>2. SubSeq(s, f, f + Len(u) - 1) = u
    BY <2>1, PartIs
  <2> QED
    BY <2>2 DEF s, f, u
<1> HIDE DEF to
<1>6. /\ Len(out') = n + 1 /\ n \in Nat
      /\ \A m \in 1..n : out'[m] = out[m]
      /\ out'[n + 1] = Piece(i, to, x.cls)
  BY <1>1, <1>3
<1>7. Len(out') <= Len(t) /\ i' = p[Len(out')] + 1
  <2> HIDE DEF n
  <2> QED
    BY <1>1, <1>2, <1>6
<1>8. ASSUME NEW m \in 1..Len(out')
      PROVE  out'[m].cls = t[m].cls /\ SubSeq(src', out'[m].from, out'[m].to) = t[m].text
  <2>1. CASE m = n + 1
    <3>1. /\ out'[m].cls = x.cls /\ out'[m].from = i /\ out'[m].to = to /\ t[m] = x
      BY <1>6, <2>1 DEF Piece, x
    <3> QED
      BY <1>1, <1>5, <3>1
  <2>2. CASE m # n + 1
    <3>1. m \in 1..n /\ out'[m] = out[m]
      BY <1>6, <2>2
    <3> QED
      BY <1>1, <3>1 DEF Lexing
  <2> QED
    BY <2>1, <2>2
<1> QED
  BY <1>1, <1>7, <1>8 DEF Lexing

\* The inner loops stay within it.
LEMMA EnterToken ==
    ASSUME JsonInv, NEW t \in Seq(TokenSet), NEW p, Lexing(t, p),
           NEW loop, NEW at, Enter(loop, at),
           loop \in {"string", "word"} => Len(out) < Len(t) /\ Within(t[Len(out) + 1], loop, at),
           loop = "done" => Len(out) = Len(t)
    PROVE  Lexing(t, p)'
<1>1. scan' = loop /\ j' = at /\ src' = src /\ i' = i /\ out' = out
  BY DEF Enter
<1> QED
  BY <1>1 DEF Lexing, Within

\* Within a string: the next character is its closing mark, or the scan goes on
\* to one that the grammar has, too.
LEMMA StringGoesOn ==
    ASSUME JsonInv, NEW t \in Seq(TokenSet), AreTokens(t),
           NEW p, PlacedIn(src, t, p), Lexing(t, p), scan = "string"
    PROVE  /\ i <= Len(src) /\ j <= Len(src) /\ t[Len(out) + 1].cls \in StringClasses
           /\ src[j] = "quote" => j = i + Len(t[Len(out) + 1].text) - 1
           /\ src[j] # "quote" =>
                 Within(t[Len(out) + 1], "string", IF src[j] = "backslash" THEN j + 2 ELSE j + 1)
<1> DEFINE x == t[Len(out) + 1]
           L == Len(x.text)
           at == IF src[j] = "backslash" THEN j + 2 ELSE j + 1
<1>1. Len(out) < Len(t) /\ Within(x, "string", j)
  BY DEF Lexing
<1>2. /\ i \in Nat /\ i <= Len(src) /\ L >= 1 /\ x.text \in Seq(Bytes)
      /\ i + L - 1 <= Len(src)
      /\ \A k \in 1..L : src[i + k - 1] = x.text[k]
  <2>1. /\ i \in Nat /\ i <= Len(src) /\ L >= 1 /\ x.text \in Seq(Bytes)
        /\ p[Len(out) + 1] = i + L - 1 /\ p[Len(out) + 1] <= Len(src)
        /\ \A k \in 1..L : src[i + k - 1] = x.text[k]
    BY <1>1, AtHand
  <2> HIDE DEF L, x
  <2> QED
    BY <2>1
<1> HIDE DEF x
<1>3. L \in Nat /\ Len(src) \in Nat
  BY <1>2 DEF JsonInv, JsonTypeOK
<1> HIDE DEF L
<1>4. x.cls \in StringClasses
  BY <1>1 DEF Within
<1>5. PICK S \in SUBSET (2..L), k \in Nat : IsChars(x.text, S) /\ k \in S /\ j = i + k - 1
  BY <1>1 DEF Within, L
<1>6. k \in 1..L /\ j <= Len(src)
  BY <1>2, <1>3, <1>5
<1>7. src[j] = x.text[k]
  BY <1>2, <1>5, <1>6
<1>8. /\ x.text[L] = "quote"
      /\ \A m \in S \ {L} :
            x.text[m] # "quote" /\ (IF x.text[m] = "backslash" THEN m + 2 ELSE m + 1) \in S
  BY <1>5 DEF IsChars, L
<1>9. src[j] = "quote" => j = i + L - 1
  BY <1>5, <1>7, <1>8
<1>10. ASSUME src[j] # "quote" PROVE Within(x, "string", at)
  <2> DEFINE next == IF x.text[k] = "backslash" THEN k + 2 ELSE k + 1
  <2>1. next \in S
    BY <1>5, <1>7, <1>8, <1>10
  <2>2. next \in Nat /\ at = i + next - 1
    BY <1>2, <1>5, <1>7
  <2> HIDE DEF next, at
  <2> QED
    BY <1>4, <1>5, <2>1, <2>2 DEF Within, L
<1> QED
  BY <1>2, <1>4, <1>6, <1>9, <1>10 DEF x, L

\* Within a word: the scan stops behind it, and not before.
LEMMA WordGoesOn ==
    ASSUME JsonInv, NEW t \in Seq(TokenSet), AreTokens(t),
           NEW p, PlacedIn(src, t, p), Lexing(t, p), scan = "word"
    PROVE  /\ i <= Len(src) /\ t[Len(out) + 1].cls \in WordClasses
           /\ j <= i + Len(t[Len(out) + 1].text)
           /\ j < i + Len(t[Len(out) + 1].text) <=> j <= Len(src) /\ src[j] \notin Stops
<1> DEFINE n == Len(out)
           s == src
           x == t[n + 1]
           L == Len(x.text)
<1>1. n < Len(t) /\ Within(x, "word", j)
  BY DEF Lexing
<1>2. /\ n \in 0..(Len(t) - 1) /\ i \in Nat /\ i <= Len(s) /\ x \in TokenSet /\ IsToken(x)
      /\ x.text \in Seq(Bytes) /\ p[n + 1] = i + L - 1 /\ p[n + 1] <= Len(s)
      /\ \A k \in 1..L : s[i + k - 1] = x.text[k]
  BY <1>1, AtHand
<1>3. /\ s \in Seq(Bytes) /\ Len(s) \in Nat /\ PlacedIn(s, t, p) /\ Len(t) \in Nat
      /\ i <= j /\ j \in Nat
  BY DEF JsonInv, JsonTypeOK, Scanning
<1>4. x.cls \in WordClasses /\ j <= i + L
  BY <1>1 DEF Within
<1> HIDE DEF n, s, x
<1>5. L \in Nat
  BY <1>2
<1> HIDE DEF L
<1>6. ASSUME j < i + L PROVE j <= Len(s) /\ s[j] \notin Stops
  <2> DEFINE k == j - i + 1
  <2>1. k \in 1..L /\ j = i + k - 1 /\ j <= Len(s)
    BY <1>2, <1>3, <1>5, <1>6
  <2> HIDE DEF k
  <2>2. s[j] = x.text[k]
    BY <1>2, <2>1
  <2>3. x.text[k] \notin Stops
    BY <1>2, <1>4, <2>1, WordsGoOn DEF L
  <2> QED
    BY <2>1, <2>2, <2>3
<1>7. ASSUME j = i + L, j <= Len(s) PROVE s[j] \in Stops
  <2> DEFINE m == n + 1
  <2>1. m \in 0..Len(t) /\ p[m] = j - 1 /\ p[m] < Len(s) /\ m >= 1
    BY <1>2, <1>3, <1>5, <1>7
  <2>2. t[m] = x
    BY DEF x
  <2> HIDE DEF m
  <2>3. m < Len(t)
    BY <1>3, <2>1, MoreTokens
  <2>4. m \in 0..(Len(t) - 1)
    BY <1>3, <2>1, <2>3
  <2>5. t[m + 1] \in TokenSet /\ IsToken(t[m + 1]) /\ s[p[m] + 1] = t[m + 1].text[1]
    BY <1>3, <2>4, TokenAt
  <2>6. m + 1 \in 2..Len(t) /\ (m + 1) - 1 = m
    BY <1>3, <2>1, <2>4
  <2>7. ~(t[(m + 1) - 1].cls \in WordClasses /\ t[m + 1].cls \in WordClasses)
    BY <2>6, Zenon DEF AreTokens
  <2>8. t[m + 1].cls \notin WordClasses
    BY <1>4, <2>2, <2>6, <2>7
  <2>9. t[m + 1].text[1] \in Stops
    BY <2>5, <2>8, TokenBegins
  <2>10. p[m] + 1 = j
    BY <1>3, <2>1
  <2> QED
    BY <2>5, <2>9, <2>10
<1>8. i <= Len(s) /\ x.cls \in WordClasses /\ j <= i + L /\ (j < i + L <=> j <= Len(s) /\ s[j] \notin Stops)
  BY <1>2, <1>3, <1>4, <1>5, <1>6, <1>7
<1> QED
  BY <1>8 DEF n, s, x, L

\* A string has the colour of its class.
LEMMA StringsAreKnown ==
    ASSUME JsonInv, NEW t \in Seq(TokenSet), AreTokens(t),
           NEW p, PlacedIn(src, t, p), NEW n \in 1..Len(t), t[n].cls \in StringClasses
    PROVE  LiteralClass(p[n]) = t[n].cls
<1> DEFINE s == src
<1>1. s \in Seq(Bytes) /\ PlacedIn(s, t, p)
  BY DEF JsonInv, JsonTypeOK
<1> HIDE DEF s
<1>2. ColonAfter(s, p[n]) <=> ColonFrom(t, n + 1)
  BY <1>1, ColonIsSeen, ColonIsThere
<1>3. n \in DOMAIN t
  OBVIOUS
<1>4. t[n].cls = "key" <=> ColonFrom(t, n + 1)
  BY <1>3 DEF AreTokens
<1>5. LiteralClass(p[n]) = IF ColonAfter(s, p[n]) THEN "key" ELSE "str"
  BY Zenon DEF LiteralClass, ColonAfter, s
<1> QED
  BY <1>2, <1>4, <1>5 DEF StringClasses

\* Each step of the scanner writes the next token, or goes on within it.
LEMMA LexingNext ==
    ASSUME JsonInv, NEW t \in Seq(TokenSet), AreTokens(t),
           NEW p, PlacedIn(src, t, p), Lexing(t, p), [JsonNext]_jsonVars
    PROVE  Lexing(t, p)' /\ src' = src
<1>1. src' = src
  BY DEF jsonVars, JsonNext, OpenString, InString, CloseString, Unterminated, Punctuation, Space,
         OpenWord, InWord, CloseWord, Finish, Enter, Write
<1> SUFFICES Lexing(t, p)'
  BY <1>1
<1> DEFINE n == Len(out)
           x == t[n + 1]
<1>2. /\ src \in Seq(Bytes) /\ Len(src) \in Nat /\ n \in Nat /\ Len(t) \in Nat
      /\ i \in 1..(Len(src) + 1) /\ j \in Nat
  BY DEF JsonInv, JsonTypeOK
<1>3. ASSUME i <= Len(src)
      PROVE  /\ n \in 0..(Len(t) - 1) /\ x \in TokenSet /\ IsToken(x) /\ x.text \in Seq(Bytes)
             /\ Len(x.text) >= 1 /\ src[i] = x.text[1] /\ n < Len(t)
             /\ p[n + 1] = i + Len(x.text) - 1 /\ p[n + 1] <= Len(src)
             /\ \A k \in 1..Len(x.text) : src[i + k - 1] = x.text[k]
  <2>1. /\ n \in 0..(Len(t) - 1) /\ x \in TokenSet /\ IsToken(x) /\ x.text \in Seq(Bytes)
        /\ Len(x.text) >= 1 /\ src[i] = x.text[1]
        /\ p[n + 1] = i + Len(x.text) - 1 /\ p[n + 1] <= Len(src)
        /\ \A k \in 1..Len(x.text) : src[i + k - 1] = x.text[k]
    BY <1>3, AtHand
  <2>2. n < Len(t)
    BY <1>2, <2>1
  <2> QED
    BY <2>1, <2>2
<1>4. i <= Len(src) /\ Write(i + Len(x.text) - 1, x.cls) => Lexing(t, p)'
  BY WriteToken
<1>5. ASSUME NEW loop, NEW at, Enter(loop, at),
             loop \in {"string", "word"} => n < Len(t) /\ Within(x, loop, at),
             loop = "done" => n = Len(t)
      PROVE  Lexing(t, p)'
  BY <1>5, EnterToken
<1> HIDE DEF x
<1>6. CASE OpenString
  <2>1. i <= Len(src) /\ src[i] = "quote" /\ Enter("string", i + 1)
    BY <1>6 DEF OpenString, Next1
  <2>2. x.cls \in StringClasses
    BY <1>3, <2>1, TokenBegins
  <2>3. IsString(x.text)
    BY <1>3, <2>1, <2>2 DEF IsToken, StringClasses
  <2>4. PICK S \in SUBSET (2..Len(x.text)) : IsChars(x.text, S)
    BY <2>3 DEF IsString
  <2>5. 2 \in S /\ i + 1 = i + 2 - 1
    BY <1>2, <2>4 DEF IsChars
  <2>6. Within(x, "string", i + 1)
    BY <2>2, <2>4, <2>5 DEF Within
  <2> QED
    BY <1>3, <1>5, <2>1, <2>6
<1>7. CASE InString
  <2> DEFINE at == IF src[j] = "backslash" THEN j + 2 ELSE j + 1
  <2>1. scan = "string" /\ src[j] # "quote" /\ Enter("string", at)
    BY <1>7 DEF InString
  <2>2. i <= Len(src) /\ Within(x, "string", at)
    BY <2>1, StringGoesOn DEF x
  <2> HIDE DEF at
  <2> QED
    BY <1>3, <1>5, <2>1, <2>2
<1>8. CASE CloseString
  <2>1. scan = "string" /\ src[j] = "quote" /\ Write(j, LiteralClass(j))
    BY <1>8 DEF CloseString
  <2>2. i <= Len(src) /\ j = i + Len(x.text) - 1 /\ x.cls \in StringClasses
    BY <2>1, StringGoesOn DEF x
  <2>3. n + 1 \in 1..Len(t) /\ p[n + 1] = j
    BY <1>2, <1>3, <2>2
  <2>4. LiteralClass(p[n + 1]) = t[n + 1].cls
    BY <2>2, <2>3, StringsAreKnown DEF x
  <2>5. LiteralClass(j) = x.cls
    BY <2>3, <2>4 DEF x
  <2> QED
    BY <1>4, <2>1, <2>2, <2>5
<1>9. CASE Unterminated
  <2>1. scan = "string" /\ j > Len(src)
    BY <1>9 DEF Unterminated
  <2>2. j <= Len(src)
    BY <2>1, StringGoesOn
  <2> QED
    BY <1>2, <2>1, <2>2
<1>10. CASE Punctuation \/ Space
  <2>1. PICK cls \in {"plain", "space"} :
           /\ Write(i, cls) /\ i <= Len(src)
           /\ cls = "plain" => src[i] \in {"punct", "colon"}
           /\ cls = "space" => src[i] = "space"
    BY <1>10 DEF Punctuation, Space, Next1
  <2>2. x.cls = cls /\ Len(x.text) = 1
    BY <1>3, <2>1, TokenBegins
  <2>3. i + Len(x.text) - 1 = i
    BY <1>2, <2>2
  <2> QED
    BY <1>4, <2>1, <2>2, <2>3
<1>11. CASE OpenWord
  <2>1. i <= Len(src) /\ src[i] \notin Stops /\ Enter("word", i)
    BY <1>11 DEF OpenWord, Next1, Stops
  <2>2. x.cls \in WordClasses /\ Len(x.text) \in Nat
    BY <1>3, <2>1, TokenBegins
  <2>3. Within(x, "word", i)
    BY <1>2, <2>2 DEF Within
  <2> QED
    BY <1>3, <1>5, <2>1, <2>3
<1>12. CASE InWord
  <2>1. scan = "word" /\ j <= Len(src) /\ src[j] \notin Stops /\ Enter("word", j + 1)
    BY <1>12 DEF InWord
  <2>2. i <= Len(src) /\ x.cls \in WordClasses /\ j < i + Len(x.text)
    BY <2>1, WordGoesOn DEF x
  <2>3. Len(x.text) \in Nat
    BY <1>3, <2>2
  <2>4. Within(x, "word", j + 1)
    BY <1>2, <2>2, <2>3 DEF Within
  <2> QED
    BY <1>3, <1>5, <2>1, <2>2, <2>4
<1>13. CASE CloseWord
  <2>1. scan = "word" /\ Write(j - 1, WordClass(SubSeq(src, i, j - 1))) /\ (j <= Len(src) => src[j] \in Stops)
    BY <1>13 DEF CloseWord
  <2>2. i <= Len(src) /\ x.cls \in WordClasses /\ j <= i + Len(x.text) /\ ~(j < i + Len(x.text))
    BY <2>1, WordGoesOn DEF x
  <2>3. Len(x.text) \in Nat
    BY <1>3, <2>2
  <2>4. j - 1 = i + Len(x.text) - 1
    <3>1. i \in Nat /\ j \in Nat
      BY <1>2
    <3> QED
      BY <2>2, <2>3, <3>1
  <2>5. SubSeq(src, i, i + Len(x.text) - 1) = x.text
    <3> DEFINE s == src
               f == i
               u == x.text
    <3>1. /\ s \in Seq(Bytes) /\ u \in Seq(Bytes) /\ f \in Nat \ {0} /\ u # <<>>
          /\ f + Len(u) - 1 <= Len(s) /\ \A k \in 1..Len(u) : s[f + k - 1] = u[k]
      BY <1>2, <1>3, <2>2
    <3> HIDE DEF s, f, u
    <3>2. SubSeq(s, f, f + Len(u) - 1) = u
      BY <3>1, PartIs
    <3> QED
      BY <3>2 DEF s, f, u
  <2>6. WordClass(x.text) = x.cls
    BY <1>3, <2>2, WordsAreKnown
  <2> QED
    BY <1>4, <2>1, <2>2, <2>4, <2>5, <2>6
<1>14. CASE Finish
  <2>1. i > Len(src) /\ Enter("done", j)
    BY <1>14 DEF Finish
  <2>2. n <= Len(t)
    BY DEF Lexing
  <2>3. n < Len(t) => i <= Len(src)
    BY AtHand
  <2>4. n = Len(t)
    BY <1>2, <2>1, <2>2, <2>3
  <2> QED
    BY <1>5, <2>1, <2>4
<1>15. CASE UNCHANGED jsonVars
  BY <1>15 DEF jsonVars, Lexing, Within
<1> QED
  BY <1>6, <1>7, <1>8, <1>9, <1>10, <1>11, <1>12, <1>13, <1>14, <1>15 DEF JsonNext

\* The scanner is within a document's tokens, wherever its tokens are known.
TokensInv ==
    /\ NumbersInv /\ report \in Reports
    /\ report.tokens # <<>> =>
          \E t, p : t = report.tokens /\ PlacedIn(src, t, p) /\ Lexing(t, p)

\* A report that is a document has its tokens in their places.
LEMMA DocumentsHaveTokens ==
    ASSUME NEW r \in Reports, r.tokens # <<>>
    PROVE  /\ r.tokens \in Seq(TokenSet) /\ AreTokens(r.tokens)
           /\ \E p : PlacedIn(r.raw, r.tokens, p)
<1>1. r.tokens \in Seq(TokenSet)
  BY ReportTextAssumption DEF TokenSet
<1>2. AreTokens(r.tokens) /\ r.raw = FlattenSeq([n \in 1..Len(r.tokens) |-> r.tokens[n].text])
  BY ReportTextAssumption, Zenon
<1>3. r.raw = FlattenSeq(TextsOf(r.tokens))
  BY <1>2, Zenon DEF TextsOf
<1>4. \E p : PlacedIn(FlattenSeq(TextsOf(r.tokens)), r.tokens, p)
  BY <1>1, TokensHavePlaces
<1> QED
  BY <1>1, <1>2, <1>3, <1>4, Zenon

LEMMA TokensInvInit == TextInit => TokensInv
<1> SUFFICES ASSUME TextInit PROVE TokensInv
  OBVIOUS
<1>1. report \in Reports /\ src = report.raw /\ JsonInit
  BY DEF TextInit
<1>2. NumbersInv
  BY <1>1, JsonInvInit DEF JsonInit, NumbersInv, NumbersAreRight
<1>3. ASSUME report.tokens # <<>>
      PROVE  \E t, p : t = report.tokens /\ PlacedIn(src, t, p) /\ Lexing(t, p)
  <2> DEFINE d == report.tokens
  <2>1. PICK t : t = d
    OBVIOUS
  <2>2. t \in Seq(TokenSet) /\ \E p : PlacedIn(src, t, p)
    BY <1>1, <1>3, <2>1, DocumentsHaveTokens, Zenon
  <2>3. PICK p : PlacedIn(src, t, p)
    BY <2>2
  <2>4. p[0] = 0
    BY <2>3 DEF PlacedIn
  <2>5. out = <<>> /\ i = 1 /\ scan = "top"
    BY <1>1 DEF JsonInit
  <2>6. Len(out) = 0 /\ Len(t) \in Nat
    BY <2>2, <2>5
  <2>7. Lexing(t, p)
    BY <2>4, <2>5, <2>6 DEF Lexing
  <2> QED
    BY <2>1, <2>3, <2>7
<1> QED
  BY <1>1, <1>2, <1>3 DEF TokensInv

LEMMA TokensInvNext == TokensInv /\ [TextNext]_textVars => TokensInv'
<1> SUFFICES ASSUME TokensInv, [TextNext]_textVars PROVE TokensInv'
  OBVIOUS
<1>1. [JsonNext]_jsonVars /\ report' = report
  BY DEF TextNext, textVars, jsonVars
<1>2. NumbersInv'
  BY <1>1, NumbersInvNext DEF TokensInv
<1>3. report' \in Reports
  BY <1>1 DEF TokensInv
<1>4. ASSUME (report.tokens # <<>>)'
      PROVE  (\E t, p : t = report.tokens /\ PlacedIn(src, t, p) /\ Lexing(t, p))'
  <2>1. PICK t, p : t = report.tokens /\ PlacedIn(src, t, p) /\ Lexing(t, p)
    BY <1>1, <1>4 DEF TokensInv
  <2>2. t \in Seq(TokenSet) /\ AreTokens(t)
    BY <1>1, <1>4, <2>1, DocumentsHaveTokens DEF TokensInv
  <2>3. JsonInv
    BY DEF TokensInv, NumbersInv
  <2>4. Lexing(t, p)' /\ src' = src
    BY <1>1, <2>1, <2>2, <2>3, LexingNext
  <2> QED
    BY <1>1, <2>1, <2>4
<1> QED
  BY <1>2, <1>3, <1>4 DEF TokensInv

\* For every document, of any length and in any layout, the page's pieces are
\* the document's tokens, each whole and in its colour; and in any text at all
\* what it colours as numbers is just that.
THEOREM TokensOfTheGrammar == TextSpec => []TokensAreRight
<1>1. ASSUME TokensInv PROVE TokensAreRight
  <2>1. ASSUME scan = "done", report.tokens # <<>> PROVE Tokens = report.tokens
    <3>1. PICK t, p : t = report.tokens /\ Lexing(t, p)
      BY <1>1, <2>1 DEF TokensInv
    <3>2. t \in Seq(TokenSet)
      BY <1>1, <2>1, <3>1, DocumentsHaveTokens DEF TokensInv
    <3>3. DOMAIN out = 1..Len(out) /\ Len(out) = Len(t) /\ Len(t) \in Nat
      BY <1>1, <2>1, <3>1, <3>2 DEF TokensInv, NumbersInv, JsonInv, JsonTypeOK, Lexing
    <3>4. ASSUME NEW n \in 1..Len(t) PROVE Span(out[n].cls, TextOf(out[n])) = t[n]
      <4>1. t[n] \in TokenSet
        BY <3>2
      <4>2. t[n] = [cls |-> t[n].cls, text |-> t[n].text]
        BY <4>1 DEF TokenSet
      <4>3. out[n].cls = t[n].cls /\ TextOf(out[n]) = t[n].text
        BY <3>1, <3>3 DEF Lexing, TextOf
      <4> QED
        BY <4>2, <4>3 DEF Span
    <3>5. Tokens = [n \in 1..Len(t) |-> t[n]]
      BY <3>3, <3>4 DEF Tokens
    <3>6. t = [n \in 1..Len(t) |-> t[n]]
      BY <3>2
    <3> QED
      BY <3>1, <3>5, <3>6
  <2> QED
    BY <1>1, <2>1 DEF TokensInv, NumbersInv, TokensAreRight
<1> QED
  BY <1>1, TokensInvInit, TokensInvNext, PTL DEF TextSpec

-----------------------------------------------------------------------------
(* The lines of a trace *)

\* A trimmed line is from its first part that is no white space to its last.
LEMMA TrimIs ==
    ASSUME NEW s \in Seq(Parts)
    PROVE  \/ Trim(s) = <<>> /\ \A n \in 1..Len(s) : s[n] = "space"
           \/ \E a, b \in 1..Len(s) :
                 /\ a <= b /\ Trim(s) = SubSeq(s, a, b)
                 /\ \A n \in 1..Len(s) : s[n] # "space" => a <= n /\ n <= b
<1> DEFINE solid == {n \in DOMAIN s : s[n] # "space"}
           a == CHOOSE n \in solid : \A m \in solid : n <= m
           b == CHOOSE n \in solid : \A m \in solid : m <= n
<1>1. DOMAIN s = 1..Len(s) /\ Len(s) \in Nat /\ solid \subseteq 1..Len(s) /\ solid \subseteq Nat
  OBVIOUS
<1>2. Trim(s) = IF solid = {} THEN <<>> ELSE SubSeq(s, a, b)
  BY DEF Trim
<1>3. CASE solid = {}
  <2>1. Trim(s) = <<>>
    BY <1>2, <1>3, Zenon
  <2>2. \A n \in 1..Len(s) : s[n] = "space"
    BY <1>1, <1>3
  <2> QED
    BY <2>1, <2>2
<1>4. CASE solid # {}
  <2>1. Trim(s) = SubSeq(s, a, b)
    BY <1>2, <1>4, Zenon
  <2>2. \A n \in 1..Len(s) : s[n] # "space" => n \in solid
    BY <1>1
  <2> HIDE DEF solid
  <2>3. a \in solid /\ \A m \in solid : a <= m
    <3>1. \E n \in solid : \A m \in solid : n <= m
      BY <1>1, <1>4, LeastNumber
    <3> QED
      BY <3>1, Zenon
  <2>4. b \in solid /\ \A m \in solid : m <= b
    <3>1. \E n \in solid : \A m \in solid : m <= n
      BY <1>1, <1>4, GreatestNumber
    <3> QED
      BY <3>1, Zenon
  <2> HIDE DEF a, b
  <2>5. a \in 1..Len(s) /\ b \in 1..Len(s) /\ a <= b
    BY <1>1, <2>3, <2>4
  <2> QED
    BY <2>1, <2>2, <2>3, <2>4, <2>5
<1> QED
  BY <1>3, <1>4

\* Trimming a line takes nothing of it but white space.
LEMMA TrimKeeps ==
    ASSUME NEW s \in Seq(Parts), NEW part, part # "space"
    PROVE  Trim(s) \in Seq(Parts) /\ (HasPart(Trim(s), part) <=> HasPart(s, part))
<1>1. DOMAIN s = 1..Len(s) /\ Len(s) \in Nat
  OBVIOUS
<1>2. CASE Trim(s) = <<>> /\ \A n \in 1..Len(s) : s[n] = "space"
  <2>1. ~HasPart(s, part)
    BY <1>1, <1>2 DEF HasPart
  <2>2. ~HasPart(<<>>, part) /\ <<>> \in Seq(Parts)
    BY DEF HasPart
  <2> QED
    BY <1>2, <2>1, <2>2, Zenon
<1>3. ASSUME NEW a \in 1..Len(s), NEW b \in 1..Len(s), a <= b, Trim(s) = SubSeq(s, a, b),
             \A n \in 1..Len(s) : s[n] # "space" => a <= n /\ n <= b
      PROVE  Trim(s) \in Seq(Parts) /\ (HasPart(Trim(s), part) <=> HasPart(s, part))
  <2> DEFINE t == SubSeq(s, a, b)
  <2>1. /\ t \in Seq(Parts) /\ Len(t) = b - a + 1 /\ a \in Nat /\ b \in Nat
        /\ \A k \in 1..(b - a + 1) : t[k] = s[a + k - 1]
    <3>1. a \in Nat /\ b \in Nat
      OBVIOUS
    <3>2. t \in Seq(Parts) /\ Len(t) = b - a + 1
      BY <1>1, <1>3, <3>1
    <3>3. \A k \in 1..(b - a + 1) : t[k] = s[a + k - 1]
      BY <1>1, <1>3, <3>1
    <3> QED
      BY <3>1, <3>2, <3>3
  <2> HIDE DEF t
  <2>2. DOMAIN t = 1..(b - a + 1)
    BY <2>1
  <2>3. ASSUME NEW n \in 1..Len(s), s[n] = part PROVE HasPart(t, part)
    <3>1. a <= n /\ n <= b
      BY <1>3, <2>3
    <3>2. n - a + 1 \in 1..(b - a + 1) /\ a + (n - a + 1) - 1 = n
      BY <1>1, <2>1, <3>1
    <3>3. t[n - a + 1] = s[n]
      BY <2>1, <3>2
    <3> QED
      BY <2>2, <2>3, <3>2, <3>3 DEF HasPart
  <2>4. ASSUME NEW k \in 1..(b - a + 1), t[k] = part PROVE HasPart(s, part)
    <3>1. a + k - 1 \in 1..Len(s) /\ t[k] = s[a + k - 1]
      BY <1>1, <1>3, <2>1
    <3> QED
      BY <1>1, <2>4, <3>1 DEF HasPart
  <2>5. HasPart(t, part) <=> HasPart(s, part)
    BY <1>1, <2>2, <2>3, <2>4 DEF HasPart
  <2> QED
    BY <1>3, <2>1, <2>5 DEF t
<1> QED
  BY <1>2, <1>3, TrimIs

\* What stands in one, two or three spans.
LEMMA FlattenFew ==
    ASSUME NEW S, NEW s, NEW a \in Seq(S), NEW b \in Seq(S), NEW c \in Seq(S)
    PROVE  /\ s = <<a>> => FlattenSeq(s) = a
           /\ s = <<a, b>> => FlattenSeq(s) = a \o b
           /\ s = <<a, b, c>> => FlattenSeq(s) = (a \o b) \o c
<1>1. /\ <<>> \in Seq(Seq(S)) /\ <<a>> \in Seq(Seq(S)) /\ <<a, b>> \in Seq(Seq(S))
      /\ <<a>> = Append(<<>>, a) /\ <<a, b>> = Append(<<a>>, b)
      /\ <<a, b, c>> = Append(<<a, b>>, c)
  OBVIOUS
<1>2. FlattenSeq(<<a>>) = FlattenSeq(<<>>) \o a
  BY <1>1, FlattenAppend
<1>3. FlattenSeq(<<a>>) = a
  BY <1>2, FlattenNothing, ConcatEmptySeq
<1>4. FlattenSeq(<<a, b>>) = FlattenSeq(<<a>>) \o b
  BY <1>1, FlattenAppend
<1>5. FlattenSeq(<<a, b, c>>) = FlattenSeq(<<a, b>>) \o c
  BY <1>1, FlattenAppend
<1> QED
  BY <1>3, <1>4, <1>5

\* What the page shows of one, two or three spans.
LEMMA ShownOne ==
    ASSUME NEW spans, DOMAIN spans = 1..1,
           spans[1].text \in Seq(Parts)
    PROVE  Shown(spans) = spans[1].text
<1> DEFINE texts == [n \in DOMAIN spans |-> spans[n].text]
<1>1. Shown(spans) = FlattenSeq(texts)
  BY DEF Shown
<1>2. texts = <<spans[1].text>>
  OBVIOUS
<1> HIDE DEF texts
<1>3. FlattenSeq(texts) = spans[1].text
  BY <1>2, FlattenFew
<1> QED
  BY <1>1, <1>3, Zenon

LEMMA ShownTwo ==
    ASSUME NEW spans, DOMAIN spans = 1..2,
           spans[1].text \in Seq(Parts), spans[2].text \in Seq(Parts)
    PROVE  Shown(spans) = spans[1].text \o spans[2].text
<1> DEFINE texts == [n \in DOMAIN spans |-> spans[n].text]
           a == spans[1].text
           b == spans[2].text
<1>1. Shown(spans) = FlattenSeq(texts)
  BY DEF Shown
<1>2. texts = <<a, b>>
  OBVIOUS
<1> HIDE DEF texts, a, b
<1>3. FlattenSeq(texts) = a \o b
  <2>1. a \in Seq(Parts) /\ b \in Seq(Parts)
    BY DEF a, b
  <2> QED
    BY <1>2, <2>1, FlattenFew
<1> QED
  BY <1>1, <1>3, Zenon DEF a, b

LEMMA ShownThree ==
    ASSUME NEW spans, DOMAIN spans = 1..3,
           spans[1].text \in Seq(Parts), spans[2].text \in Seq(Parts), spans[3].text \in Seq(Parts)
    PROVE  Shown(spans) = (spans[1].text \o spans[2].text) \o spans[3].text
<1> DEFINE texts == [n \in DOMAIN spans |-> spans[n].text]
           a == spans[1].text
           b == spans[2].text
           c == spans[3].text
<1>1. Shown(spans) = FlattenSeq(texts)
  BY DEF Shown
<1>2. texts = <<a, b, c>>
  OBVIOUS
<1> HIDE DEF texts, a, b, c
<1>3. FlattenSeq(texts) = (a \o b) \o c
  <2>1. a \in Seq(Parts) /\ b \in Seq(Parts) /\ c \in Seq(Parts)
    BY DEF a, b, c
  <2> QED
    BY <1>2, <2>1, FlattenFew
<1> QED
  BY <1>1, <1>3, Zenon DEF a, b, c

\* Lines that are put together, two or three.
LEMMA PartsAssociate ==
    ASSUME NEW a \in Seq(Parts), NEW b \in Seq(Parts), NEW c \in Seq(Parts)
    PROVE  (a \o b) \o c = a \o (b \o c)
BY ConcatAssociative

\* The page shows a frame without its indentation and nothing else.
LEMMA FramesAreShown ==
    ASSUME NEW line \in Seq(Parts), IsFrame(line)
    PROVE  /\ FrameText(line) \in Seq(Parts)
           /\ Trim(line) = <<"at">> \o FrameText(line)
           /\ Shown(hlFrame(line)) = Trim(line)
           /\ hlFrame(line)[1].cls = "frame"
<1> DEFINE t == Trim(line)
           rest == Tail(t)
           at == <<"at">>
<1>1. t \in Seq(Parts) /\ t # <<>> /\ t[1] = "at"
  <2>1. t \in Seq(Parts)
    <3>1. "x" # "space"
      OBVIOUS
    <3> QED
      BY <3>1, TrimKeeps
  <2>2. t # <<>> /\ t[1] = "at"
    BY Zenon DEF IsFrame, StartsWith
  <2> QED
    BY <2>1, <2>2
<1>2. at \in Seq(Parts)
  <2>1. "at" \in Parts
    BY DEF Parts
  <2> QED
    BY <2>1
<1>3. t = Trim(line) /\ FrameText(line) = rest
  BY DEF FrameText
<1> HIDE DEF t
<1>4. rest \in Seq(Parts) /\ at \o rest = t
  <2>1. 1 \in 1..Len(t) /\ 1 + 1 = 2
    <3>1. Len(t) \in Nat /\ Len(t) # 0
      BY <1>1, EmptySeq
    <3> QED
      BY <3>1
  <2>2. <<t[1]>> \o SubSeq(t, 1 + 1, Len(t)) = SubSeq(t, 1, Len(t))
    BY <1>1, <2>1, FirstAndRest, Zenon
  <2>3. SubSeq(t, 1, Len(t)) = t
    BY <1>1, SubSeqFull
  <2>4. Tail(t) = SubSeq(t, 1 + 1, Len(t))
    <3>1. Tail(SubSeq(t, 1, Len(t))) = SubSeq(t, 1 + 1, Len(t))
      <4>1. Len(t) \in 1..Len(t)
        BY <1>1, <2>1
      <4> QED
        BY <1>1, <2>1, <4>1, HeadTailOfSubSeq, Zenon
    <3> QED
      BY <2>3, <3>1, Zenon
  <2>5. Tail(t) \in Seq(Parts)
    BY <1>1, HeadTailProperties
  <2>6. at = <<t[1]>>
    BY <1>1
  <2> HIDE DEF at
  <2>7. at \o rest = t
    BY <2>2, <2>3, <2>4, <2>6, Zenon
  <2> QED
    BY <2>5, <2>7
<1> HIDE DEF rest
<1> DEFINE opens == {n \in DOMAIN rest : rest[n] = "("}
           open == CHOOSE n \in opens : \A m \in opens : m <= n
           place == SubSeq(rest, open, Len(rest))
           fn == SubSeq(rest, 1, open - 1)
<1>5. hlFrame(line) = IF opens = {} THEN <<Span("frame", at), Span("fn", rest)>>
                      ELSE <<Span("frame", at), Span("fn", fn), Span("loc", place)>>
  BY <1>3 DEF hlFrame
<1>6. opens # {} => /\ fn \in Seq(Parts) /\ place \in Seq(Parts)
                    /\ fn \o place = rest
  <2> SUFFICES ASSUME opens # {} PROVE fn \in Seq(Parts) /\ place \in Seq(Parts)
                                       /\ fn \o place = rest
    OBVIOUS
  <2>1. open \in 1..Len(rest) /\ Len(rest) \in Nat
    <3>1. opens \subseteq 1..Len(rest) /\ Len(rest) \in Nat
      <4>1. DOMAIN rest = 1..Len(rest) /\ Len(rest) \in Nat
        BY <1>4
      <4> QED
        BY <4>1
    <3> HIDE DEF opens
    <3>2. \E n \in opens : \A m \in opens : m <= n
      BY <3>1, GreatestNumber, Zenon
    <3>3. open \in opens
      BY <3>2, Zenon
    <3> HIDE DEF open
    <3> QED
      BY <3>1, <3>3
  <2> HIDE DEF open
  <2>2. fn \o place = rest
    BY <1>4, <2>1, CutInTwo, Zenon
  <2>3. fn \in Seq(Parts) /\ place \in Seq(Parts)
    <3>1. open - 1 <= Len(rest) /\ open - 1 \in Nat /\ open \in Nat /\ Len(rest) \in Nat
      BY <2>1
    <3> QED
      BY <1>4, <3>1
  <2> QED
    BY <2>2, <2>3
<1> HIDE DEF at, opens, fn, place
<1>7. CASE opens = {}
  <2>1. hlFrame(line) = <<Span("frame", at), Span("fn", rest)>>
    BY <1>5, <1>7, Zenon
  <2>2. Shown(hlFrame(line)) = at \o rest
    <3> DEFINE h == hlFrame(line)
    <3>1. DOMAIN h = 1..2 /\ h[1].text = at /\ h[2].text = rest
      BY <2>1 DEF Span
    <3> HIDE DEF h
    <3>2. Shown(h) = h[1].text \o h[2].text
      BY <1>2, <1>4, <3>1, ShownTwo
    <3> QED
      BY <3>1, <3>2 DEF h
  <2>3. hlFrame(line)[1].cls = "frame"
    BY <2>1 DEF Span
  <2>4. Shown(hlFrame(line)) = Trim(line)
    BY <1>3, <1>4, <2>1, <2>2, Zenon
  <2>5. Trim(line) = <<"at">> \o FrameText(line) /\ FrameText(line) \in Seq(Parts)
    BY <1>3, <1>4, Zenon DEF at
  <2> QED
    BY <2>3, <2>4, <2>5, Zenon
<1>8. CASE opens # {}
  <2>1. hlFrame(line) = <<Span("frame", at), Span("fn", fn), Span("loc", place)>>
    BY <1>5, <1>8, Zenon
  <2>2. (at \o fn) \o place = at \o (fn \o place)
    <3>1. at \in Seq(Parts) /\ fn \in Seq(Parts) /\ place \in Seq(Parts)
      BY <1>2, <1>6, <1>8
    <3> QED
      BY <3>1, PartsAssociate
  <2>3. Shown(hlFrame(line)) = (at \o fn) \o place
    <3>1. at \in Seq(Parts) /\ fn \in Seq(Parts) /\ place \in Seq(Parts)
      BY <1>2, <1>6, <1>8
    <3> DEFINE h == hlFrame(line)
    <3>2. DOMAIN h = 1..3 /\ h[1].text = at /\ h[2].text = fn /\ h[3].text = place
      BY <2>1 DEF Span
    <3> HIDE DEF h
    <3>3. Shown(h) = (h[1].text \o h[2].text) \o h[3].text
      BY <3>1, <3>2, ShownThree
    <3> QED
      BY <3>2, <3>3 DEF h
  <2>4. hlFrame(line)[1].cls = "frame"
    BY <2>1 DEF Span
  <2>5. Shown(hlFrame(line)) = Trim(line)
    BY <1>3, <1>4, <1>6, <1>8, <2>1, <2>2, <2>3, Zenon
  <2>6. Trim(line) = <<"at">> \o FrameText(line) /\ FrameText(line) \in Seq(Parts)
    BY <1>3, <1>4, Zenon DEF at
  <2> QED
    BY <2>4, <2>5, <2>6, Zenon
<1> QED
  BY <1>7, <1>8

\* What the page makes of a line of a trace.
LEMMA LineOnPage ==
    ASSUME NEW trace \in Seq(Seq(Parts)), NEW n \in 1..Len(trace)
    PROVE  /\ IsFrame(trace[n]) => hlLine(trace, n) = hlFrame(trace[n])
           /\ ~IsFrame(trace[n]) =>
                 \E cls \in {"ex", "muted", "plain"} :
                    /\ hlLine(trace, n) = <<Span(cls, trace[n])>>
                    /\ cls = "ex" /\ ~StartsWith(trace[n], "caused") =>
                          IsText(trace[n]) /\ \A m \in 1..(n - 1) : ~IsText(trace[m])
<1> DEFINE line == trace[n]
           head == \A m \in 1..(n - 1) : ~IsText(trace[m])
<1>1. hlLine(trace, n) =
         CASE StartsWith(line, "caused") -> <<Span("ex", line)>>
           [] IsFrame(line)              -> hlFrame(line)
           [] StartsWith(line, "dots")   -> <<Span("muted", line)>>
           [] IsText(line) /\ head       -> <<Span("ex", line)>>
           [] OTHER                      -> <<Span("plain", line)>>
  BY DEF hlLine
<1>2. /\ IsFrame(line) => ~StartsWith(line, "caused") /\ ~StartsWith(line, "dots")
      /\ StartsWith(line, "caused") => ~StartsWith(line, "dots")
  BY DEF IsFrame, StartsWith
<1>3. IsText(line) => /\ ~StartsWith(line, "caused") /\ ~StartsWith(line, "dots")
                      /\ ~IsFrame(line)
  BY DEF IsText
<1> HIDE DEF line, head
<1>4. IsFrame(line) => hlLine(trace, n) = hlFrame(line)
  BY <1>1, <1>2, <1>3
<1>5. ASSUME ~IsFrame(line)
      PROVE  \E cls \in {"ex", "muted", "plain"} :
                /\ hlLine(trace, n) = <<Span(cls, line)>>
                /\ cls = "ex" /\ ~StartsWith(line, "caused") => IsText(line) /\ head
  <2>1. CASE StartsWith(line, "caused")
    <3>1. hlLine(trace, n) = <<Span("ex", line)>>
      BY <1>1, <1>2, <1>3, <1>5, <2>1
    <3> QED
      BY <2>1, <3>1
  <2>2. CASE StartsWith(line, "dots")
    <3>1. hlLine(trace, n) = <<Span("muted", line)>>
      BY <1>1, <1>2, <1>3, <1>5, <2>2
    <3> QED
      BY <3>1
  <2>3. CASE ~StartsWith(line, "caused") /\ IsText(line) /\ head
    <3>1. hlLine(trace, n) = <<Span("ex", line)>>
      BY <1>1, <1>2, <1>3, <1>5, <2>3
    <3> QED
      BY <2>3, <3>1
  <2>4. CASE ~StartsWith(line, "caused") /\ ~StartsWith(line, "dots") /\ ~(IsText(line) /\ head)
    <3>1. hlLine(trace, n) = <<Span("plain", line)>>
      BY <1>1, <1>5, <2>4
    <3> QED
      BY <3>1
  <2> QED
    BY <2>1, <2>2, <2>3, <2>4
<1> QED
  BY <1>4, <1>5 DEF line, head

\* What stands on the page for a line, and the colour in which it begins.
LEMMA LineIsShown ==
    ASSUME NEW trace \in Seq(Seq(Parts)), NEW n \in 1..Len(trace)
    PROVE  /\ hlLine(trace, n)[1].cls = "frame" <=> IsFrame(trace[n])
           /\ Shown(hlLine(trace, n)) = IF IsFrame(trace[n]) THEN Trim(trace[n]) ELSE trace[n]
           /\ hlLine(trace, n)[1].cls = "ex" /\ ~StartsWith(trace[n], "caused") =>
                 IsText(trace[n]) /\ \A m \in 1..(n - 1) : ~IsText(trace[m])
           /\ hlLine(trace, n) # <<Span("muted", NoTrace)>>
<1> DEFINE line == trace[n]
           shown == hlLine(trace, n)
<1>1. line \in Seq(Parts)
  OBVIOUS
<1>2. CASE IsFrame(line)
  <2>1. shown = hlFrame(line)
    BY <1>2, LineOnPage
  <2>2. Shown(hlFrame(line)) = Trim(line) /\ hlFrame(line)[1].cls = "frame"
    <3> HIDE DEF line
    <3> QED
      BY <1>1, <1>2, FramesAreShown
  <2> HIDE DEF line, shown
  <2>3. shown[1].cls = "frame" /\ Shown(shown) = Trim(line)
    BY <2>1, <2>2, Zenon
  <2>4. shown # <<Span("muted", NoTrace)>>
    <3>1. <<Span("muted", NoTrace)>>[1].cls = "muted"
      BY DEF Span
    <3>2. "frame" # "muted"
      OBVIOUS
    <3> QED
      BY <2>3, <3>1, <3>2, Zenon
  <2>5. "frame" # "ex"
    OBVIOUS
  <2> QED
    BY <1>2, <2>3, <2>4, <2>5 DEF line, shown
<1>3. CASE ~IsFrame(line)
  <2>1. PICK cls \in {"ex", "muted", "plain"} :
           /\ shown = <<Span(cls, line)>>
           /\ cls = "ex" /\ ~StartsWith(line, "caused") =>
                 IsText(line) /\ \A m \in 1..(n - 1) : ~IsText(trace[m])
    BY <1>3, LineOnPage
  <2> HIDE DEF line, shown
  <2>2. DOMAIN shown = 1..1 /\ shown[1].cls = cls /\ shown[1].text = line
    BY <2>1 DEF Span
  <2>3. Shown(shown) = line
    BY <1>1, <2>2, ShownOne
  <2>4. shown # <<Span("muted", NoTrace)>>
    <3>1. <<Span("muted", NoTrace)>>[1].text = NoTrace
      BY DEF Span
    <3>2. SUFFICES ASSUME line = NoTrace PROVE FALSE
      BY <2>2, <3>1, Zenon
    <3>3. \A x : 1 \in 1..Len(<<x>>) /\ <<x>>[1] = x
      OBVIOUS
    <3>4. 1 \in 1..Len(line) /\ line[1] = "(no stack trace)"
      BY <3>2, <3>3, Zenon DEF NoTrace
    <3>5. line[1] \in Parts
      BY <1>1, <3>4, ElementOfSeq, Zenon
    <3>6. "(no stack trace)" \in Parts
      BY <3>4, <3>5, Zenon
    <3> QED
      BY <3>6, Zenon DEF Parts
  <2>5. shown[1].cls # "frame"
    BY <2>2
  <2> QED
    BY <1>3, <2>1, <2>2, <2>3, <2>4, <2>5 DEF line, shown
<1> QED
  BY <1>2, <1>3

\* The page of a trace that is not blank.
LEMMA PageIs ==
    ASSUME NEW trace \in Seq(Seq(Parts)), ~IsBlank(trace)
    PROVE  LET page == hlStack(trace)
           IN  /\ trace # <<>> /\ Len(page) = Len(trace) /\ DOMAIN page = 1..Len(trace)
               /\ DOMAIN trace = 1..Len(trace)
               /\ page # <<<<Span("muted", NoTrace)>>>>
               /\ \A n \in 1..Len(trace) :
                     /\ page[n][1].cls = "frame" <=> IsFrame(trace[n])
                     /\ Shown(page[n]) = IF IsFrame(trace[n]) THEN Trim(trace[n]) ELSE trace[n]
                     /\ page[n][1].cls = "ex" /\ ~StartsWith(trace[n], "caused") =>
                           IsText(trace[n]) /\ \A m \in 1..(n - 1) : ~IsText(trace[m])
<1> DEFINE page == hlStack(trace)
<1>1. page = [n \in DOMAIN trace |-> hlLine(trace, n)]
  BY DEF hlStack
<1> HIDE DEF page
<1>2. DOMAIN trace = 1..Len(trace) /\ Len(trace) \in Nat
  OBVIOUS
<1>3. DOMAIN page = 1..Len(trace) /\ Len(page) = Len(trace)
  BY <1>1, <1>2
<1>4. \A n \in 1..Len(trace) : page[n] = hlLine(trace, n)
  BY <1>1, <1>2
<1>5. trace # <<>>
  <2>1. DOMAIN trace # {}
    BY Zenon DEF IsBlank
  <2> QED
    BY <2>1
<1>6. page # <<<<Span("muted", NoTrace)>>>>
  <2>1. SUFFICES ASSUME page = <<<<Span("muted", NoTrace)>>>> PROVE FALSE
    OBVIOUS
  <2> DEFINE one == <<Span("muted", NoTrace)>>
  <2>2. 1 \in DOMAIN page /\ page[1] = one
    BY <2>1
  <2> HIDE DEF one
  <2>3. hlLine(trace, 1) = one
    BY <1>3, <1>4, <2>2
  <2>4. hlLine(trace, 1) # one
    BY <1>3, <2>2, LineIsShown, Zenon DEF one
  <2> QED
    BY <2>3, <2>4
<1>7. ASSUME NEW n \in 1..Len(trace)
      PROVE  /\ page[n][1].cls = "frame" <=> IsFrame(trace[n])
             /\ Shown(page[n]) = IF IsFrame(trace[n]) THEN Trim(trace[n]) ELSE trace[n]
             /\ page[n][1].cls = "ex" /\ ~StartsWith(trace[n], "caused") =>
                   IsText(trace[n]) /\ \A m \in 1..(n - 1) : ~IsText(trace[m])
  <2>1. page[n] = hlLine(trace, n)
    BY <1>4
  <2> QED
    BY <2>1, LineIsShown, Zenon
<1> QED
  BY <1>2, <1>3, <1>5, <1>6, <1>7, Zenon DEF page

\* Colouring: one header at most.
LEMMA OneHeader ==
    ASSUME NEW trace \in Seq(Seq(Parts)), ~IsBlank(trace)
    PROVE  Cardinality({n \in DOMAIN hlStack(trace) :
                           hlStack(trace)[n][1].cls = "ex" /\ ~StartsWith(trace[n], "caused")}) <= 1
<1> DEFINE page == hlStack(trace)
           heads == {n \in DOMAIN page : page[n][1].cls = "ex" /\ ~StartsWith(trace[n], "caused")}
<1>1. /\ DOMAIN page = 1..Len(trace) /\ Len(trace) \in Nat
      /\ \A n \in 1..Len(trace) :
            page[n][1].cls = "ex" /\ ~StartsWith(trace[n], "caused") =>
               IsText(trace[n]) /\ \A m \in 1..(n - 1) : ~IsText(trace[m])
  <2>1. Len(trace) \in Nat
    OBVIOUS
  <2> QED
    BY <2>1, PageIs, Zenon
<1> HIDE DEF page
<1>2. heads \subseteq {n \in Nat : 1 <= n}
  BY <1>1
<1>3. \A n \in heads : IsText(trace[n]) /\ \A m \in 1..(n - 1) : ~IsText(trace[m])
  BY <1>1
<1> HIDE DEF heads
<1>4. ASSUME NEW n \in heads, NEW m \in heads PROVE n = m
  <2>1. n \in Nat /\ 1 <= n /\ m \in Nat /\ 1 <= m
    BY <1>2
  <2>2. n < m => n \in 1..(m - 1)
    BY <2>1
  <2>3. m < n => m \in 1..(n - 1)
    BY <2>1
  <2>4. ~(n < m) /\ ~(m < n)
    BY <1>3, <2>2, <2>3, Zenon
  <2> QED
    BY <2>1, <2>4
<1>5. heads = {} \/ \E n : heads = {n}
  <2>1. CASE heads # {}
    <3>1. PICK n : n \in heads
      BY <2>1
    <3>2. \A m \in heads : m = n
      BY <1>4, <3>1, Zenon
    <3>3. heads = {n}
      BY <3>1, <3>2
    <3> QED
      BY <3>3, Zenon
  <2> QED
    BY <2>1
<1>6. Cardinality(heads) <= 1
  <2>1. Cardinality(heads) = 0 \/ Cardinality(heads) = 1
    BY <1>5, FS_EmptySet, FS_Singleton, Zenon
  <2> QED
    BY <2>1
<1> QED
  BY <1>6 DEF heads, page

\* What a frame adds to the title is what the page shows of it.
LEMMA FrameInTitle ==
    ASSUME NEW first \in Seq(Parts), NEW line \in Seq(Parts), IsFrame(line)
    PROVE  first \o <<"space", "at">> \o FrameText(line) = first \o <<"space">> \o Trim(line)
<1> DEFINE space == <<"space">>
           at == <<"at">>
           both == <<"space", "at">>
           rest == FrameText(line)
<1>1. both = space \o at /\ space \in Seq(Parts) /\ at \in Seq(Parts)
  BY DEF Parts
<1>2. rest \in Seq(Parts) /\ Trim(line) = at \o rest
  BY FramesAreShown
<1> HIDE DEF space, at, both, rest
<1>3. first \o (space \o at) = (first \o space) \o at
  BY <1>1, PartsAssociate
<1>4. first \o space \in Seq(Parts)
  BY <1>1, ConcatProperties, Zenon
<1> DEFINE begin == first \o space
<1>5. begin \in Seq(Parts)
  BY <1>4
<1> HIDE DEF begin
<1>6. (begin \o at) \o rest = begin \o (at \o rest)
  <2>1. begin \in Seq(Parts) /\ at \in Seq(Parts) /\ rest \in Seq(Parts)
    BY <1>1, <1>2, <1>5
  <2> QED
    BY <2>1, PartsAssociate, SMTT(30)
<1>7. (first \o both) \o rest = begin \o Trim(line)
  BY <1>1, <1>2, <1>3, <1>6, Zenon DEF begin
<1> QED
  BY <1>7, Zenon DEF begin, both, rest, space

\* The title of every trace is on its page.
LEMMA TitlesAreShown ==
    ASSUME NEW trace \in Seq(Seq(Parts)) \ {<<>>}, NEW named \in BOOLEAN
    PROVE  TitleIsShown(trace, named)
<1> DEFINE page == hlStack(trace)
           first == Trim(trace[1])
           title == TitleFromTrace(trace, named)
           frames == {n \in 2..Len(page) : page[n][1].cls = "frame"}
           own == {n \in frames : named /\ HasPart(Shown(page[n]), "package")}
           none == <<<<Span("muted", NoTrace)>>>>
           wanted == {n \in FrameLines(trace) : named /\ HasPart(trace[n], "package")}
<1>1. CASE IsBlank(trace)
  <2>1. page = none /\ title = NoTrace
    BY <1>1, Zenon DEF hlStack, TitleFromTrace
  <2> QED
    BY <2>1, Zenon DEF TitleIsShown
<1>2. CASE ~IsBlank(trace)
  <2>1. /\ trace # <<>> /\ Len(page) = Len(trace) /\ DOMAIN page = 1..Len(trace)
        /\ DOMAIN trace = 1..Len(trace) /\ page # none
        /\ \A n \in 1..Len(trace) :
              /\ page[n][1].cls = "frame" <=> IsFrame(trace[n])
              /\ Shown(page[n]) = IF IsFrame(trace[n]) THEN Trim(trace[n]) ELSE trace[n]
    BY <1>2, PageIs, Zenon
  <2>2. Cardinality({n \in DOMAIN page : page[n][1].cls = "ex"
                                         /\ ~StartsWith(trace[n], "caused")}) <= 1
    BY <1>2, OneHeader
  <2>3. title = Cut(IF FrameLines(trace) = {} THEN first
                    ELSE first \o <<"space", "at">>
                               \o FrameText(trace[First(IF wanted = {} THEN FrameLines(trace) ELSE wanted)]))
    BY <1>2, Zenon DEF TitleFromTrace, TitleFrame
  <2> HIDE DEF page, title, first, none
  <2>4. Len(trace) \in Nat
    OBVIOUS
  <2>5. frames = FrameLines(trace) /\ frames \subseteq 1..Len(trace) /\ frames \subseteq Nat
        /\ \A n \in frames : IsFrame(trace[n])
    BY <2>1, <2>4 DEF FrameLines
  <2>6. \A n \in DOMAIN trace :
           Shown(page[n]) = IF page[n][1].cls = "frame" THEN Trim(trace[n]) ELSE trace[n]
    BY <2>1
  <2> HIDE DEF frames
  <2>7. own = wanted
    <3>1. ASSUME NEW n \in frames
          PROVE  HasPart(Shown(page[n]), "package") <=> HasPart(trace[n], "package")
      <4>1. trace[n] \in Seq(Parts) /\ Shown(page[n]) = Trim(trace[n])
        BY <2>1, <2>5
      <4>2. "package" # "space"
        OBVIOUS
      <4> QED
        BY <4>1, <4>2, TrimKeeps
    <3> QED
      BY <2>5, <3>1, Zenon
  <2> DEFINE from == IF own = {} THEN frames ELSE own
             line == First(from)
  <2>8. own \subseteq frames
    OBVIOUS
  <2> HIDE DEF own, wanted
  <2>9. ASSUME frames # {}
        PROVE  \E n \in from : title = Cut(first \o <<"space">> \o Shown(page[n]))
    <3>1. from \subseteq frames /\ from # {} /\ from \subseteq Nat
      BY <2>5, <2>8, <2>9
    <3>2. line \in from
      <4> HIDE DEF from
      <4>1. \E n \in from : \A m \in from : n <= m
        BY <3>1, LeastNumber
      <4> QED
        BY <4>1, Zenon DEF First
    <3> HIDE DEF from, line
    <3>3. line \in frames
      BY <3>1, <3>2
    <3>4. IsFrame(trace[line]) /\ trace[line] \in Seq(Parts) /\ Shown(page[line]) = Trim(trace[line])
      BY <2>1, <2>5, <3>3
    <3>5. title = Cut(first \o <<"space", "at">> \o FrameText(trace[line]))
      BY <2>3, <2>5, <2>7, <2>9, Zenon DEF from, line
    <3>6. first \in Seq(Parts)
      <4>1. trace[1] \in Seq(Parts)
        BY <2>1, <2>4, EmptySeq
      <4>2. "x" # "space"
        OBVIOUS
      <4> QED
        BY <4>1, <4>2, TrimKeeps DEF first
    <3>7. first \o <<"space", "at">> \o FrameText(trace[line])
             = first \o <<"space">> \o Trim(trace[line])
      BY <3>4, <3>6, FrameInTitle, Zenon
    <3>8. title = Cut(first \o <<"space">> \o Shown(page[line]))
      BY <3>4, <3>5, <3>7, Zenon
    <3> QED
      BY <3>2, <3>8, Zenon
  <2>10. frames = {} => title = Cut(first)
    BY <2>3, <2>5, Zenon
  <2> QED
    BY <2>1, <2>2, <2>6, <2>9, <2>10, Zenon
       DEF TitleIsShown, from, own, frames, page, title, first, none
<1> QED
  BY <1>1, <1>2

\* What the title of an issue says is what its page shows.
THEOREM TitlesMatchPages == TextSpec => []TitleMatchesPage
<1>1. TextInit => report \in Reports
  BY DEF TextInit
<1>2. report \in Reports /\ [TextNext]_textVars => (report \in Reports)'
  BY DEF TextNext, textVars
<1>3. report \in Reports => TitleMatchesPage
  <2>1. SUFFICES ASSUME report \in Reports PROVE TitleIsShown(report.trace, report.named)
    BY DEF TitleMatchesPage
  <2>2. report.trace \in Seq(Seq(Parts)) \ {<<>>} /\ report.named \in BOOLEAN
    BY <2>1, ReportTextAssumption
  <2> QED
    BY <2>2, TitlesAreShown
<1> QED
  BY <1>1, <1>2, <1>3, PTL DEF TextSpec

=============================================================================
