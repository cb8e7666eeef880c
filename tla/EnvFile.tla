------------------------------ MODULE EnvFile ------------------------------
(***************************************************************************)
(* "faulthub set-password [env-file]" (cmd/faulthub/setpassword.go) and    *)
(* what the server makes of the file afterwards: Compose interpolates it   *)
(* (external) and config.Load takes the admin's password from it.          *)
(*                                                                         *)
(* The file is the sequence of lines that strings.Split(content, "\n")     *)
(* gives: a newline at the end is an empty last line.  A line is known by  *)
(* its key, as envKey finds it, and its value.  A hash is a sequence of    *)
(* the characters that matter: "$" and the others.                         *)
(*                                                                         *)
(* os.WriteFile empties the file before it writes it, and the operator may *)
(* edit the file, or the process die, at any time.                         *)
(***************************************************************************)
EXTENDS Naturals, Sequences, SequencesExt

CONSTANTS
    Files,      \* files there may be at first
    Edits,      \* lines the operator may add
    Hashes,     \* argon2id hashes: HashPassword draws a new salt each time
    NoFile,
    MaxRuns,    \* bound: runs of the command
    MaxEdits    \* bound: edits of the operator

VARIABLES
    file,       \* the lines, or NoFile
    run,        \* the command
    before,     \* the file when the command read it (history)
    edited,     \* whether it has been edited since (history)
    runs,       \* bounded by MaxRuns
    edits       \* bounded by MaxEdits

vars == <<file, run, before, edited, runs, edits>>

Chars == {"$", "a"}

Line(key, value) == [key |-> key, value |-> value]

Lines == [key : {"none", "pw", "hash"}, value : Seq(Chars)]

\* A hash is never empty: it begins with "$argon2id$".
ASSUME EnvFileAssumption ==
    /\ Files \subseteq Seq(Lines) /\ NoFile \notin Seq(Lines)
    /\ Edits \subseteq Lines
    /\ Hashes \subseteq Seq(Chars) \ {<<>>}
    /\ MaxRuns \in Nat /\ MaxEdits \in Nat

\* envKey gives "" for an empty line, a comment, and any line with another key.
Blank == Line("none", <<>>)
Other == Line("none", <<"a">>)

-----------------------------------------------------------------------------
(* rewriteEnv *)

\* Mutant of composeEscape: nothing is escaped.
Unescaped(v) == v

composeEscape(v) == FlattenSeq([i \in DOMAIN v |-> IF v[i] = "$" THEN <<"$", "$">> ELSE <<v[i]>>])

HashLine(hash) == Line("hash", composeEscape(hash))

\* Without the empty lines at the end.
Trimmed(lines) ==
    SubSeq(lines, 1, CHOOSE n \in 0..Len(lines) :
        /\ n = 0 \/ lines[n] # Blank
        /\ \A i \in (n + 1)..Len(lines) : lines[i] = Blank)

\* strings.HasSuffix(content, "\n").
EndsInNewline(lines) == Len(lines) > 1 /\ Last(lines) = Blank

\* The lines with this key, in their order.
Having(lines, key) ==
    FlattenSeq([i \in DOMAIN lines |-> IF lines[i].key = key THEN <<lines[i]>> ELSE <<>>])

HasHash(lines) == \E i \in DOMAIN lines : lines[i].key = "hash"

\* Mutant of Rewritten: only the hash is kept.
RewrittenKeysOnly(lines, i, hash) ==
    IF lines[i].key # "hash" THEN <<>> ELSE <<HashLine(hash)>>

\* Line i in the new file: a plaintext password and a second hash are dropped.
Rewritten(lines, i, hash) ==
    CASE lines[i].key = "pw"   -> <<>>
      [] lines[i].key = "hash" -> IF \E j \in 1..(i - 1) : lines[j].key = "hash"
                                  THEN <<>> ELSE <<HashLine(hash)>>
      [] lines[i].key = "none" -> <<lines[i]>>

\* Mutant of rewriteEnv: what is replaced is not trimmed.
rewriteEnvUntrimmed(lines, hash) ==
    LET out == FlattenSeq([i \in DOMAIN lines |-> Rewritten(lines, i, hash)])
        new == IF HasHash(lines) THEN out ELSE Append(out, HashLine(hash))
    IN  IF EndsInNewline(lines) THEN Append(new, Blank) ELSE new

rewriteEnv(lines, hash) ==
    LET out == FlattenSeq([i \in DOMAIN lines |-> Rewritten(lines, i, hash)])
        new == IF HasHash(lines) THEN Trimmed(out) ELSE Append(Trimmed(out), HashLine(hash))
    IN  IF EndsInNewline(lines) THEN Append(new, Blank) ELSE new

\* writeEnvHash: what is written over these lines, or to a new file.
writeEnvHash(lines, hash) ==
    IF lines = NoFile THEN <<HashLine(hash), Blank>> ELSE rewriteEnv(lines, hash)

-----------------------------------------------------------------------------
(* The command *)

Idle == [pc |-> "idle"]

Init ==
    /\ file \in Files \cup {NoFile}
    /\ run = Idle
    /\ before = NoFile
    /\ edited = FALSE
    /\ runs = 0
    /\ edits = 0

InProgress == run.pc \in {"write", "fill"}

\* runSetPassword: the password has been typed twice and hashed; writeEnvHash
\* reads the file and works out the new one.
ReadFile ==
    /\ ~InProgress
    /\ runs < MaxRuns
    /\ runs' = runs + 1
    /\ \E hash \in Hashes :
          run' = [pc |-> "write", hash |-> hash, text |-> writeEnvHash(file, hash)]
    /\ before' = file
    /\ edited' = FALSE
    /\ UNCHANGED <<file, edits>>

\* os.WriteFile opens the file with O_CREATE and O_TRUNC ...
Truncate ==
    /\ run.pc = "write"
    /\ file' = <<Blank>>
    /\ run' = [run EXCEPT !.pc = "fill"]
    /\ UNCHANGED <<before, edited, runs, edits>>

\* ... and writes it.
Fill ==
    /\ run.pc = "fill"
    /\ file' = run.text
    /\ run' = [run EXCEPT !.pc = "done"]
    /\ UNCHANGED <<before, edited, runs, edits>>

\* The process dies.
Crash ==
    /\ InProgress
    /\ run' = Idle
    /\ UNCHANGED <<file, before, edited, runs, edits>>

\* The operator adds a line.
Edit ==
    /\ edits < MaxEdits
    /\ edits' = edits + 1
    /\ \E line \in Edits : file' = IF file = NoFile THEN <<line>> ELSE Append(file, line)
    /\ edited' = TRUE
    /\ UNCHANGED <<run, before, runs>>

Next == ReadFile \/ Truncate \/ Fill \/ Crash \/ Edit

Spec == Init /\ [][Next]_vars

-----------------------------------------------------------------------------
(* The server *)

\* Compose: "$$" is a dollar, and "$" before a name is the value of a variable
\* that is not set.
Interpolated(v) ==
    LET rest[i \in 1..(Len(v) + 2)] ==
            IF i > Len(v) THEN <<>>
            ELSE IF v[i] # "$" THEN <<v[i]>> \o rest[i + 1]
            ELSE IF i < Len(v) /\ v[i + 1] = "$" THEN <<"$">> \o rest[i + 2]
            ELSE rest[i + 2]
    IN  rest[1]

\* The values of a variable; the last one counts.
Values(lines, key) ==
    LET found == Having(lines, key)
    IN  [i \in DOMAIN found |-> Interpolated(found[i].value)]

IsSet(values) == values # <<>> /\ Last(values) # <<>>

\* config.Load: "set exactly one".
Accepted(lines) == IsSet(Values(lines, "pw")) # IsSet(Values(lines, "hash"))

-----------------------------------------------------------------------------
\* Nobody has edited the file while the command ran, and the command is over.
Done == run.pc = "done" /\ ~edited

\* After a run the server starts, and with the new password: whatever mixture
\* of old hashes and passwords the file held, one hash is left, and it comes out
\* of Compose as HashPassword made it (README.md:68-71).
TakesEffect ==
    Done => Accepted(file) /\ Values(file, "hash") = <<run.hash>>

\* The lines that are no business of the command, but for empty ones at the end.
Rest(lines) ==
    IF lines = NoFile THEN <<>> ELSE Trimmed(Having(lines, "none"))

\* All other lines, comments among them, are still there, and in their order.
OtherLinesKept == Done => Rest(file) = Rest(before)

\* The file does not grow: setting the same hash again would change nothing,
\* down to the newline at the end.
RewriteIsStable == Done => rewriteEnv(file, run.hash) = file

=============================================================================
