----------------------------- MODULE ServeProofs -----------------------------
(***************************************************************************)
(* For any number of processes, connections, reports, runs, crashes and    *)
(* restores: who has opened the database has the whole schema, a backup    *)
(* that was written is one state of the database, and reports survive.     *)
(*                                                                         *)
(* The schema: a process has behind it what the statements that it has run *)
(* have made, because nothing takes a table or a column away while it has  *)
(* the database open (Progress).  The command copies a database that it    *)
(* has open, so that what it copies is complete (CopyInv).  A WAL that is  *)
(* there is some process's that has the database open, or that of one that *)
(* has died (WalInv); a restore, for which nobody may have it open, is     *)
(* therefore exact unless a process has died.                              *)
(*                                                                         *)
(* What the liveness rests on: an opener finds the table that it alters,   *)
(* the server has its store open while it is up (DrainInv), and a shutdown *)
(* goes one way.                                                           *)
(***************************************************************************)
EXTENDS Serve, TLAPS

\* The names of the statements, and how many they are.
LEMMA StatementsAre ==
    /\ Len(Statements) = 8
    /\ \A n \in 1..8 :
          \/ Statements[n].op = "create" /\ Statements[n].name \in Tables
          \/ Statements[n].op = "add" /\ Statements[n].name \in ThreadColumns
    /\ \A t \in Tables :
          \E n \in 1..8 : Statements[n].op = "create" /\ Statements[n].name = t
    /\ \A c \in ThreadColumns :
          \E n \in 1..8 : Statements[n].op = "add" /\ Statements[n].name = c
<1>1. /\ Statements[1] = Create("apps") /\ Statements[2] = Create("issues")
      /\ Statements[3] = Create("reports") /\ Statements[4] = Create("sessions")
      /\ Statements[5] = Add("thread_id") /\ Statements[6] = Add("thread_name")
      /\ Statements[7] = Add("thread_priority") /\ Statements[8] = Add("thread_group")
      /\ Len(Statements) = 8
  BY DEF Statements
<1>2. \A n \in 1..8 : n \in {1, 2, 3, 4, 5, 6, 7, 8}
  OBVIOUS
<1>3. \A t \in Tables :
          \E n \in 1..8 : Statements[n].op = "create" /\ Statements[n].name = t
  BY <1>1 DEF Create, Tables
<1>4. \A c \in ThreadColumns :
          \E n \in 1..8 : Statements[n].op = "add" /\ Statements[n].name = c
  BY <1>1 DEF Add, ThreadColumns
<1>5. \A n \in 1..8 :
          \/ Statements[n].op = "create" /\ Statements[n].name \in Tables
          \/ Statements[n].op = "add" /\ Statements[n].name \in ThreadColumns
  BY <1>1, <1>2 DEF Create, Add, Tables, ThreadColumns
<1> QED
  BY <1>1, <1>3, <1>4, <1>5, Zenon

-----------------------------------------------------------------------------
(* The schema *)

\* What the statements before number n make.
MadeBefore(n) ==
    \A m \in 1..8 : m < n =>
        /\ Statements[m].op = "create" => Statements[m].name \in tables
        /\ Statements[m].op = "add" => Statements[m].name \in columns

Progress ==
    /\ \A p \in Procs : MadeBefore(next[p])
    /\ \A p \in opened : next[p] = 9

SchemaInv == TypeOK /\ Progress

\* A new file and an old one: nobody has run anything yet.
LEMMA SchemaInit == Init => SchemaInv
<1> SUFFICES ASSUME Init PROVE SchemaInv
  OBVIOUS
<1>1. rows \in Seq(SUBSET ThreadColumns)
  <2>1. CASE rows = <<>>
    BY <2>1
  <2>2. ASSUME NEW n \in 0..1, rows = [i \in 1..n |-> {}]
        PROVE  rows \in Seq(SUBSET ThreadColumns)
    BY <2>2
  <2> QED
    BY <2>1, <2>2 DEF Init
<1> QED
  BY <1>1, StatementsAre, MigrateAssumption
     DEF Init, SchemaInv, TypeOK, Progress, MadeBefore

\* Who has opened the database has run all of the statements.
LEMMA SchemaIsWhole ==
    ASSUME SchemaInv PROVE OpenedMeansMigrated
<1> SUFFICES ASSUME NEW p \in opened
             PROVE  tables = Tables /\ columns = ThreadColumns
  BY DEF OpenedMeansMigrated
<1>1. MadeBefore(9)
  BY DEF SchemaInv, Progress, TypeOK
<1>2. ASSUME NEW t \in Tables PROVE t \in tables
  <2>1. PICK n \in 1..8 : Statements[n].op = "create" /\ Statements[n].name = t
    BY StatementsAre
  <2> QED
    BY <1>1, <2>1 DEF MadeBefore
<1>3. ASSUME NEW c \in ThreadColumns PROVE c \in columns
  <2>1. PICK n \in 1..8 : Statements[n].op = "add" /\ Statements[n].name = c
    BY StatementsAre
  <2> QED
    BY <1>1, <2>1 DEF MadeBefore
<1> QED
  BY <1>2, <1>3 DEF SchemaInv, TypeOK

\* A process whose step is over has made what it had, and one thing more.
LEMMA GrowthKeeps ==
    ASSUME Progress, NEW p \in Procs, next \in [Procs -> 1..9],
           next' = [next EXCEPT ![p] = @ + 1], p \notin opened,
           next[p] \in 1..8, opened' = opened, opened \subseteq Procs,
           tables \subseteq tables', columns \subseteq columns',
           Statements[next[p]].op = "create" => Statements[next[p]].name \in tables',
           Statements[next[p]].op = "add" => Statements[next[p]].name \in columns'
    PROVE  Progress'
<1>1. ASSUME NEW q \in Procs PROVE MadeBefore(next[q])'
  <2>1. CASE q = p
    <3>1. next'[q] = next[q] + 1
      BY <2>1
    <3>2. \A m \in 1..8 : m < next'[q] => m < next[q] \/ m = next[q]
      BY <3>1
    <3> QED
      BY <2>1, <3>1, <3>2 DEF Progress, MadeBefore
  <2>2. CASE q # p
    BY <2>2 DEF Progress, MadeBefore
  <2> QED
    BY <2>1, <2>2
<1>2. \A q \in opened' : next'[q] = 9
  BY DEF Progress
<1> QED
  BY <1>1, <1>2 DEF Progress

\* Statements only add tables and columns.
LEMMA SchemaStep ==
    ASSUME SchemaInv, NEW p \in Procs, Step(p)
    PROVE  SchemaInv'
<1> USE DEF SchemaInv
<1>0. next \in [Procs -> 1..9] /\ opened \subseteq Procs /\ rows \in Seq(SUBSET ThreadColumns)
  BY StatementsAre DEF TypeOK
<1>1. CASE CreateTable(p)
  <2>1. /\ next[p] \in 1..8 /\ p \notin opened
        /\ Statements[next[p]].op = "create" /\ Statements[next[p]].name \in Tables
    BY <1>0, <1>1, StatementsAre DEF CreateTable, Opening
  <2>2. tables \subseteq tables' /\ Statements[next[p]].name \in tables' /\ tables' \subseteq Tables
    BY <1>1, <2>1 DEF CreateTable, TypeOK
  <2>3. columns \subseteq columns' /\ columns' \subseteq ThreadColumns
    BY <1>1 DEF CreateTable, TypeOK
  <2>4. next' = [next EXCEPT ![p] = @ + 1] /\ UNCHANGED <<rows, opened, crashes, ingested>>
    BY <1>1 DEF CreateTable
  <2>5. Progress'
    BY <1>0, <2>1, <2>2, <2>3, <2>4, GrowthKeeps
  <2> QED
    BY <1>0, <2>1, <2>2, <2>3, <2>4, <2>5, StatementsAre DEF TypeOK
<1>2. CASE AddColumn(p)
  <2>1. /\ next[p] \in 1..8 /\ p \notin opened
        /\ Statements[next[p]].op = "add" /\ Statements[next[p]].name \in ThreadColumns
    BY <1>0, <1>2, StatementsAre DEF AddColumn, Opening
  <2>2. columns \subseteq columns' /\ Statements[next[p]].name \in columns' /\ columns' \subseteq ThreadColumns
    BY <1>2, <2>1 DEF AddColumn, TypeOK
  <2>3. rows' \in Seq(SUBSET ThreadColumns)
    BY <1>0, <1>2, <2>1 DEF AddColumn
  <2>4. next' = [next EXCEPT ![p] = @ + 1] /\ UNCHANGED <<tables, opened, crashes, ingested>>
    BY <1>2 DEF AddColumn
  <2>5. Progress'
    BY <1>0, <2>1, <2>2, <2>4, GrowthKeeps
  <2> QED
    BY <1>0, <2>1, <2>2, <2>3, <2>4, <2>5, StatementsAre DEF TypeOK
<1>3. CASE Open(p)
  <2>1. next[p] = 9 /\ opened' = opened \cup {p}
    BY <1>0, <1>3, StatementsAre DEF Open
  <2> QED
    BY <1>3, <2>1 DEF Open, TypeOK, Progress, MadeBefore
<1> QED
  BY <1>1, <1>2, <1>3 DEF Step

\* Who closes the database or dies begins anew; a report changes no schema.
LEMMA SchemaOthers ==
    ASSUME SchemaInv, NEW p \in Procs, Close(p) \/ Crash(p) \/ Ingest(p)
    PROVE  SchemaInv'
<1> USE DEF SchemaInv
<1>1. CASE Close(p) \/ Crash(p)
  <2>1. /\ opened' = opened \ {p} /\ next' = [next EXCEPT ![p] = 1]
        /\ UNCHANGED <<tables, columns, rows, ingested>>
        /\ crashes' \in 0..MaxCrashes
    BY <1>1, MigrateAssumption DEF Close, Crash, TypeOK
  <2>2. \A q \in Procs : next'[q] = IF q = p THEN 1 ELSE next[q]
    BY <2>1 DEF TypeOK
  <2>3. Progress'
    BY <2>1, <2>2 DEF Progress, MadeBefore, TypeOK
  <2> QED
    BY <2>1, <2>3, StatementsAre DEF TypeOK
<1>2. CASE Ingest(p)
  BY <1>2, MigrateAssumption DEF Ingest, TypeOK, Progress, MadeBefore
<1> QED
  BY <1>1, <1>2

-----------------------------------------------------------------------------
(* The copy *)

\* What is copied is the whole of a database, and the file holds a part of it.
CopyInv ==
    dest # Absent \/ cmd.pc = "copying" =>
        /\ cmd.snap.tables = Tables /\ cmd.snap.columns = ThreadColumns
        /\ cmd.snap.rows \in Seq(SUBSET ThreadColumns)
        /\ DOMAIN dest \subseteq Tables
        /\ dest = Copied(DOMAIN dest, cmd.snap)

\* A copy that was written is complete.
WrittenIsWhole == cmd.pc = "written" /\ dest # Absent => Uncopied = {}

LEMMA WholeIsSnapshot ==
    ASSUME CopyInv, WrittenIsWhole
    PROVE  BackupIsSnapshot
<1> SUFFICES ASSUME cmd.pc = "written", dest # Absent
             PROVE  /\ dest = Copied(Tables, cmd.snap)
                    /\ cmd.snap.tables = Tables /\ cmd.snap.columns = ThreadColumns
  BY DEF BackupIsSnapshot
<1>1. DOMAIN dest = Tables
  BY DEF CopyInv, WrittenIsWhole, Uncopied
<1> QED
  BY <1>1 DEF CopyInv

\* The command's steps: it copies a database that it has open.
LEMMA CopyKeeps ==
    ASSUME CopyInv, WrittenIsWhole, TypeOK, OpenedMeansMigrated,
           Command \/ BackupCrash \/ Rotate \/ UNCHANGED <<cmd, dest>>
    PROVE  CopyInv' /\ WrittenIsWhole'
<1>1. CASE runBackup
  <2>1. CASE dest \in {Absent, Nothing} /\ Copies /\ dest' = Nothing /\ UNCHANGED vars
    <3>1. cmd' = [pc |-> "copying", snap |-> [tables |-> tables, columns |-> columns, rows |-> rows]]
      BY <2>1 DEF Copies, Content
    <3>2. tables = Tables /\ columns = ThreadColumns
      BY <1>1 DEF runBackup, Begins, OpenedMeansMigrated
    <3>3. DOMAIN dest' = {} /\ dest' = Copied({}, cmd'.snap)
      BY <2>1 DEF Nothing, Copied
    <3> QED
      BY <3>1, <3>2, <3>3 DEF CopyInv, WrittenIsWhole, TypeOK
  <2>2. CASE dest \notin {Absent, Nothing} /\ Ended("failed") /\ UNCHANGED dest
    <3>1. cmd' = [pc |-> "failed", snap |-> cmd.snap] /\ dest' = dest
      BY <2>2 DEF Ended
    <3> QED
      BY <2>2, <3>1 DEF CopyInv, WrittenIsWhole
  <2> QED
    BY <1>1, <2>1, <2>2 DEF runBackup
<1>2. CASE CopyTable
  <2>1. PICK t \in Uncopied : dest' = [u \in DOMAIN dest \cup {t} |->
                                  IF u = t THEN TableOf(cmd.snap, t) ELSE dest[u]]
    BY <1>2 DEF CopyTable
  <2>2. cmd' = cmd /\ cmd.pc = "copying" /\ t \in Tables
    BY <1>2, <2>1 DEF CopyTable, Uncopied
  <2>3. dest = [u \in DOMAIN dest |-> TableOf(cmd.snap, u)]
    BY <2>2 DEF CopyInv, Copied
  <2>4. \A u \in DOMAIN dest : dest[u] = TableOf(cmd.snap, u)
    BY <2>3
  <2>5. DOMAIN dest' = DOMAIN dest \cup {t}
    BY <2>1
  <2>6. dest' = [u \in DOMAIN dest \cup {t} |-> TableOf(cmd.snap, u)]
    BY <2>1, <2>4
  <2>7. dest' = Copied(DOMAIN dest', cmd'.snap)
    BY <2>2, <2>5, <2>6 DEF Copied
  <2> QED
    BY <2>2, <2>5, <2>7 DEF CopyInv, WrittenIsWhole
<1>3. CASE Written \/ CutShort \/ (BackupCrash /\ cmd.pc = "copying")
  <2>1. /\ cmd.pc = "copying" /\ dest' = dest /\ cmd'.snap = cmd.snap
        /\ cmd'.pc = "written" => Uncopied = {}
        /\ cmd'.pc \in {"written", "cut short"}
    <3>1. CASE Written
      BY <3>1 DEF Written, Ended
    <3>2. CASE CutShort
      BY <3>2 DEF CutShort, Ended
    <3>3. CASE BackupCrash /\ cmd.pc = "copying"
      <4>1. cmd' = [pc |-> "cut short", snap |-> cmd.snap] /\ dest' = dest
        BY <3>3, Zenon DEF BackupCrash, Ended
      <4> QED
        BY <3>3, <4>1
    <3> QED
      BY <1>3, <3>1, <3>2, <3>3
  <2> QED
    BY <2>1 DEF CopyInv, WrittenIsWhole, Uncopied
<1>4. CASE Rotate
  BY <1>4 DEF Rotate, CopyInv, WrittenIsWhole
<1>5. CASE UNCHANGED <<cmd, dest>>
  BY <1>5 DEF CopyInv, WrittenIsWhole, Uncopied
<1> QED
  BY <1>1, <1>2, <1>3, <1>4, <1>5 DEF Command, BackupCrash

-----------------------------------------------------------------------------
(* The server, the command and the operator *)

\* Who has left a WAL.
WalInv ==
    /\ wal \in BOOLEAN /\ died \in BOOLEAN
    /\ wal => died \/ \E p \in Procs : HasOpen(p)

ServeInv ==
    /\ SchemaInv
    /\ CopyInv
    /\ WrittenIsWhole
    /\ WalInv
    /\ restores \in Nat

\* The database as a step of the whole leaves it: one process has taken a step
\* with it, or a backup was put in its place.
LEMMA DatabaseSteps ==
    ASSUME [ServeNext]_serveVars
    PROVE  \/ \E p \in Procs : Step(p) \/ Close(p) \/ Crash(p) \/ Ingest(p)
           \/ UNCHANGED vars
           \/ Restore
<1> USE BackupAssumption, ServeAssumption
<1>1. ASSUME NEW p \in Procs, OpenDatabase(p) PROVE Step(p)
  BY <1>1 DEF OpenDatabase, OpeningStep
<1>2. ASSUME RunBackup PROVE Close(Backuper) \/ UNCHANGED vars
  BY <1>2 DEF RunBackup, Command, runBackup, CopyTable, Written, CutShort
<1>3. ASSUME CrashBackup PROVE Crash(Backuper)
  BY <1>3 DEF CrashBackup, BackupCrash
<1>4. ASSUME MoveBackup PROVE UNCHANGED vars
  BY <1>4 DEF MoveBackup, Rotate
<1>5. ASSUME Drain PROVE Close(Server) \/ UNCHANGED vars
  BY <1>5 DEF Drain, Tick, Drained, GiveUp, Returns, backupVars
<1>6. ASSUME ServerCrash PROVE Crash(Server)
  BY <1>6 DEF ServerCrash
<1>7. ASSUME NEW c \in Conns, Arrive(c) \/ BeginTransaction(c) \/ Answer(c)
      PROVE  Ingest(Server) \/ UNCHANGED vars
  BY <1>7 DEF Arrive, BeginTransaction, Answer, backupVars
<1>8. ASSUME Listen \/ Signal \/ UNCHANGED serveVars PROVE UNCHANGED vars
  BY <1>8 DEF Listen, Signal, serveVars, backupVars
<1> QED
  BY <1>1, <1>2, <1>3, <1>4, <1>5, <1>6, <1>7, <1>8 DEF ServeNext

\* What the steps do to the copy.
LEMMA CopySteps ==
    ASSUME [ServeNext]_serveVars
    PROVE  Command \/ BackupCrash \/ Rotate \/ UNCHANGED commandVars
BY DEF ServeNext, serveVars, backupVars, OpenDatabase, OpeningStep, RunBackup, CrashBackup,
       MoveBackup, Restore, Drain, Tick, Drained, GiveUp, Returns, ServerCrash, Arrive,
       BeginTransaction, Answer, Listen, Signal

\* A restore puts a part of nothing in: the copy is whole.
LEMMA RestoreKeepsSchema ==
    ASSUME SchemaInv, CopyInv, Restore
    PROVE  SchemaInv'
<1>1. opened = {} /\ \A p \in Procs : next[p] = 1
  <2>1. opened \subseteq Procs /\ next \in [Procs -> 1..9]
    BY StatementsAre DEF SchemaInv, TypeOK
  <2>2. \A p \in Procs : p \notin opened /\ ~(next[p] > 1)
    BY DEF Restore, HasOpen
  <2> QED
    BY <2>1, <2>2
<1>2. tables' \subseteq Tables /\ columns' \subseteq ThreadColumns /\ rows' \in Seq(SUBSET ThreadColumns)
  <2>1. CASE wal
    BY <2>1 DEF Restore, SchemaInv, TypeOK
  <2>2. CASE ~wal
    <3>1. "reports" \in DOMAIN dest
      BY DEF Restore, Uncopied, Tables
    <3>2. dest["reports"] = TableOf(cmd.snap, "reports")
      BY <3>1 DEF Restore, CopyInv, Copied
    <3>3. dest["reports"] = [columns |-> cmd.snap.columns, rows |-> cmd.snap.rows]
      BY <3>2 DEF TableOf
    <3> QED
      BY <2>2, <3>3 DEF Restore, CopyInv
  <2> QED
    BY <2>1, <2>2
<1> QED
  BY <1>1, <1>2, StatementsAre DEF Restore, SchemaInv, TypeOK, Progress, MadeBefore

\* A process that closes the database changes nothing of the others.
LEMMA OthersStayOpen ==
    ASSUME NEW p \in Procs, next \in [Procs -> 1..9], Close(p)
    PROVE  \A q \in Procs \ {p} : HasOpen(q)' = HasOpen(q)
BY DEF Close, HasOpen

LEMMA ClosesKeepsWal ==
    ASSUME WalInv, NEW p \in Procs, next \in [Procs -> 1..9], Close(p), Closes(p)
    PROVE  WalInv'
<1>1. CASE \A q \in Procs \ {p} : ~HasOpen(q)
  BY <1>1 DEF Closes, WalInv
<1>2. CASE ~ \A q \in Procs \ {p} : ~HasOpen(q)
  <2>1. PICK q \in Procs \ {p} : HasOpen(q)
    BY <1>2
  <2>2. HasOpen(q)'
    BY <2>1, OthersStayOpen
  <2> QED
    BY <1>2, <2>2 DEF Closes, WalInv
<1> QED
  BY <1>1, <1>2

\* Who commits has the database open.
LEMMA CommitsKeepsWal ==
    ASSUME WalInv, NEW p \in Procs, HasOpen(p)', Commits
    PROVE  WalInv'
BY DEF WalInv, Commits

\* A step of Open leaves the process with the database open.
LEMMA OpensDatabase ==
    ASSUME NEW p \in Procs, next \in [Procs -> 1..9], Step(p)
    PROVE  HasOpen(p)'
BY DEF Step, CreateTable, AddColumn, Open, HasOpen

LEMMA WalStep ==
    ASSUME ServeInv, [ServeNext]_serveVars
    PROVE  WalInv'
<1> USE BackupAssumption, ServeAssumption
<1>0. next \in [Procs -> 1..9] /\ opened \subseteq Procs
  BY StatementsAre DEF ServeInv, SchemaInv, TypeOK
<1>1. WalInv
  BY DEF ServeInv
<1>2. ASSUME UNCHANGED <<next, opened>>, UNCHANGED <<wal, died>>
      PROVE  WalInv'
  BY <1>1, <1>2 DEF WalInv, HasOpen
<1>3. ASSUME died' = TRUE, UNCHANGED wal
      PROVE  WalInv'
  BY <1>1, <1>3 DEF WalInv
<1>4. ASSUME NEW p \in Procs, OpenDatabase(p) PROVE WalInv'
  BY <1>0, <1>1, <1>4, OpensDatabase, CommitsKeepsWal DEF OpenDatabase, OpeningStep
<1>5. ASSUME RunBackup PROVE WalInv'
  <2>1. CASE Backuper \in opened'
    BY <1>1, <1>5, <2>1, CommitsKeepsWal DEF RunBackup, HasOpen
  <2>2. CASE Backuper \notin opened'
    <3>1. Closes(Backuper)
      BY <1>5, <2>2 DEF RunBackup
    <3>2. CASE Close(Backuper)
      BY <1>0, <1>1, <3>1, <3>2, ClosesKeepsWal
    <3>3. CASE UNCHANGED vars
      BY <1>1, <3>1, <3>3 DEF Closes, WalInv, vars, HasOpen
    <3> QED
      BY <1>5, <3>2, <3>3 DEF RunBackup, Command, runBackup, CopyTable, Written, CutShort
  <2> QED
    BY <2>1, <2>2
<1>6. ASSUME CrashBackup \/ ServerCrash PROVE WalInv'
  BY <1>3, <1>6 DEF CrashBackup, ServerCrash
<1>7. ASSUME Drain PROVE WalInv'
  <2>1. CASE Tick
    BY <1>2, <2>1 DEF Tick, backupVars, vars
  <2>2. CASE Drained
    BY <1>0, <1>1, <2>2, ClosesKeepsWal DEF Drained, Returns
  <2>3. CASE GiveUp
    BY <1>0, <1>1, <1>3, <2>3, ClosesKeepsWal DEF GiveUp, Returns
  <2> QED
    BY <1>7, <2>1, <2>2, <2>3 DEF Drain
<1>8. ASSUME NEW c \in Conns, Answer(c) PROVE WalInv'
  <2>1. CASE Ingest(Server)
    BY <1>1, <1>8, <2>1, CommitsKeepsWal DEF Answer, Ingest, HasOpen
  <2>2. CASE UNCHANGED vars
    <3>1. wal' = wal /\ died' = died
      BY <1>1, <1>8, <2>2 DEF Answer, Commits, Changed, Content, vars, WalInv
    <3> QED
      BY <1>2, <2>2, <3>1 DEF vars
  <2> QED
    BY <1>8, <2>1, <2>2 DEF Answer
<1>9. ASSUME \/ Listen \/ Signal \/ MoveBackup \/ Restore
             \/ \E c \in Conns : Arrive(c) \/ BeginTransaction(c)
             \/ UNCHANGED serveVars
      PROVE  WalInv'
  BY <1>2, <1>9 DEF Listen, Signal, MoveBackup, Rotate, Restore, Arrive, BeginTransaction,
                    serveVars, backupVars, vars
<1> QED
  BY <1>4, <1>5, <1>6, <1>7, <1>8, <1>9 DEF ServeNext

\* Only a restore is counted as one.
LEMMA RestoresCount ==
    ASSUME restores \in Nat, [ServeNext]_serveVars
    PROVE  /\ restores' \in Nat
           /\ restores' # restores <=> Restore
BY DEF ServeNext, serveVars, OpenDatabase, RunBackup, CrashBackup, MoveBackup, Commits, Closes,
       Restore, Drain, Tick, Drained, GiveUp, ServerCrash, Arrive, BeginTransaction, Answer,
       Listen, Signal

-----------------------------------------------------------------------------
(* The invariant *)

LEMMA ServeInvInit == ServeInit => ServeInv
<1> SUFFICES ASSUME ServeInit PROVE ServeInv
  OBVIOUS
<1>1. SchemaInv
  BY SchemaInit DEF ServeInit, BackupInit
<1>2. CopyInv /\ WrittenIsWhole
  BY DEF ServeInit, BackupInit, CopyInv, WrittenIsWhole
<1>3. WalInv /\ restores \in Nat
  BY DEF ServeInit, WalInv
<1> QED
  BY <1>1, <1>2, <1>3 DEF ServeInv

LEMMA ServeInvNext == ServeInv /\ [ServeNext]_serveVars => ServeInv'
<1> SUFFICES ASSUME ServeInv, [ServeNext]_serveVars PROVE ServeInv'
  OBVIOUS
<1>1. SchemaInv /\ CopyInv /\ WrittenIsWhole
  BY DEF ServeInv
<1>2. SchemaInv'
  <2>1. ASSUME UNCHANGED vars PROVE SchemaInv'
    BY <1>1, <2>1 DEF SchemaInv, TypeOK, Progress, MadeBefore, vars
  <2> QED
    BY <1>1, <2>1, DatabaseSteps, SchemaStep, SchemaOthers, RestoreKeepsSchema
<1>3. CopyInv' /\ WrittenIsWhole'
  BY <1>1, SchemaIsWhole, CopySteps, CopyKeeps DEF SchemaInv, commandVars
<1>4. restores' \in Nat
  BY RestoresCount DEF ServeInv
<1> QED
  BY <1>2, <1>3, <1>4, WalStep DEF ServeInv

LEMMA ServeKeepsInv == ServeSpec => []ServeInv
BY ServeInvInit, ServeInvNext, PTL DEF ServeSpec

\* The tables, columns and rows of the database, and how far each process is
\* with its statements, have their types.
THEOREM DatabaseIsTyped == ServeSpec => []TypeOK
<1>1. ServeInv => TypeOK
  BY DEF ServeInv, SchemaInv
<1> QED
  BY <1>1, ServeKeepsInv, PTL

\* Whichever of any number of processes open a database at the same time, and
\* wherever they die, and whatever is restored: a Store that Open has returned
\* has every table and every column.
THEOREM OpenedHasSchema == ServeSpec => []OpenedMeansMigrated
<1>1. ServeInv => OpenedMeansMigrated
  BY SchemaIsWhole DEF ServeInv
<1> QED
  BY <1>1, ServeKeepsInv, PTL

\* What the command reports as written is the whole database at one moment.
THEOREM BackupsAreSnapshots == ServeSpec => []BackupIsSnapshot
<1>1. ServeInv => BackupIsSnapshot
  BY WholeIsSnapshot DEF ServeInv
<1> QED
  BY <1>1, ServeKeepsInv, PTL

\* What the steps do to the number of runs: only runBackup begins one.
LEMMA RunsCount ==
    ASSUME [ServeNext]_serveVars
    PROVE  runBackup \/ UNCHANGED runs
BY DEF ServeNext, serveVars, backupVars, OpenDatabase, OpeningStep, commandVars, RunBackup,
       Command, CopyTable, Written, CutShort, CrashBackup, BackupCrash, MoveBackup, Rotate,
       Restore, Drain, Tick, Drained, GiveUp, Returns, ServerCrash, Arrive, BeginTransaction,
       Answer, Listen, Signal

\* No run, crash or failure touches a backup that is complete.
THEOREM GoodBackupsSurvive == ServeSpec => GoodBackupSurvives
<1>1. ASSUME [ServeNext]_serveVars,
             dest # Absent, cmd.pc # "copying", Uncopied = {}
      PROVE  dest' \in {dest, Absent} /\ (dest' = Absent => UNCHANGED runs)
  <2>1. ASSUME runBackup PROVE dest' = dest
    <3>1. dest # Nothing
      BY <1>1 DEF Nothing, Copied, Uncopied, Tables
    <3> QED
      BY <1>1, <2>1, <3>1 DEF runBackup
  <2>2. ASSUME Written \/ CutShort \/ BackupCrash PROVE dest' = dest
    BY <2>2 DEF Written, CutShort, BackupCrash
  <2>3. ASSUME Rotate PROVE dest' = Absent /\ UNCHANGED runs
    BY <2>3 DEF Rotate
  <2>4. ~CopyTable
    BY <1>1 DEF CopyTable
  <2> QED
    BY <1>1, <2>1, <2>2, <2>3, <2>4, CopySteps, RunsCount DEF Command, commandVars
<1>2. [ServeNext]_serveVars =>
         [dest # Absent /\ cmd.pc # "copying" /\ Uncopied = {}
             => dest' \in {dest, Absent} /\ (dest' = Absent => UNCHANGED runs)]_backupVars
  BY <1>1
<1> QED
  BY <1>2, PTL DEF ServeSpec, GoodBackupSurvives

\* A step with the database keeps every report and what is in it.
LEMMA StepsKeepRows ==
    ASSUME SchemaInv, NEW p \in Procs, Step(p) \/ Close(p) \/ Crash(p) \/ Ingest(p)
    PROVE  RowsSurvive
<1>1. rows \in Seq(SUBSET ThreadColumns)
  BY DEF SchemaInv, TypeOK
<1>2. CASE UNCHANGED rows
  BY <1>1, <1>2 DEF RowsSurvive
<1>3. CASE AddColumn(p)
  <2>1. CASE UNCHANGED rows
    BY <1>2, <2>1
  <2>2. CASE /\ Statements[next[p]].name \notin columns
             /\ columns' = columns \cup {Statements[next[p]].name}
             /\ rows' = [i \in DOMAIN rows |-> rows[i] \cup ({Statements[next[p]].name} \ HasDefault)]
    <3>1. Len(rows') = Len(rows) /\ DOMAIN rows = 1..Len(rows)
      BY <1>1, <2>2
    <3>2. \A i \in DOMAIN rows : rows'[i] \ rows[i] \subseteq columns' \ columns
      BY <2>2
    <3> QED
      BY <1>1, <3>1, <3>2 DEF RowsSurvive
  <2> QED
    BY <1>3, <2>1, <2>2 DEF AddColumn
<1>4. CASE Ingest(p)
  BY <1>1, <1>4 DEF Ingest, RowsSurvive
<1> QED
  BY <1>2, <1>3, <1>4 DEF Step, CreateTable, Open, Close, Crash

\* A restore without a WAL makes the database the copy.
LEMMA RestoreIsExact ==
    ASSUME ServeInv, Restore, ~died
    PROVE  Copied(Tables, Content)' = dest
<1>1. ~wal
  BY DEF ServeInv, WalInv, Restore
<1>2. DOMAIN dest = Tables
  BY DEF ServeInv, CopyInv, Restore, Uncopied
<1>3. dest = [t \in Tables |-> TableOf(cmd.snap, t)]
  BY <1>2 DEF ServeInv, CopyInv, Restore, Copied
<1>4. dest["reports"] = [columns |-> cmd.snap.columns, rows |-> cmd.snap.rows]
  BY <1>3 DEF TableOf, Tables
<1>5. columns' = cmd.snap.columns /\ rows' = cmd.snap.rows
  BY <1>1, <1>4 DEF Restore
<1>6. \A t \in Tables : TableOf(Content, t)' = TableOf(cmd.snap, t)
  BY <1>5 DEF TableOf, Content
<1> QED
  BY <1>3, <1>6 DEF Copied

\* Upgrades, backups, shutdowns and crashes of any number of processes lose or
\* change no report, and a restore brings back exactly what was copied, unless a
\* process has died with the database open.
THEOREM ReportsAreKept == ServeSpec => ReportsSurvive
<1>1. ASSUME ServeInv, [ServeNext]_serveVars
      PROVE  IF restores' = restores THEN RowsSurvive
             ELSE died \/ Copied(Tables, Content)' = dest
  <2>1. SchemaInv /\ restores \in Nat
    BY <1>1 DEF ServeInv
  <2>2. CASE restores' = restores
    <3>1. ~Restore
      BY <1>1, <2>1, <2>2, RestoresCount
    <3>2. ASSUME UNCHANGED vars PROVE RowsSurvive
      BY <2>1, <3>2 DEF vars, RowsSurvive, SchemaInv, TypeOK
    <3> QED
      BY <1>1, <2>1, <2>2, <3>1, <3>2, DatabaseSteps, StepsKeepRows
  <2>3. CASE restores' # restores
    BY <1>1, <2>1, <2>3, RestoresCount, RestoreIsExact
  <2> QED
    BY <2>2, <2>3
<1>2. ServeInv /\ [ServeNext]_serveVars =>
         [IF restores' = restores THEN RowsSurvive
          ELSE died \/ Copied(Tables, Content)' = dest]_serveVars
  BY <1>1
<1> QED
  BY <1>2, ServeKeepsInv, PTL DEF ServeSpec, ReportsSurvive

-----------------------------------------------------------------------------
(* What AllOpen and ServeEnds rest on *)

\* A process that comes to an ALTER TABLE finds the table there (migrate would
\* give up if it did not), and no step of another takes back what it has done:
\* it goes on by one statement, or begins anew because it has died or closed.
OpenersGetOn ==
    /\ [](\A p \in Procs :
             Opening(p) /\ Statements[next[p]].op = "add" => "reports" \in tables)
    /\ [][\A p \in Procs :
             next'[p] \in {next[p], next[p] + 1, 1}]_serveVars

\* The reports table is made by the third statement, and the columns after it.
LEMMA TableFirst ==
    ASSUME SchemaInv, NEW p \in Procs, Opening(p), Statements[next[p]].op = "add"
    PROVE  "reports" \in tables
<1>1. next[p] \in 1..8 /\ MadeBefore(next[p])
  BY StatementsAre DEF SchemaInv, TypeOK, Opening, Progress
<1>2. /\ Statements[1].op = "create" /\ Statements[2].op = "create"
      /\ Statements[3].op = "create" /\ Statements[3].name = "reports"
  BY DEF Statements, Create
<1>3. next[p] > 3
  BY <1>1, <1>2
<1> QED
  BY <1>1, <1>2, <1>3 DEF MadeBefore

\* A step with the database moves one process by one statement, or back to the
\* first.
LEMMA StatementsInTurn ==
    ASSUME SchemaInv, [ServeNext]_serveVars, NEW p \in Procs
    PROVE  next'[p] \in {next[p], next[p] + 1, 1}
<1>1. next \in [Procs -> 1..9]
  BY StatementsAre DEF SchemaInv, TypeOK
<1> QED
  BY <1>1, DatabaseSteps
     DEF Step, CreateTable, AddColumn, Open, Close, Crash, Ingest, Restore, vars

\* Of any number of processes that open the file, none meets an ALTER TABLE
\* without its table or is set back by another.
THEOREM OpeningGoesOn == ServeSpec => OpenersGetOn
<1>1. ServeInv =>
         \A p \in Procs : Opening(p) /\ Statements[next[p]].op = "add" => "reports" \in tables
  BY TableFirst DEF ServeInv
<1>2. ServeInv /\ [ServeNext]_serveVars =>
         [\A p \in Procs : next'[p] \in {next[p], next[p] + 1, 1}]_serveVars
  BY StatementsInTurn DEF ServeInv
<1> QED
  BY <1>1, <1>2, ServeKeepsInv, PTL DEF ServeSpec, OpenersGetOn

\* The server has the store open from before the first request until after the
\* last, and no two requests are on its one connection.
StoreIsThere ==
    /\ phase \in {"down", "serving", "draining"}
    /\ phase # "down" => Server \in opened
    /\ Requests # {} => phase # "down"
    /\ \A c, d \in InTransaction : c = d

\* A shutdown comes nearer to its deadline and never turns back: a server that
\* drains, drains until it is down, and the ticks that it has waited grow up to
\* the deadline.
ShutdownIsOneWay ==
    [][phase = "draining" =>
          \/ phase' = "down"
          \/ phase' = "draining" /\ waited' \in waited..Grace]_serveVars

DrainInv ==
    /\ StoreIsThere
    /\ request \in [Conns -> {"none", "body", "store"}]
    /\ waited \in 0..Grace

\* The server takes part in no step of the others.
LEMMA OthersLeaveServer ==
    ASSUME [ServeNext]_serveVars,
           \/ \E p \in Procs : OpenDatabase(p)
           \/ RunBackup \/ CrashBackup \/ MoveBackup
    PROVE  /\ UNCHANGED <<phase, request, waited>>
           /\ Server \in opened => Server \in opened'
BY BackupAssumption, ServeAssumption
   DEF OpenDatabase, OpeningStep, Step, CreateTable, AddColumn, Open, RunBackup, Command,
       runBackup, CopyTable, Written, CutShort, CrashBackup, BackupCrash, MoveBackup, Rotate,
       ServerIsAsItWas, Close, Crash, vars

LEMMA DrainInvInit == ServeInit => DrainInv
BY ServeAssumption DEF ServeInit, DrainInv, StoreIsThere, Quiet, Requests, InTransaction

LEMMA DrainInvNext == DrainInv /\ [ServeNext]_serveVars => DrainInv'
<1> SUFFICES ASSUME DrainInv, [ServeNext]_serveVars PROVE DrainInv'
  OBVIOUS
<1> USE DEF DrainInv, StoreIsThere, Requests, InTransaction
<1>1. CASE \/ \E p \in Procs : OpenDatabase(p)
           \/ RunBackup \/ CrashBackup \/ MoveBackup
  BY <1>1, OthersLeaveServer
<1>2. CASE Listen \/ Signal \/ Tick \/ UNCHANGED serveVars
  BY <1>2, ServeAssumption DEF Listen, Signal, Tick, serveVars, backupVars, vars
<1>3. CASE Drained \/ GiveUp \/ ServerCrash
  <2>1. phase' = "down" /\ request' = Quiet /\ waited' = 0
    BY <1>3 DEF Drained, GiveUp, Returns, ServerCrash
  <2> QED
    BY <2>1, ServeAssumption DEF Quiet
<1>4. ASSUME NEW c \in Conns, Arrive(c) PROVE DrainInv'
  BY <1>4 DEF Arrive, backupVars, vars
<1>5. ASSUME NEW c \in Conns, BeginTransaction(c) PROVE DrainInv'
  BY <1>5 DEF BeginTransaction, backupVars, vars
<1>6. ASSUME NEW c \in Conns, Answer(c) PROVE DrainInv'
  <2>1. opened' = opened /\ UNCHANGED <<phase, waited>>
    BY <1>6 DEF Answer, Ingest, vars
  <2>2. request' = [request EXCEPT ![c] = "none"]
    BY <1>6 DEF Answer
  <2> QED
    BY <2>1, <2>2
<1>7. CASE Restore
  <2>1. UNCHANGED <<phase, request, waited, opened>>
    BY <1>7 DEF Restore, ServerIsAsItWas
  <2> QED
    BY <2>1
<1> QED
  BY <1>1, <1>2, <1>3, <1>4, <1>5, <1>6, <1>7 DEF ServeNext, Drain

\* No request of the server ever finds its store closed, and no two of them
\* share its connection, whenever the server is stopped, killed or started
\* again.
THEOREM RequestsHaveTheStore == ServeSpec => []StoreIsThere
<1>1. DrainInv => StoreIsThere
  BY DEF DrainInv
<1> QED
  BY <1>1, DrainInvInit, DrainInvNext, PTL DEF ServeSpec

\* Whatever requests, backups and other processes do meanwhile: a shutdown goes
\* on to its end, by its deadline.
THEOREM ShutdownGoesOn == ServeSpec => ShutdownIsOneWay
<1>1. ASSUME DrainInv, [ServeNext]_serveVars, phase = "draining"
      PROVE  \/ phase' = "down"
             \/ phase' = "draining" /\ waited' \in waited..Grace
  <2> USE <1>1 DEF DrainInv
  <2>1. CASE \/ \E p \in Procs : OpenDatabase(p)
             \/ RunBackup \/ CrashBackup \/ MoveBackup
    BY <2>1, OthersLeaveServer, ServeAssumption
  <2>2. CASE Drain \/ ServerCrash
    BY <2>2, ServeAssumption DEF Drain, Tick, Drained, GiveUp, Returns, ServerCrash
  <2>3. CASE UNCHANGED <<phase, waited>>
    BY <2>3, ServeAssumption
  <2>4. ~Listen /\ ~Signal /\ \A c \in Conns : ~Arrive(c)
    BY DEF Listen, Signal, Arrive
  <2>5. \/ Restore \/ UNCHANGED serveVars
        \/ \E c \in Conns : BeginTransaction(c) \/ Answer(c)
        => UNCHANGED <<phase, waited>>
    BY DEF Restore, ServerIsAsItWas, serveVars, BeginTransaction, Answer
  <2> QED
    BY <2>1, <2>2, <2>3, <2>4, <2>5 DEF ServeNext
<1>2. DrainInv /\ [ServeNext]_serveVars =>
         [phase = "draining" =>
            \/ phase' = "down"
            \/ phase' = "draining" /\ waited' \in waited..Grace]_serveVars
  BY <1>1
<1> QED
  BY <1>2, DrainInvInit, DrainInvNext, PTL DEF ServeSpec, ShutdownIsOneWay

=============================================================================
