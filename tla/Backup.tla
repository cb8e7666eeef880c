------------------------------- MODULE Backup -------------------------------
(***************************************************************************)
(* "faulthub backup <dest>" beside a running server, as the nightly cron   *)
(* job of the README runs it: the same destination every time.  The        *)
(* command opens the database, and so brings its schema up to date         *)
(* (Migrate), while the server may be opening it, or commit reports.       *)
(*                                                                         *)
(* VACUUM INTO (of SQLite, external) is a read transaction on the database *)
(* and a file that fills up table by table: it refuses a destination that  *)
(* exists and is not empty, and a process that dies half way leaves a file *)
(* behind.                                                                 *)
(***************************************************************************)
EXTENDS Migrate, FiniteSets

CONSTANTS
    Backuper,   \* the process that runs the command
    Absent,     \* there is no file
    MaxRuns     \* bound: runs of the command

ASSUME BackupAssumption == Backuper \in Procs /\ MaxRuns \in Nat

VARIABLES
    cmd,        \* the command: how its run is going, and the state it copies
    dest,       \* the destination file: what is in it of each table, or Absent
    runs        \* bounded by MaxRuns

commandVars == <<cmd, dest, runs>>

backupVars == <<vars, commandVars>>

\* The database.
Content == [tables |-> tables, columns |-> columns, rows |-> rows]

Changed == Content' # Content

\* What a table of the database c holds; a report that comes in has an issue.
TableOf(c, t) ==
    CASE t = "reports" -> [columns |-> c.columns, rows |-> c.rows]
      [] t = "issues"  -> Len(c.rows)
      [] OTHER         -> "as it was"

Copied(ts, c) == [t \in ts |-> TableOf(c, t)]

Nothing == Copied({}, Content)

Ended(outcome) == cmd' = [pc |-> outcome, snap |-> cmd.snap]

BackupInit ==
    /\ Init
    /\ cmd = [pc |-> "none", snap |-> Content]
    /\ dest = Absent
    /\ runs = 0

Begins ==
    /\ Backuper \in opened
    /\ cmd.pc # "copying"
    /\ runs < MaxRuns
    /\ runs' = runs + 1

Copies == cmd' = [pc |-> "copying", snap |-> Content]

\* Mutant of runBackup: whatever is there is overwritten in place.
runBackupInPlace ==
    /\ Begins
    /\ Copies
    /\ dest' = Nothing
    /\ UNCHANGED vars

\* runBackup, once the database is open: VACUUM INTO begins.  A destination
\* with something in it is an error, and nothing is done; one that an earlier
\* run has left empty is not.  The Store is closed when the command returns.
runBackup ==
    /\ Begins
    /\ \/ /\ dest \in {Absent, Nothing}
          /\ Copies
          /\ dest' = Nothing
          /\ UNCHANGED vars
       \/ /\ dest \notin {Absent, Nothing}
          /\ Ended("failed")
          /\ Close(Backuper)
          /\ UNCHANGED dest

Uncopied == Tables \ DOMAIN dest

\* The tables are copied in the order in which they were created.
InOrder(t) ==
    \A m, n \in 1..Cardinality(Tables) :
        m < n /\ Statements[n].name = t => Statements[m].name \in DOMAIN dest

\* Mutant of CopyTable: the file is copied "out from under WAL mode".
CopyLiveTable ==
    /\ cmd.pc = "copying"
    /\ \E t \in Uncopied :
          /\ InOrder(t)
          /\ dest' = [u \in DOMAIN dest \cup {t} |->
                        IF u = t THEN TableOf(Content, t) ELSE dest[u]]
    /\ UNCHANGED <<vars, cmd, runs>>

CopyTable ==
    /\ cmd.pc = "copying"
    /\ \E t \in Uncopied :
          /\ InOrder(t)
          /\ dest' = [u \in DOMAIN dest \cup {t} |->
                        IF u = t THEN TableOf(cmd.snap, t) ELSE dest[u]]
    /\ UNCHANGED <<vars, cmd, runs>>

\* "backup written to ...", and the Store is closed.
Written ==
    /\ cmd.pc = "copying"
    /\ Uncopied = {}
    /\ Ended("written")
    /\ Close(Backuper)
    /\ UNCHANGED <<dest, runs>>

\* VACUUM INTO fails half way (a full disk, say), or the process dies: the file
\* stays, with what has been copied.
CutShort ==
    /\ cmd.pc = "copying"
    /\ Ended("cut short")
    /\ Close(Backuper)
    /\ UNCHANGED <<dest, runs>>

BackupCrash ==
    /\ Crash(Backuper)
    /\ IF cmd.pc = "copying" THEN Ended("cut short") ELSE UNCHANGED cmd
    /\ UNCHANGED <<dest, runs>>

\* The host moves a finished backup off the volume ("keep a few rotated copies
\* off the VPS"); whether it does is up to the operator.
Rotate ==
    /\ cmd.pc # "copying"
    /\ dest # Absent
    /\ dest' = Absent
    /\ UNCHANGED <<vars, cmd, runs>>

\* A statement of Open, by the command or by another process; the command is
\* not started more than MaxRuns times.
OpeningStep(p) ==
    /\ p = Backuper => runs < MaxRuns
    /\ Step(p)
    /\ UNCHANGED commandVars

Command == runBackup \/ CopyTable \/ Written \/ CutShort

BackupNext ==
    \/ \E p \in Procs : OpeningStep(p)
    \/ \E p \in Procs \ {Backuper} : (Crash(p) \/ Ingest(p) \/ Close(p)) /\ UNCHANGED commandVars
    \/ Command \/ BackupCrash \/ Rotate

BackupSpec == BackupInit /\ [][BackupNext]_backupVars

-----------------------------------------------------------------------------
\* "A transactionally consistent snapshot" (backup.go:8), "safe to run against
\* a live database": what a run reports as written is the whole database as it
\* was at one moment of the run, whatever is committed while it is copied, and
\* it has every table and column, even if it is made of an old file while
\* other processes are at work on it or have died half way.
BackupIsSnapshot ==
    cmd.pc = "written" /\ dest # Absent =>
        /\ dest = Copied(Tables, cmd.snap)
        /\ cmd.snap.tables = Tables /\ cmd.snap.columns = ThreadColumns

\* A complete backup is not damaged by a later run that fails or crashes: only
\* the operator takes it away.
GoodBackupSurvives ==
    [][dest # Absent /\ cmd.pc # "copying" /\ Uncopied = {}
          => dest' \in {dest, Absent} /\ (dest' = Absent => UNCHANGED runs)]_backupVars

-----------------------------------------------------------------------------
(* What the documentation promises and the code does not keep *)

\* "Overwrites dest" (backup.go:10): a run is not refused for what its
\* destination holds, be it last night's backup or half of one.
OverwritesDest == cmd.pc # "failed"

=============================================================================
