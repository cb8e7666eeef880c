------------------------------ MODULE Migrate ------------------------------
(***************************************************************************)
(* Opening the database (store.Open): the schema is created or brought up  *)
(* to date by a list of statements, each of which commits by itself.  The  *)
(* server, "seed" and "backup" all open the file this way, at any time and *)
(* at the same time, and each may die between two statements.              *)
(*                                                                         *)
(* The file may be new, or come from a version of the program whose        *)
(* reports table had no thread columns (migrate_test.go), or have been     *)
(* left by an opener that died.  A report is known by the columns it has   *)
(* NULL in: a column added later is NULL in the rows that are there, unless*)
(* it has a default.                                                       *)
(***************************************************************************)
EXTENDS Naturals, Sequences

CONSTANTS
    Procs,      \* processes that open the file
    MaxCrashes, \* bound: processes that die while they open it
    MaxReports  \* bound: reports ingested

ASSUME MigrateAssumption == MaxCrashes \in Nat /\ MaxReports \in Nat

VARIABLES
    tables,     \* the tables of the file
    columns,    \* the columns of reports that came later
    rows,       \* the reports: the set of columns each has NULL in
    next,       \* the statement each process runs next
    opened,     \* processes whose Open has returned a Store
    crashes,    \* bounded by MaxCrashes
    ingested    \* bounded by MaxReports

vars == <<tables, columns, rows, next, opened, crashes, ingested>>

Tables == {"apps", "issues", "reports", "sessions"}

ThreadColumns == {"thread_id", "thread_name", "thread_priority", "thread_group"}

\* NOT NULL DEFAULT 0.
HasDefault == {"thread_id", "thread_priority"}

Create(table) == [op |-> "create", name |-> table]
Add(column)   == [op |-> "add", name |-> column]

\* migrate, in order; the indexes are left out.
Statements ==
    <<Create("apps"), Create("issues"), Create("reports"), Create("sessions"),
      Add("thread_id"), Add("thread_name"), Add("thread_priority"), Add("thread_group")>>

\* A new file, or one of the old version with some reports in it, none of them
\* with a NULL: the old program stored strings.
Init ==
    /\ \/ tables = {} /\ rows = <<>>
       \/ tables = Tables /\ \E n \in 0..1 : rows = [i \in 1..n |-> {}]
    /\ columns = {}
    /\ next = [p \in Procs |-> 1]
    /\ opened = {}
    /\ crashes = 0
    /\ ingested = 0

Opening(p) == p \notin opened /\ next[p] <= Len(Statements)

\* CREATE TABLE IF NOT EXISTS; the reports table is made with all its columns.
CreateTable(p) ==
    LET s == Statements[next[p]] IN
    /\ Opening(p)
    /\ s.op = "create"
    /\ tables' = tables \cup {s.name}
    /\ columns' = IF s.name = "reports" /\ s.name \notin tables THEN ThreadColumns ELSE columns
    /\ next' = [next EXCEPT ![p] = @ + 1]
    /\ UNCHANGED <<rows, opened, crashes, ingested>>

\* Mutants of AddColumn: one thread column is taken to mean that all are there; a
\* duplicate column is an error.
AddColumnIfNone(p) ==
    LET s == Statements[next[p]] IN
    /\ Opening(p)
    /\ s.op = "add"
    /\ "reports" \in tables
    /\ \/ /\ s.name = "thread_id" /\ s.name \in columns
          /\ next' = [next EXCEPT ![p] = Len(Statements) + 1]
          /\ UNCHANGED columns
       \/ /\ s.name # "thread_id" \/ s.name \notin columns
          /\ next' = [next EXCEPT ![p] = @ + 1]
          /\ columns' = columns \cup {s.name}
    /\ UNCHANGED <<tables, rows, opened, crashes, ingested>>

AddColumnOnce(p) ==
    LET s == Statements[next[p]] IN
    /\ Opening(p)
    /\ s.op = "add"
    /\ s.name \notin columns
    /\ columns' = columns \cup {s.name}
    /\ rows' = [i \in DOMAIN rows |-> rows[i] \cup ({s.name} \ HasDefault)]
    /\ next' = [next EXCEPT ![p] = @ + 1]
    /\ UNCHANGED <<tables, opened, crashes, ingested>>

\* ALTER TABLE reports ADD COLUMN; a duplicate column is no error, a missing
\* table is one, and the process would stop there.
AddColumn(p) ==
    LET s == Statements[next[p]] IN
    /\ Opening(p)
    /\ s.op = "add"
    /\ "reports" \in tables
    /\ IF s.name \in columns
       THEN UNCHANGED <<columns, rows>>
       ELSE /\ columns' = columns \cup {s.name}
            /\ rows' = [i \in DOMAIN rows |-> rows[i] \cup ({s.name} \ HasDefault)]
    /\ next' = [next EXCEPT ![p] = @ + 1]
    /\ UNCHANGED <<tables, opened, crashes, ingested>>

\* Open returns the Store.
Open(p) ==
    /\ p \notin opened
    /\ next[p] > Len(Statements)
    /\ opened' = opened \cup {p}
    /\ UNCHANGED <<tables, columns, rows, next, crashes, ingested>>

\* The process dies, or gives up because the file is locked for too long, and is
\* started again; or it dies after it has opened the file.
Crash(p) ==
    /\ next[p] > 1
    /\ crashes < MaxCrashes
    /\ crashes' = crashes + 1
    /\ opened' = opened \ {p}
    /\ next' = [next EXCEPT ![p] = 1]
    /\ UNCHANGED <<tables, columns, rows, ingested>>

\* IngestReport's INSERT names the thread columns and gives each a value; it
\* fails if one of them is not there.
Ingest(p) ==
    /\ p \in opened
    /\ ingested < MaxReports
    /\ tables = Tables /\ columns = ThreadColumns
    /\ ingested' = ingested + 1
    /\ rows' = Append(rows, {})
    /\ UNCHANGED <<tables, columns, next, opened, crashes>>

\* Store.Close, by a process that has done its work.
Close(p) ==
    /\ p \in opened
    /\ opened' = opened \ {p}
    /\ next' = [next EXCEPT ![p] = 1]
    /\ UNCHANGED <<tables, columns, rows, crashes, ingested>>

Step(p) == CreateTable(p) \/ AddColumn(p) \/ Open(p)

Next == \E p \in Procs : Step(p) \/ Crash(p) \/ Ingest(p) \/ Close(p)

Spec == Init /\ [][Next]_vars

-----------------------------------------------------------------------------
\* The type of the state.
TypeOK ==
    /\ tables \subseteq Tables
    /\ columns \subseteq ThreadColumns
    /\ rows \in Seq(SUBSET ThreadColumns)
    /\ next \in [Procs -> 1..(Len(Statements) + 1)]
    /\ opened \subseteq Procs
    /\ crashes \in 0..MaxCrashes /\ ingested \in 0..MaxReports

\* A Store has the whole schema behind it: whichever other openers have died
\* half way or are half way now, no statement of the store can miss a table or
\* a column.
OpenedMeansMigrated ==
    opened # {} => tables = Tables /\ columns = ThreadColumns

\* Opening succeeds in the end, on a new file, an old one or one left half way,
\* however many processes open it at once: who has begun gets a Store, or dies.
AllOpen ==
    \A p \in Procs : (Opening(p) /\ next[p] > 1) ~> (p \in opened \/ next[p] = 1)

-----------------------------------------------------------------------------
(* What the documentation promises and the code does not keep *)

\* scanReport reads every column into a Go value that cannot hold NULL.
Readable(row) == row = {}

\* "Old rows stay readable" (migrate_test.go:44): reports of the old version
\* can be listed and shown by the new one.
OldRowsStayReadable ==
    opened # {} => \A i \in DOMAIN rows : Readable(rows[i])

=============================================================================
