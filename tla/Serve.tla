------------------------------- MODULE Serve -------------------------------
(***************************************************************************)
(* The life of the server process (serve, cmd/faulthub/main.go): it opens  *)
(* the database, listens, and when it is told to stop it takes no new      *)
(* requests, gives those that are in ten seconds, and closes the database. *)
(* Beside it runs the backup command; and when everything has stopped, the *)
(* operator may put a backup in the place of the database (README.md:124). *)
(*                                                                         *)
(* Of SQLite's files two matter here: the database, and the WAL beside it. *)
(* Every commit goes to the WAL.  Who closes the database last, merges the *)
(* WAL into it and removes it (SQLite, external); who dies leaves it, and  *)
(* the next to open the database finds it there.                           *)
(***************************************************************************)
EXTENDS Backup

CONSTANTS
    Server,         \* the process that serves
    Conns,          \* connections
    Grace,          \* the ten seconds of the shutdown, in ticks
    MaxRestores     \* bound: restores

ASSUME ServeAssumption ==
    /\ Server \in Procs \ {Backuper}
    /\ Grace \in Nat \ {0} /\ MaxRestores \in Nat

VARIABLES
    phase,      \* of the server: "down", "serving" or "draining"
    request,    \* each connection: no request, its body comes in, or it is
                \* on the store's one connection
    waited,     \* ticks since the server was told to stop
    wal,        \* there is a WAL with something in it
    died,       \* a process has died since there was none (history)
    restores    \* bounded by MaxRestores

serveVars == <<backupVars, phase, request, waited, wal, died, restores>>

HasOpen(p) == p \in opened \/ next[p] > 1

Quiet == [c \in Conns |-> "none"]

Requests == {c \in Conns : request[c] # "none"}

InTransaction == {c \in Conns : request[c] = "store"}

ServeInit ==
    /\ BackupInit
    /\ phase = "down"
    /\ request = Quiet
    /\ waited = 0
    /\ wal = FALSE
    /\ died = FALSE
    /\ restores = 0

ServerIsAsItWas == UNCHANGED <<phase, request, waited>>

\* A step in which a process has committed something, or nothing.
Commits ==
    /\ wal' = (wal \/ Changed)
    /\ UNCHANGED <<died, restores>>

\* A step in which p closes the database, and the last to do so merges the WAL.
Closes(p) ==
    LET last == \A q \in Procs \ {p} : ~HasOpen(q) IN
    /\ wal' = (wal /\ ~last)
    /\ died' = (died /\ ~last)
    /\ UNCHANGED restores

-----------------------------------------------------------------------------
(* serve *)

\* ListenAndServe.
Listen ==
    /\ Server \in opened
    /\ phase = "down"
    /\ phase' = "serving"
    /\ UNCHANGED <<backupVars, request, waited, wal, died, restores>>

Arrive(c) ==
    /\ phase = "serving"
    /\ request[c] = "none"
    /\ request' = [request EXCEPT ![c] = "body"]
    /\ UNCHANGED <<backupVars, phase, waited, wal, died, restores>>

\* The body has come in, and the connection is free.  There is no ReadTimeout:
\* a body may never come in.
BeginTransaction(c) ==
    /\ request[c] = "body"
    /\ InTransaction = {}
    /\ request' = [request EXCEPT ![c] = "store"]
    /\ UNCHANGED <<backupVars, phase, waited, wal, died, restores>>

\* The report is stored and the request answered.
Answer(c) ==
    /\ request[c] = "store"
    /\ Ingest(Server) \/ UNCHANGED vars
    /\ request' = [request EXCEPT ![c] = "none"]
    /\ UNCHANGED <<commandVars, phase, waited>>
    /\ Commits

\* SIGTERM or an interrupt.
Signal ==
    /\ phase = "serving"
    /\ phase' = "draining"
    /\ waited' = 0
    /\ UNCHANGED <<backupVars, request, wal, died, restores>>

Tick ==
    /\ phase = "draining"
    /\ waited < Grace
    /\ waited' = waited + 1
    /\ UNCHANGED <<backupVars, phase, request, wal, died, restores>>

\* serve returns: the store is closed, and the process is gone.
Returns ==
    /\ Close(Server)
    /\ phase' = "down"
    /\ request' = Quiet
    /\ waited' = 0
    /\ UNCHANGED commandVars

\* Mutant of Drained: the process exits without the deferred calls.
DrainedByExit ==
    /\ phase = "draining"
    /\ Requests = {}
    /\ Returns
    /\ UNCHANGED <<wal, died, restores>>

\* Shutdown returns when the last request has been answered.
Drained ==
    /\ phase = "draining"
    /\ Requests = {}
    /\ Returns
    /\ Closes(Server)

\* Mutant of GiveUp: Shutdown has no deadline.
GiveUpNever ==
    /\ phase = "draining"
    /\ Requests = {} /\ waited = Grace
    /\ Returns
    /\ Closes(Server)

\* The ten seconds are over.  Close does not wait for a transaction that runs
\* (database/sql, external): the process ends with the database open, as if it
\* had died.
GiveUp ==
    /\ phase = "draining"
    /\ Requests # {}
    /\ waited = Grace
    /\ Returns
    /\ IF InTransaction = {} THEN Closes(Server)
       ELSE died' = TRUE /\ UNCHANGED <<wal, restores>>

\* The process dies, or cannot listen on its address (log.Fatal runs no
\* deferred call), or is killed: docker's own ten seconds may be over first.
ServerCrash ==
    /\ Crash(Server)
    /\ phase' = "down"
    /\ request' = Quiet
    /\ waited' = 0
    /\ died' = TRUE
    /\ UNCHANGED <<commandVars, wal, restores>>

-----------------------------------------------------------------------------
(* The other processes, and the operator *)

OpenDatabase(p) == OpeningStep(p) /\ Commits /\ ServerIsAsItWas

RunBackup ==
    /\ Command
    /\ IF Backuper \in opened' THEN Commits ELSE Closes(Backuper)
    /\ ServerIsAsItWas

CrashBackup ==
    /\ BackupCrash
    /\ died' = TRUE
    /\ UNCHANGED <<wal, restores>>
    /\ ServerIsAsItWas

MoveBackup == Rotate /\ UNCHANGED <<wal, died, restores>> /\ ServerIsAsItWas

\* "docker compose down, replacing /data/faulthub.db with the backup": the
\* operator takes a finished one.  A WAL that is still there is applied to the
\* new file when it is opened, as if it were its own; what then becomes of it
\* is anybody's guess, and here the old pages win.
Restore ==
    /\ \A p \in Procs : ~HasOpen(p)
    /\ restores < MaxRestores
    /\ restores' = restores + 1
    /\ dest # Absent /\ Uncopied = {}
    /\ IF wal THEN UNCHANGED <<tables, columns, rows>>
       ELSE /\ tables' = Tables
            /\ columns' = dest["reports"].columns
            /\ rows' = dest["reports"].rows
    /\ UNCHANGED <<next, opened, crashes, ingested, commandVars, wal, died>>
    /\ ServerIsAsItWas

Drain == Tick \/ Drained \/ GiveUp

ServeNext ==
    \/ \E p \in Procs : OpenDatabase(p)
    \/ Listen \/ Signal \/ Drain \/ ServerCrash
    \/ \E c \in Conns : Arrive(c) \/ BeginTransaction(c) \/ Answer(c)
    \/ RunBackup \/ CrashBackup \/ MoveBackup \/ Restore

ServeSpec == ServeInit /\ [][ServeNext]_serveVars

\* A process that does not die goes on with what it does by itself: the
\* statements of Open, and the shutdown, whose deadline is a timer.  Nothing is
\* assumed of the requests: a body may be held back for ever.
ServeFairSpec ==
    /\ ServeSpec
    /\ \A p \in Procs : WF_serveVars(OpenDatabase(p))
    /\ WF_serveVars(Drain)

-----------------------------------------------------------------------------
\* What a row has is still there after a step, and no row is lost.
RowsSurvive ==
    /\ Len(rows) <= Len(rows')
    /\ \A i \in DOMAIN rows : rows'[i] \ rows[i] \subseteq columns' \ columns

\* No step of an upgrade, a backup, a shutdown or a crash loses or changes a
\* report that is there, but for the columns it adds.  Only a restore does:
\* it makes the database the backup, exactly, unless a process has died with the
\* database open, and nobody has closed it since.
ReportsSurvive ==
    [][IF restores' = restores THEN RowsSurvive
       ELSE died \/ Copied(Tables, Content)' = dest]_serveVars

\* A server that is told to stop, stops, whatever its clients do: a body that
\* never comes in does not hold it up.
ServeEnds == phase = "draining" ~> phase = "down"

=============================================================================
