----------------------------- MODULE WalIngest -----------------------------
(***************************************************************************)
(* IngestReport statement by statement, in several processes that have the *)
(* same database file open: the server, and "faulthub seed" beside it.     *)
(* Each process has one connection, so its own operations follow each      *)
(* other; those of different processes interleave.                         *)
(*                                                                         *)
(* The file is an SQLite database in WAL mode (external; modelled from the *)
(* statements the store runs).  BEGIN takes no lock.  The first SELECT     *)
(* takes a snapshot.  The first INSERT asks for the one write lock: it     *)
(* fails at once with SQLITE_BUSY_SNAPSHOT if somebody has committed since *)
(* the snapshot, and after the busy timeout if the lock is not released.   *)
(* A process that dies loses its lock and its uncommitted changes.         *)
(***************************************************************************)
EXTENDS CrashStore

CONSTANTS
    Procs,          \* processes with the database open
    NoProc,         \* nobody holds the write lock
    MaxCalls        \* bound: operations begun

ASSUME WalIngestAssumption ==
    /\ NoProc \notin Procs
    /\ MaxCalls \in Nat

VARIABLES
    ver,        \* number of transactions committed
    writer,     \* the process that holds the write lock
    tx,         \* each process's call of IngestReport
    calls       \* bounded by MaxCalls

vars == <<db, issued, ver, writer, tx, calls>>

\* The arguments of a call: *Report.
Args == [id : Rids, app : Rowids, hash : Hashes, at : Times]

Db == [apps : SUBSET AppRow, issues : SUBSET IssueRow, reports : SUBSET ReportRow]

\* A call: where it is, what it was given, the snapshot and its version, and
\* the changes it has made so far; of a call that is over, its result.
Begun(args)         == [pc |-> "select", args |-> args]
HasRead(t, d, v)    == [pc |-> "upsert", args |-> t.args, snap |-> d, ver |-> v, work |-> d]
Wrote(t, pc, d)     == [pc |-> pc, args |-> t.args, snap |-> t.snap, ver |-> t.ver, work |-> d]
Returned(result)    == [pc |-> result]

Results == {"none", "inserted", "duplicate", "error", "crashed"}

Tx == [pc : Results]
      \cup [pc : {"select"}, args : Args]
      \cup [pc : {"upsert", "insert", "commit"}, args : Args, snap : Db, ver : Nat, work : Db]

InTx(p) == tx[p].pc \in {"select", "upsert", "insert", "commit"}

Init ==
    /\ StoreInit
    /\ ver = 0
    /\ writer = NoProc
    /\ tx = [p \in Procs |-> Returned("none")]
    /\ calls = 0

Become(p, t) == tx' = [tx EXCEPT ![p] = t]

Call == calls < MaxCalls /\ calls' = calls + 1

\* BeginTx: deferred.
Begin(p, args) ==
    /\ ~InTx(p)
    /\ Call
    /\ Become(p, Begun(args))
    /\ UNCHANGED <<db, issued, ver, writer>>

\* SELECT COUNT(1) FROM reports: the transaction sees what is committed now,
\* from here to its end.  A report that is there ends the call.
Select(p) ==
    /\ tx[p].pc = "select"
    /\ IF Stored(db, tx[p].args.id)
       THEN Become(p, Returned("duplicate"))
       ELSE Become(p, HasRead(tx[p], db, ver))
    /\ UNCHANGED <<db, issued, ver, writer, calls>>

\* Mutant of Upsert: a stale snapshot may write.
UpsertStale(p) ==
    LET t == tx[p]  a == t.args IN
    /\ t.pc = "upsert"
    /\ writer = NoProc
    /\ AppExists(t.work, a.app)
    /\ HasIssueRoom(t.work, a.app, a.hash)
    /\ writer' = p
    /\ Become(p, Wrote(t, "insert",
          [t.work EXCEPT !.issues = UpsertIssue(@, a.id, a.app, a.hash, a.at)]))
    /\ UNCHANGED <<db, issued, ver, calls>>

\* INSERT INTO issues: the lock is free and the snapshot is the newest state.
\* The foreign key refuses an app that is gone.
Upsert(p) ==
    LET t == tx[p]  a == t.args IN
    /\ t.pc = "upsert"
    /\ writer = NoProc
    /\ t.ver = ver
    /\ IF AppExists(t.work, a.app)
       THEN /\ HasIssueRoom(t.work, a.app, a.hash)
            /\ writer' = p
            /\ Become(p, Wrote(t, "insert",
                  [t.work EXCEPT !.issues = UpsertIssue(@, a.id, a.app, a.hash, a.at)]))
       ELSE /\ Become(p, Returned("error"))
            /\ UNCHANGED writer
    /\ UNCHANGED <<db, issued, ver, calls>>

\* Mutants of UpsertFails: any failure is taken for a duplicate; a stale
\* snapshot waits, as for the lock.
UpsertFailsAsDuplicate(p) ==
    /\ tx[p].pc = "upsert"
    /\ tx[p].ver # ver \/ writer # NoProc
    /\ Become(p, Returned("duplicate"))
    /\ UNCHANGED <<db, issued, ver, writer, calls>>

UpsertFailsOnLock(p) ==
    /\ tx[p].pc = "upsert"
    /\ writer # NoProc
    /\ Become(p, Returned("error"))
    /\ UNCHANGED <<db, issued, ver, writer, calls>>

\* SQLITE_BUSY_SNAPSHOT, or SQLITE_BUSY after the timeout.
UpsertFails(p) ==
    /\ tx[p].pc = "upsert"
    /\ tx[p].ver # ver \/ writer # NoProc
    /\ Become(p, Returned("error"))
    /\ UNCHANGED <<db, issued, ver, writer, calls>>

\* INSERT OR IGNORE INTO reports under the issue that the upsert returned; a
\* row that is ignored ends the call, and the upsert is rolled back with it.
Insert(p) ==
    LET t == tx[p]  a == t.args IN
    /\ t.pc = "insert"
    /\ IF Stored(t.work, a.id)
       THEN /\ writer' = NoProc
            /\ Become(p, Returned("duplicate"))
       ELSE /\ Become(p, Wrote(t, "commit",
                  [t.work EXCEPT !.reports = @ \cup
                      {[id |-> a.id, app |-> a.app,
                        issue |-> UpsertedId(t.snap.issues, a.app, a.hash),
                        hash |-> a.hash, at |-> a.at]}]))
            /\ UNCHANGED writer
    /\ UNCHANGED <<db, issued, ver, calls>>

Commit(p) ==
    /\ tx[p].pc = "commit"
    /\ db' = tx[p].work
    /\ ver' = ver + 1
    /\ writer' = NoProc
    /\ Become(p, Returned("inserted"))
    /\ UNCHANGED <<issued, calls>>

\* The process dies in its call: whatever it has not committed is gone.
Crash(p) ==
    /\ InTx(p)
    /\ writer' = IF writer = p THEN NoProc ELSE writer
    /\ Become(p, Returned("crashed"))
    /\ UNCHANGED <<db, issued, ver, calls>>

\* Any other operation of a process is one statement: it waits for the lock
\* and then runs on the newest state.
Statement(p) ==
    /\ ~InTx(p)
    /\ writer = NoProc
    /\ Call
    /\ \/ \E name \in Names, key \in Keys : Create(name, key)
       \/ \E app \in Rowids, key \in Keys : Rotate(app, key)
       \/ \E app \in Rowids : AppExists(db, app) /\ RemoveApp(app)
       \/ \E app, issue \in Rowids, status \in Statuses : MarkIssue(app, issue, status)
       \/ \E app, issue \in Rowids : RemoveIssue(app, issue)
       \/ \E app \in Rowids, rid \in Rids : RemoveReport(app, rid)
    /\ ver' = ver + 1
    /\ UNCHANGED <<writer, tx>>

Advance(p) == Select(p) \/ Upsert(p) \/ UpsertFails(p) \/ Insert(p) \/ Commit(p)

Next ==
    \E p \in Procs :
        \/ \E args \in Args : Begin(p, args)
        \/ Advance(p)
        \/ Crash(p)
        \/ Statement(p)

Spec == Init /\ [][Next]_vars

\* A process that is not killed goes on.
FairSpec == Spec /\ \A p \in Procs : WF_vars(Advance(p))

-----------------------------------------------------------------------------
\* The type of the state.
TypeOK ==
    /\ StoreTypeOK
    /\ ver \in Nat
    /\ writer \in Procs \cup {NoProc}
    /\ tx \in [Procs -> Tx]
    /\ calls \in 0..MaxCalls

\* The transactions of all processes amount to the atomic operations of the
\* store: what is committed was computed from what it replaces.
ImplementsCrashStore == StoreSpec

\* What a call returns is true of the database at the moment it returns: an
\* inserted or duplicate report is there, and a call that returns an error, or
\* dies, has left nothing behind, not even an issue.
ResultsAreTrue ==
    [][\A p \in Procs :
          InTx(p) /\ ~InTx(p)' =>
             /\ tx'[p].pc = "inserted" =>
                   ~Stored(db, tx[p].args.id) /\ Stored(db', tx[p].args.id)
             /\ tx'[p].pc = "duplicate" => Stored(db, tx[p].args.id)
             /\ tx'[p].pc # "inserted" => db' = db]_vars

\* Every call returns: two processes that have both read before they write do
\* not wait for each other.
CallsReturn == \A p \in Procs : InTx(p) ~> ~InTx(p)

=============================================================================
