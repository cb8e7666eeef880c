----------------------------- MODULE CrashStore -----------------------------
(***************************************************************************)
(* What internal/store promises to its callers: a database on which each   *)
(* exported operation is one atomic step.  One process with one connection *)
(* (SetMaxOpenConns(1)) gives this; that it survives the interleaving of   *)
(* request handlers, crashes and retries is what IngestServer shows.       *)
(*                                                                         *)
(* The operations that fail (a name that is taken, an id that is gone, a   *)
(* report that is already stored) leave the database alone: they are       *)
(* stuttering steps here.                                                  *)
(***************************************************************************)
EXTENDS StoreTables

CONSTANTS
    Names,      \* application names
    Keys,       \* API keys
    Rids,       \* REPORT_IDs
    Hashes,     \* STACK_TRACE_HASHes
    Times       \* values of received_at: any order, see IngestServer

ASSUME TimesAssumption == Times \subseteq Nat

VARIABLES
    db,         \* the tables
    issued      \* the API keys that have ever been minted

storeVars == <<db, issued>>

Statuses == {"open", "resolved"}

AppRow    == [id : Rowids, name : Names, key : Keys]
IssueRow  == [id : Rowids, app : Rowids, hash : Hashes, title : Rids,
              status : Statuses, first : Times, last : Times]
ReportRow == [id : Rids, app : Rowids, issue : Rowids, hash : Hashes, at : Times]

\* The type of the state.
StoreTypeOK ==
    /\ db \in [apps : SUBSET AppRow, issues : SUBSET IssueRow, reports : SUBSET ReportRow]
    /\ issued \subseteq Keys

StoreInit ==
    /\ db = EmptyDb
    /\ issued = {}

\* keygen.NewAPIKey draws 32 random bytes: a key never repeats.
Create(name, key) ==
    /\ key \notin issued
    /\ ~NameTaken(db, name)
    /\ HasRoom(db.apps)
    /\ db' = CreateApp(db, name, key)
    /\ issued' = issued \cup {key}

Rotate(app, key) ==
    /\ key \notin issued
    /\ AppExists(db, app)
    /\ db' = RotateAppKey(db, app, key)
    /\ issued' = issued \cup {key}

RemoveApp(app) ==
    /\ db' = DeleteApp(db, app)
    /\ UNCHANGED issued

\* Mutants of Ingest: the duplicate is found only by INSERT OR IGNORE, and the
\* upsert is committed; no duplicate is found at all; INSERT OR REPLACE.
IngestUpsertsFirst(rid, app, hash, at) ==
    /\ AppExists(db, app)
    /\ HasIssueRoom(db, app, hash)
    /\ db' = IF Stored(db, rid)
             THEN [db EXCEPT !.issues = UpsertIssue(@, rid, app, hash, at)]
             ELSE IngestReport(db, rid, app, hash, at)
    /\ UNCHANGED issued

IngestUnchecked(rid, app, hash, at) ==
    /\ AppExists(db, app)
    /\ HasIssueRoom(db, app, hash)
    /\ db' = IngestReport(db, rid, app, hash, at)
    /\ UNCHANGED issued

IngestReplaces(rid, app, hash, at) ==
    /\ AppExists(db, app)
    /\ HasIssueRoom(db, app, hash)
    /\ db' = IngestReport([db EXCEPT !.reports = {r \in @ : r.id # rid}], rid, app, hash, at)
    /\ UNCHANGED issued

\* Refused by the foreign key on issues.app_id when the app is gone.
Ingest(rid, app, hash, at) ==
    /\ ~Stored(db, rid)
    /\ AppExists(db, app)
    /\ HasIssueRoom(db, app, hash)
    /\ db' = IngestReport(db, rid, app, hash, at)
    /\ UNCHANGED issued

MarkIssue(app, issue, status) ==
    /\ IssueExists(db, app, issue)
    /\ db' = SetIssueStatus(db, app, issue, status)
    /\ UNCHANGED issued

RemoveIssue(app, issue) ==
    /\ IssueExists(db, app, issue)
    /\ db' = DeleteIssue(db, app, issue)
    /\ UNCHANGED issued

RemoveReport(app, rid) ==
    /\ ReportExists(db, app, rid)
    /\ db' = DeleteReport(db, app, rid)
    /\ UNCHANGED issued

StoreNext ==
    \/ \E name \in Names, key \in Keys : Create(name, key)
    \/ \E app \in Rowids, key \in Keys : Rotate(app, key)
    \/ \E app \in Rowids : RemoveApp(app)
    \/ \E rid \in Rids, app \in Rowids, hash \in Hashes, at \in Times :
          Ingest(rid, app, hash, at)
    \/ \E app, issue \in Rowids, status \in Statuses : MarkIssue(app, issue, status)
    \/ \E app, issue \in Rowids : RemoveIssue(app, issue)
    \/ \E app \in Rowids, rid \in Rids : RemoveReport(app, rid)

StoreSpec == StoreInit /\ [][StoreNext]_storeVars

-----------------------------------------------------------------------------
(* The schema: keys that identify, references that resolve *)

\* No two rows of a table share an identity.
Unique(rows) == \A r, s \in rows : r.id = s.id => r = s

UniqueIds == Unique(db.apps) /\ Unique(db.issues) /\ Unique(db.reports)

UniqueNames == \A a, b \in db.apps : a.name = b.name => a = b

\* GetAppByKeyHash takes the first row its query returns: it is the only one,
\* although apps.api_key_hash carries no UNIQUE constraint.  A key in use has
\* been minted.
UniqueKeys ==
    /\ \A a, b \in db.apps : a.key = b.key => a = b
    /\ \A a \in db.apps : a.key \in issued

\* One issue for a stack trace of an app: "same bug = one issue" (README).
OneIssuePerTrace ==
    \A i, j \in db.issues : i.app = j.app /\ i.hash = j.hash => i = j

IssuesHaveApps == \A i \in db.issues : AppExists(db, i.app)

\* A report hangs off an issue of its own app and of its own stack trace,
\* whatever has been deleted and whichever rowids have been given out again.
ReportsHaveIssues ==
    \A r \in db.reports :
        \E i \in db.issues : i.id = r.issue /\ i.app = r.app /\ i.hash = r.hash

\* Every identity the schema declares and every reference it declares holds:
\* what the cascades, the upsert and the reuse of rowids must keep together.
Integrity ==
    /\ UniqueIds
    /\ UniqueNames
    /\ UniqueKeys
    /\ OneIssuePerTrace
    /\ IssuesHaveApps
    /\ ReportsHaveIssues

-----------------------------------------------------------------------------
(* What a step may never do *)

NewReports == db'.reports \ db.reports

\* An issue's first_seen_at is fixed at its birth, and its last_seen_at moves
\* only to the received_at of a report that the same step stores under it: a
\* duplicate must not touch it (ingest_test.go:74), nor may a deletion or a
\* change of status.
SeenMovesWithReports ==
    [][\A i \in db.issues, j \in db'.issues :
          i.id = j.id =>
             /\ j.app = i.app /\ j.hash = i.hash /\ j.first = i.first
             /\ j.last # i.last =>
                   \E r \in NewReports : r.issue = j.id /\ r.at = j.last]_storeVars

\* An issue goes from resolved to open only by the admin (who changes nothing
\* else) or by a new report of it, and a stored report always leaves its issue
\* open: a resolved bug that is seen again is not missed.
NewReportReopens ==
    [][/\ \A r \in NewReports :
             \A j \in db'.issues : j.id = r.issue => j.status = "open" /\ j.last = r.at
       /\ \A i \in db.issues, j \in db'.issues :
             /\ i.id = j.id
             /\ i.status = "resolved" /\ j.status = "open"
             => (\E r \in NewReports : r.issue = i.id) \/ db'.reports = db.reports]_storeVars

\* An issue is never born without a report: the dashboard's issue lists JOIN
\* reports, so an empty one could not be seen, only counted.  Only the
\* deletion of a report can empty an issue.
EmptiedOnlyByReportDeletion ==
    [][\A j \in db'.issues :
          (~ \E r \in db'.reports : r.issue = j.id)
             => \/ \E i \in db.issues : i.id = j.id /\ ~ \E r \in db.reports : r.issue = i.id
                \/ \E r \in db.reports : db'.reports = db.reports \ {r} /\ r.issue = j.id]_storeVars

=============================================================================
