---------------------------- MODULE StoreTables ----------------------------
(***************************************************************************)
(* The tables of internal/store as a value, and one operator for each SQL  *)
(* statement (or transaction) that the package runs on them.               *)
(*                                                                         *)
(* A database is a record of three tables, each a set of rows:             *)
(*                                                                         *)
(*   apps     [id, name, key]                                              *)
(*   issues   [id, app, hash, title, status, first, last]                  *)
(*   reports  [id, app, issue, hash, at]                                   *)
(*                                                                         *)
(* "key" is api_key_hash (the hash is injective for what follows, so a key *)
(* and its hash are one value), "at" is received_at, "first" and "last"    *)
(* are first_seen_at and last_seen_at in whole seconds (fmtTime).  The     *)
(* "title" of an issue is the id of the report that it has its title from. *)
(* The descriptive columns of a report are left out: they are its id's,    *)
(* and what is decided by them is decided by the id (IssuePages).          *)
(*                                                                         *)
(* A set of rows, not a function from ids: that an id is unique is a       *)
(* property to be shown, as is that a foreign key finds its row.           *)
(***************************************************************************)
EXTENDS Integers

CONSTANT MaxRowid   \* bound on the rowids of apps and issues

ASSUME MaxRowidAssumption == MaxRowid \in Nat \ {0}

Rowids == 1..MaxRowid

EmptyDb == [apps |-> {}, issues |-> {}, reports |-> {}]

-----------------------------------------------------------------------------
(* Rowids.  "INTEGER PRIMARY KEY" without AUTOINCREMENT: a new row gets     *)
(* one more than the largest rowid in the table now, 1 in an empty table.  *)
(* The id of a deleted newest row is therefore given out again.            *)

IsNextRowid(rows, n) ==
    \/ rows = {} /\ n = 1
    \/ /\ \E r \in rows : n = r.id + 1
       /\ \A r \in rows : r.id < n

\* There is room under the bound for one more row.
HasRoom(rows) == \E n \in Rowids : IsNextRowid(rows, n)

NextRowid(rows) == CHOOSE n \in Rowids : IsNextRowid(rows, n)

-----------------------------------------------------------------------------
(* apps.go *)

\* GetAppByKeyHash: the rows the query selects; the code takes the first.
AppsByKey(db, key) == {a \in db.apps : a.key = key}

\* The UNIQUE constraint on apps.name.
NameTaken(db, name) == \E a \in db.apps : a.name = name

CreateApp(db, name, key) ==
    [db EXCEPT !.apps = @ \cup {[id |-> NextRowid(@), name |-> name, key |-> key]}]

RotateAppKey(db, app, key) ==
    [db EXCEPT !.apps = {IF a.id = app THEN [a EXCEPT !.key = key] ELSE a : a \in @}]

\* Mutant of DeleteApp: foreign_keys is off, nothing cascades.
DeleteAppAlone(db, app) == [db EXCEPT !.apps = {a \in @ : a.id # app}]

\* DELETE FROM apps, with ON DELETE CASCADE on issues.app_id and
\* reports.app_id, and from the deleted issues on to reports.issue_id.
DeleteApp(db, app) ==
    LET goneIssues == {i.id : i \in {j \in db.issues : j.app = app}}
    IN  [apps    |-> {a \in db.apps : a.id # app},
         issues  |-> {i \in db.issues : i.app # app},
         reports |-> {r \in db.reports : r.app # app /\ r.issue \notin goneIssues}]

-----------------------------------------------------------------------------
(* ingest.go *)

\* SELECT COUNT(1) FROM reports WHERE id = ?: over the reports of every app.
Stored(db, rid) == \E r \in db.reports : r.id = rid

AppExists(db, app) == \E a \in db.apps : a.id = app

\* The row that ON CONFLICT (app_id, stack_trace_hash) finds.
Conflicts(i, app, hash) == i.app = app /\ i.hash = hash

\* Mutants of Reopened: DO UPDATE sets first_seen_at too, or no status.
ReopenedAnew(i, rid, at) ==
    [i EXCEPT !.title = rid, !.first = at, !.last = at, !.status = "open"]
SeenAgain(i, rid, at)    == [i EXCEPT !.title = rid, !.last = at]

\* DO UPDATE SET: title = excluded.title, whatever the title was.
Reopened(i, rid, at) == [i EXCEPT !.title = rid, !.last = at, !.status = "open"]

\* INSERT INTO issues ... ON CONFLICT DO UPDATE: the issues after it.
UpsertIssue(issues, rid, app, hash, at) ==
    IF \E i \in issues : Conflicts(i, app, hash)
    THEN {IF Conflicts(i, app, hash) THEN Reopened(i, rid, at) ELSE i : i \in issues}
    ELSE issues \cup {[id |-> NextRowid(issues), app |-> app, hash |-> hash,
                       title |-> rid, status |-> "open", first |-> at, last |-> at]}

\* RETURNING id.
UpsertedId(issues, app, hash) ==
    IF \E i \in issues : Conflicts(i, app, hash)
    THEN (CHOOSE i \in issues : Conflicts(i, app, hash)).id
    ELSE NextRowid(issues)

\* The new issue, if there is one, fits under the bound.
HasIssueRoom(db, app, hash) ==
    (\E i \in db.issues : Conflicts(i, app, hash)) \/ HasRoom(db.issues)

\* The two INSERTs of IngestReport on the state that its SELECT saw.
IngestReport(db, rid, app, hash, at) ==
    [db EXCEPT
        !.issues  = UpsertIssue(@, rid, app, hash, at),
        !.reports = @ \cup {[id |-> rid, app |-> app,
                             issue |-> UpsertedId(db.issues, app, hash),
                             hash |-> hash, at |-> at]}]

-----------------------------------------------------------------------------
(* issues.go *)

IssueExists(db, app, issue) == \E i \in db.issues : i.id = issue /\ i.app = app

SetIssueStatus(db, app, issue, status) ==
    [db EXCEPT !.issues =
        {IF i.id = issue /\ i.app = app THEN [i EXCEPT !.status = status] ELSE i : i \in @}]

\* DELETE FROM issues, with ON DELETE CASCADE on reports.issue_id.
DeleteIssue(db, app, issue) ==
    LET gone == {i.id : i \in {j \in db.issues : j.id = issue /\ j.app = app}}
    IN  [db EXCEPT !.issues  = {i \in @ : i.id \notin gone},
                   !.reports = {r \in @ : r.issue \notin gone}]

ReportExists(db, app, rid) == \E r \in db.reports : r.id = rid /\ r.app = app

\* The issue stays, even when this was its last report.
DeleteReport(db, app, rid) ==
    [db EXCEPT !.reports = {r \in @ : ~(r.id = rid /\ r.app = app)}]

=============================================================================
