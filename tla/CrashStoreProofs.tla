-------------------------- MODULE CrashStoreProofs --------------------------
(***************************************************************************)
(* The schema of the store holds in every reachable state, for every set   *)
(* of names, keys, reports, traces and times: StoreTypeOK and Integrity    *)
(* are inductive together, and each action is shown to preserve them in a  *)
(* lemma of its own.  What a step may never do to an issue follows from    *)
(* where the issues and the reports after the step come from.              *)
(***************************************************************************)
EXTENDS CrashStore, TLAPS

\* A rowid that the table hands out is under the bound and not in use.
LEMMA NextRowidIsFresh ==
    ASSUME NEW rows, HasRoom(rows), \A r \in rows : r.id \in Rowids
    PROVE  /\ NextRowid(rows) \in Rowids
           /\ \A r \in rows : r.id # NextRowid(rows)
<1>1. IsNextRowid(rows, NextRowid(rows)) /\ NextRowid(rows) \in Rowids
  BY DEF HasRoom, NextRowid
<1>2. \A r \in rows : r.id < NextRowid(rows)
  BY <1>1 DEF IsNextRowid
<1> QED
  BY <1>1, <1>2, MaxRowidAssumption DEF Rowids

\* Creating an app: its rowid, its name and its key are new.
LEMMA CreateKeeps ==
    ASSUME StoreTypeOK, Integrity, NEW name \in Names, NEW key \in Keys, Create(name, key)
    PROVE  StoreTypeOK' /\ Integrity'
<1> DEFINE row == [id |-> NextRowid(db.apps), name |-> name, key |-> key]
<1>1. db'.apps = db.apps \cup {row} /\ db'.issues = db.issues /\ db'.reports = db.reports
  BY DEF Create, CreateApp, StoreTypeOK
<1>2. db' \in [apps : SUBSET AppRow, issues : SUBSET IssueRow, reports : SUBSET ReportRow]
      /\ row \in AppRow /\ \A a \in db.apps : a.id # row.id
  BY <1>1, NextRowidIsFresh DEF Create, CreateApp, StoreTypeOK, AppRow
<1>3. StoreTypeOK'
  BY <1>2 DEF Create, StoreTypeOK
<1>4. Integrity'
  <2>1. UniqueIds'
    BY <1>1, <1>2 DEF Integrity, UniqueIds, Unique
  <2>2. UniqueNames'
    BY <1>1 DEF Integrity, UniqueNames, Create, NameTaken
  <2>3. UniqueKeys'
    BY <1>1 DEF Integrity, UniqueKeys, Create
  <2>4. OneIssuePerTrace' /\ IssuesHaveApps' /\ ReportsHaveIssues'
    BY <1>1 DEF Integrity, OneIssuePerTrace, IssuesHaveApps, ReportsHaveIssues, AppExists
  <2> QED
    BY <2>1, <2>2, <2>3, <2>4 DEF Integrity
<1> QED
  BY <1>3, <1>4

\* Rotating a key changes no identity but the key, and the key is new.
LEMMA RotateKeeps ==
    ASSUME StoreTypeOK, Integrity, NEW app \in Rowids, NEW key \in Keys, Rotate(app, key)
    PROVE  StoreTypeOK' /\ Integrity'
<1> DEFINE Rekeyed(a) == IF a.id = app THEN [a EXCEPT !.key = key] ELSE a
<1>1. /\ db' \in [apps : SUBSET AppRow, issues : SUBSET IssueRow, reports : SUBSET ReportRow]
      /\ db'.apps = {Rekeyed(a) : a \in db.apps}
      /\ db'.issues = db.issues /\ db'.reports = db.reports
  BY DEF Rotate, RotateAppKey, StoreTypeOK, AppRow
<1>2. \A a \in db.apps : /\ Rekeyed(a).id = a.id
                         /\ Rekeyed(a).name = a.name
                         /\ Rekeyed(a).key = IF a.id = app THEN key ELSE a.key
  BY DEF StoreTypeOK, AppRow
<1>3. StoreTypeOK'
  BY <1>1 DEF StoreTypeOK, Rotate
<1> HIDE DEF Rekeyed
<1>4. Integrity'
  <2>1. UniqueIds'
    BY <1>1, <1>2 DEF Integrity, UniqueIds, Unique
  <2>2. UniqueNames'
    BY <1>1, <1>2 DEF Integrity, UniqueNames
  <2>3. UniqueKeys'
    BY <1>1, <1>2 DEF Integrity, UniqueKeys, UniqueIds, Unique, Rotate
  <2>4. IssuesHaveApps'
    BY <1>1, <1>2 DEF Integrity, IssuesHaveApps, AppExists
  <2>5. OneIssuePerTrace' /\ ReportsHaveIssues'
    BY <1>1 DEF Integrity, OneIssuePerTrace, ReportsHaveIssues
  <2> QED
    BY <2>1, <2>2, <2>3, <2>4, <2>5 DEF Integrity
<1> QED
  BY <1>3, <1>4

\* A step that only takes rows away keeps the tables typed, and keeps
\* Integrity as soon as it leaves no reference dangling.
LEMMA RemovalKeeps ==
    ASSUME StoreTypeOK, Integrity, UNCHANGED issued,
           db' \in [apps : SUBSET db.apps, issues : SUBSET db.issues,
                    reports : SUBSET db.reports],
           IssuesHaveApps', ReportsHaveIssues'
    PROVE  StoreTypeOK' /\ Integrity'
<1>1. db'.apps \subseteq db.apps /\ db'.issues \subseteq db.issues
      /\ db'.reports \subseteq db.reports
  OBVIOUS
<1>2. StoreTypeOK'
  BY DEF StoreTypeOK
<1>3. UniqueIds' /\ UniqueNames' /\ UniqueKeys' /\ OneIssuePerTrace'
  BY <1>1 DEF Integrity, UniqueIds, Unique, UniqueNames, UniqueKeys, OneIssuePerTrace
<1> QED
  BY <1>2, <1>3 DEF Integrity

\* Deleting an app takes its issues and their reports with it: the issue of a
\* report that stays belongs to another app, and so stays too.
LEMMA RemoveAppKeeps ==
    ASSUME StoreTypeOK, Integrity, NEW app \in Rowids, RemoveApp(app)
    PROVE  StoreTypeOK' /\ Integrity'
<1>1. /\ db'.apps = {a \in db.apps : a.id # app}
      /\ db'.issues = {i \in db.issues : i.app # app}
      /\ db'.reports \subseteq {r \in db.reports : r.app # app}
      /\ db' \in [apps : SUBSET db.apps, issues : SUBSET db.issues,
                  reports : SUBSET db.reports]
  BY DEF RemoveApp, DeleteApp
<1>2. IssuesHaveApps'
  BY <1>1 DEF Integrity, IssuesHaveApps, AppExists
<1>3. ReportsHaveIssues'
  BY <1>1 DEF Integrity, ReportsHaveIssues
<1> QED
  BY <1>1, <1>2, <1>3, RemovalKeeps DEF RemoveApp

\* Deleting an issue takes its reports with it.
LEMMA RemoveIssueKeeps ==
    ASSUME StoreTypeOK, Integrity, NEW app \in Rowids, NEW issue \in Rowids,
           RemoveIssue(app, issue)
    PROVE  StoreTypeOK' /\ Integrity'
<1> DEFINE gone == {i.id : i \in {j \in db.issues : j.id = issue /\ j.app = app}}
<1>1. /\ db'.apps = db.apps
      /\ db'.issues = {i \in db.issues : i.id \notin gone}
      /\ db'.reports = {r \in db.reports : r.issue \notin gone}
      /\ db' \in [apps : SUBSET db.apps, issues : SUBSET db.issues,
                  reports : SUBSET db.reports]
  BY DEF RemoveIssue, DeleteIssue, StoreTypeOK
<1> HIDE DEF gone
<1>2. IssuesHaveApps'
  BY <1>1 DEF Integrity, IssuesHaveApps, AppExists
<1>3. ReportsHaveIssues'
  BY <1>1 DEF Integrity, ReportsHaveIssues
<1> QED
  BY <1>1, <1>2, <1>3, RemovalKeeps DEF RemoveIssue

\* Deleting a report leaves no reference behind: nothing refers to reports.
LEMMA RemoveReportKeeps ==
    ASSUME StoreTypeOK, Integrity, NEW app \in Rowids, NEW rid \in Rids,
           RemoveReport(app, rid)
    PROVE  StoreTypeOK' /\ Integrity'
<1>1. /\ db'.apps = db.apps /\ db'.issues = db.issues
      /\ db'.reports \subseteq db.reports
      /\ db' \in [apps : SUBSET db.apps, issues : SUBSET db.issues,
                  reports : SUBSET db.reports]
  BY DEF RemoveReport, DeleteReport, StoreTypeOK
<1>2. IssuesHaveApps' /\ ReportsHaveIssues'
  BY <1>1 DEF Integrity, IssuesHaveApps, AppExists, ReportsHaveIssues
<1> QED
  BY <1>1, <1>2, RemovalKeeps DEF RemoveReport

\* A change of status changes no identity and no reference.
LEMMA MarkIssueKeeps ==
    ASSUME StoreTypeOK, Integrity, NEW app \in Rowids, NEW issue \in Rowids,
           NEW status \in Statuses, MarkIssue(app, issue, status)
    PROVE  StoreTypeOK' /\ Integrity'
<1> DEFINE Marked(i) ==
        IF i.id = issue /\ i.app = app THEN [i EXCEPT !.status = status] ELSE i
<1>1. /\ db' \in [apps : SUBSET AppRow, issues : SUBSET IssueRow, reports : SUBSET ReportRow]
      /\ db'.issues = {Marked(i) : i \in db.issues}
      /\ db'.apps = db.apps /\ db'.reports = db.reports
  BY DEF MarkIssue, SetIssueStatus, StoreTypeOK, IssueRow, Statuses
<1>2. \A i \in db.issues : /\ Marked(i).id = i.id /\ Marked(i).app = i.app
                           /\ Marked(i).hash = i.hash
  BY DEF StoreTypeOK, IssueRow
<1>3. StoreTypeOK'
  BY <1>1 DEF StoreTypeOK, MarkIssue
<1> HIDE DEF Marked
<1>4. UniqueIds' /\ OneIssuePerTrace' /\ IssuesHaveApps' /\ ReportsHaveIssues'
  BY <1>1, <1>2 DEF Integrity, UniqueIds, Unique, OneIssuePerTrace, IssuesHaveApps,
                    AppExists, ReportsHaveIssues
<1>5. UniqueNames' /\ UniqueKeys'
  BY <1>1 DEF Integrity, UniqueNames, UniqueKeys, MarkIssue
<1> QED
  BY <1>3, <1>4, <1>5 DEF Integrity

\* What the upsert leaves behind: the same issues, one of them perhaps
\* reopened, or one more; and in both cases exactly one for the trace, the
\* one whose id it returns.
LEMMA UpsertKeepsIdentities ==
    ASSUME StoreTypeOK, Integrity, NEW rid \in Rids, NEW app \in Rowids, NEW hash \in Hashes,
           NEW at \in Times,
           HasIssueRoom(db, app, hash), AppExists(db, app)
    PROVE  LET issues == UpsertIssue(db.issues, rid, app, hash, at)
           IN  /\ issues \in SUBSET IssueRow
               /\ UpsertedId(db.issues, app, hash) \in Rowids
               /\ Unique(issues)
               /\ \A i, j \in issues : i.app = j.app /\ i.hash = j.hash => i = j
               /\ \A i \in issues : AppExists(db, i.app)
               /\ \A i \in db.issues :
                     \E j \in issues : j.id = i.id /\ j.app = i.app /\ j.hash = i.hash
               /\ \E j \in issues : /\ j.id = UpsertedId(db.issues, app, hash)
                                    /\ j.app = app /\ j.hash = hash
<1> DEFINE Up(i) == IF Conflicts(i, app, hash) THEN Reopened(i, rid, at) ELSE i
           issues == UpsertIssue(db.issues, rid, app, hash, at)
           row == [id |-> NextRowid(db.issues), app |-> app, hash |-> hash,
                   title |-> rid, status |-> "open", first |-> at, last |-> at]
<1>1. CASE \E i \in db.issues : Conflicts(i, app, hash)
  <2>1. issues = {Up(i) : i \in db.issues}
    BY <1>1 DEF UpsertIssue
  <2>2. \A i \in db.issues : /\ Up(i) \in IssueRow
                             /\ Up(i).id = i.id /\ Up(i).app = i.app /\ Up(i).hash = i.hash
    BY DEF StoreTypeOK, IssueRow, Reopened, Statuses
  <2>3. PICK c \in db.issues : Conflicts(c, app, hash) /\ UpsertedId(db.issues, app, hash) = c.id
    BY <1>1 DEF UpsertedId
  <2>4. c.id \in Rowids /\ c.app = app /\ c.hash = hash
    BY <2>3 DEF StoreTypeOK, IssueRow, Conflicts
  <2> HIDE DEF Up, issues
  <2> QED
    BY <2>1, <2>2, <2>3, <2>4
       DEF issues, Integrity, UniqueIds, Unique, OneIssuePerTrace, IssuesHaveApps
<1>2. CASE ~ \E i \in db.issues : Conflicts(i, app, hash)
  <2>1. issues = db.issues \cup {row} /\ UpsertedId(db.issues, app, hash) = row.id
    BY <1>2 DEF UpsertIssue, UpsertedId
  <2>2. HasRoom(db.issues) /\ \A i \in db.issues : i.id \in Rowids
    BY <1>2 DEF HasIssueRoom, StoreTypeOK, IssueRow
  <2>3. row \in IssueRow /\ \A i \in db.issues : i.id # row.id
    BY <2>2, NextRowidIsFresh DEF IssueRow, Statuses
  <2>4. row.id \in Rowids /\ row.app = app /\ row.hash = hash
    BY <2>3 DEF IssueRow
  <2> HIDE DEF row, issues
  <2> QED
    BY <1>2, <2>1, <2>3, <2>4
       DEF issues, Integrity, UniqueIds, Unique, OneIssuePerTrace, IssuesHaveApps, StoreTypeOK,
           Conflicts
<1> QED
  BY <1>1, <1>2

\* Ingesting a report: the upsert keeps the issues apart and the report refers
\* to the one it returns; the report's id is new.
LEMMA IngestKeeps ==
    ASSUME StoreTypeOK, Integrity, NEW rid \in Rids, NEW app \in Rowids, NEW hash \in Hashes,
           NEW at \in Times, Ingest(rid, app, hash, at)
    PROVE  StoreTypeOK' /\ Integrity'
<1> DEFINE row == [id |-> rid, app |-> app, issue |-> UpsertedId(db.issues, app, hash),
                   hash |-> hash, at |-> at]
           issues == UpsertIssue(db.issues, rid, app, hash, at)
<1>1. db' = [apps |-> db.apps, issues |-> issues, reports |-> db.reports \cup {row}]
  BY DEF Ingest, IngestReport, StoreTypeOK
<1>2. /\ issues \in SUBSET IssueRow
      /\ UpsertedId(db.issues, app, hash) \in Rowids
      /\ Unique(issues)
      /\ \A i, j \in issues : i.app = j.app /\ i.hash = j.hash => i = j
      /\ \A i \in issues : AppExists(db, i.app)
      /\ \A i \in db.issues :
            \E j \in issues : j.id = i.id /\ j.app = i.app /\ j.hash = i.hash
      /\ \E j \in issues : /\ j.id = UpsertedId(db.issues, app, hash)
                           /\ j.app = app /\ j.hash = hash
  BY UpsertKeepsIdentities DEF Ingest
<1>3. row \in ReportRow /\ \A r \in db.reports : r.id # row.id
  BY <1>2 DEF ReportRow, Ingest, Stored
<1>4. StoreTypeOK'
  BY <1>1, <1>2, <1>3 DEF StoreTypeOK, Ingest
<1>5. /\ row.issue = UpsertedId(db.issues, app, hash) /\ row.app = app /\ row.hash = hash
      /\ db'.apps = db.apps /\ db'.issues = issues /\ db'.reports = db.reports \cup {row}
  BY <1>1
<1> HIDE DEF row, issues
<1>6. UniqueIds' /\ UniqueNames' /\ UniqueKeys'
  BY <1>2, <1>3, <1>5 DEF Integrity, UniqueIds, Unique, UniqueNames, UniqueKeys, Ingest
<1>7. OneIssuePerTrace' /\ IssuesHaveApps'
  BY <1>2, <1>5 DEF OneIssuePerTrace, IssuesHaveApps, AppExists
<1>8. ReportsHaveIssues'
  BY <1>2, <1>5 DEF Integrity, ReportsHaveIssues
<1> QED
  BY <1>4, <1>6, <1>7, <1>8 DEF Integrity

\* One step of the store keeps the schema.
LEMMA StepKeeps ==
    ASSUME StoreTypeOK, Integrity, [StoreNext]_storeVars
    PROVE  StoreTypeOK' /\ Integrity'
<1>1. CASE \E name \in Names, key \in Keys : Create(name, key)
  BY <1>1, CreateKeeps
<1>2. CASE \E app \in Rowids, key \in Keys : Rotate(app, key)
  BY <1>2, RotateKeeps
<1>3. CASE \E app \in Rowids : RemoveApp(app)
  BY <1>3, RemoveAppKeeps
<1>4. CASE \E rid \in Rids, app \in Rowids, hash \in Hashes, at \in Times :
              Ingest(rid, app, hash, at)
  BY <1>4, IngestKeeps
<1>5. CASE \E app, issue \in Rowids, status \in Statuses : MarkIssue(app, issue, status)
  BY <1>5, MarkIssueKeeps
<1>6. CASE \E app, issue \in Rowids : RemoveIssue(app, issue)
  BY <1>6, RemoveIssueKeeps
<1>7. CASE \E app \in Rowids, rid \in Rids : RemoveReport(app, rid)
  BY <1>7, RemoveReportKeeps
<1>8. CASE UNCHANGED storeVars
  BY <1>8 DEF storeVars, StoreTypeOK, Integrity, UniqueIds, Unique, UniqueNames, UniqueKeys,
              OneIssuePerTrace, IssuesHaveApps, AppExists, ReportsHaveIssues
<1> QED
  BY <1>1, <1>2, <1>3, <1>4, <1>5, <1>6, <1>7, <1>8 DEF StoreNext

\* The empty database satisfies the schema.
LEMMA InitEstablishes ==
    ASSUME StoreInit
    PROVE  StoreTypeOK /\ Integrity
BY DEF StoreInit, EmptyDb, StoreTypeOK, Integrity, UniqueIds, Unique, UniqueNames, UniqueKeys,
       OneIssuePerTrace, IssuesHaveApps, ReportsHaveIssues

\* The two are inductive together.
LEMMA StoreInvHolds == StoreSpec => [](StoreTypeOK /\ Integrity)
<1>1. StoreInit => StoreTypeOK /\ Integrity
  BY InitEstablishes
<1>2. StoreTypeOK /\ Integrity /\ [StoreNext]_storeVars => (StoreTypeOK /\ Integrity)'
  BY StepKeeps
<1> QED
  BY <1>1, <1>2, PTL DEF StoreSpec

\* The tables stay typed: every rowid handed out is within the bound.
THEOREM StoreIsTyped == StoreSpec => []StoreTypeOK
BY StoreInvHolds, PTL

\* Every identity and every reference of the schema holds at all times,
\* whatever the order in which apps, issues and reports come and go.
THEOREM StoreIntegrity == StoreSpec => []Integrity
BY StoreInvHolds, PTL

-----------------------------------------------------------------------------
(* What a step may never do *)

\* The reports change by one that is ingested, or by deletions.
LEMMA ReportsChange ==
    ASSUME StoreTypeOK, [StoreNext]_storeVars
    PROVE  \/ \E rid \in Rids, app \in Rowids, hash \in Hashes, at \in Times :
                 Ingest(rid, app, hash, at)
           \/ db'.reports \subseteq db.reports
<1>1. CASE \E name \in Names, key \in Keys : Create(name, key)
  BY <1>1 DEF Create, CreateApp, StoreTypeOK
<1>2. CASE \E app \in Rowids, key \in Keys : Rotate(app, key)
  BY <1>2 DEF Rotate, RotateAppKey, StoreTypeOK
<1>3. CASE \E app \in Rowids : RemoveApp(app)
  BY <1>3 DEF RemoveApp, DeleteApp, StoreTypeOK
<1>4. CASE \E app, issue \in Rowids, status \in Statuses : MarkIssue(app, issue, status)
  BY <1>4 DEF MarkIssue, SetIssueStatus, StoreTypeOK
<1>5. CASE \E app, issue \in Rowids : RemoveIssue(app, issue)
  BY <1>5 DEF RemoveIssue, DeleteIssue, StoreTypeOK
<1>6. CASE \E app \in Rowids, rid \in Rids : RemoveReport(app, rid)
  BY <1>6 DEF RemoveReport, DeleteReport, StoreTypeOK
<1>7. CASE UNCHANGED storeVars
  BY <1>7 DEF storeVars
<1> QED
  BY <1>1, <1>2, <1>3, <1>4, <1>5, <1>6, <1>7 DEF StoreNext

\* What an ingest does to the tables.
LEMMA IngestEffect ==
    ASSUME StoreTypeOK, NEW rid \in Rids, NEW app \in Rowids, NEW hash \in Hashes,
           NEW at \in Times, Ingest(rid, app, hash, at)
    PROVE  \E row : /\ db'.reports = db.reports \cup {row}
                    /\ db'.issues = UpsertIssue(db.issues, rid, app, hash, at)
                    /\ db'.apps = db.apps
                    /\ row.id = rid /\ row.app = app /\ row.hash = hash /\ row.at = at
                    /\ row.issue = UpsertedId(db.issues, app, hash)
<1> DEFINE row == [id |-> rid, app |-> app, issue |-> UpsertedId(db.issues, app, hash),
                   hash |-> hash, at |-> at]
<1>1. db' = [apps |-> db.apps, issues |-> UpsertIssue(db.issues, rid, app, hash, at),
             reports |-> db.reports \cup {row}]
  BY DEF Ingest, IngestReport, StoreTypeOK
<1>2. /\ row.id = rid /\ row.app = app /\ row.hash = hash /\ row.at = at
      /\ row.issue = UpsertedId(db.issues, app, hash)
      /\ db'.reports = db.reports \cup {row} /\ db'.apps = db.apps
      /\ db'.issues = UpsertIssue(db.issues, rid, app, hash, at)
  BY <1>1
<1> HIDE DEF row
<1> QED
  BY <1>2

\* What the upsert does to an issue that is there: it stays as it is, or it is
\* the one whose id is returned, reopened at the report's date and with its title.
LEMMA UpsertEffect ==
    ASSUME StoreTypeOK, Integrity, NEW rid \in Rids, NEW app \in Rowids, NEW hash \in Hashes,
           NEW at \in Times,
           NEW k \in db.issues
    PROVE  \E j \in UpsertIssue(db.issues, rid, app, hash, at) :
              /\ j.id = k.id /\ j.app = k.app
              /\ \/ j = k
                 \/ j.status = "open" /\ j.last = at /\ j.title = rid
              /\ k.id # UpsertedId(db.issues, app, hash) => j = k
<1>1. k \in IssueRow
  BY DEF StoreTypeOK
<1>2. CASE Conflicts(k, app, hash)
  <2>1. Reopened(k, rid, at) \in UpsertIssue(db.issues, rid, app, hash, at)
    BY <1>2 DEF UpsertIssue
  <2>2. UpsertedId(db.issues, app, hash) = k.id
    BY <1>2 DEF UpsertedId, Conflicts, Integrity, OneIssuePerTrace
  <2>3. /\ Reopened(k, rid, at).id = k.id /\ Reopened(k, rid, at).app = k.app
        /\ Reopened(k, rid, at).status = "open" /\ Reopened(k, rid, at).last = at
        /\ Reopened(k, rid, at).title = rid
    BY <1>1 DEF Reopened, IssueRow
  <2> QED
    BY <2>1, <2>2, <2>3
<1>3. CASE ~Conflicts(k, app, hash)
  <2>1. k \in UpsertIssue(db.issues, rid, app, hash, at)
    BY <1>3 DEF UpsertIssue
  <2> QED
    BY <2>1
<1> QED
  BY <1>2, <1>3

\* Where an issue after an upsert comes from: it is new, with an id that no
\* issue had, or was there, and is changed only if its id is returned.
LEMMA UpsertOrigin ==
    ASSUME StoreTypeOK, Integrity, NEW rid \in Rids, NEW app \in Rowids, NEW hash \in Hashes,
           NEW at \in Times,
           HasIssueRoom(db, app, hash),
           NEW j \in UpsertIssue(db.issues, rid, app, hash, at)
    PROVE  /\ \/ /\ \A i \in db.issues : i.id # j.id
                 /\ j.id = UpsertedId(db.issues, app, hash)
              \/ \E i \in db.issues :
                    /\ i.id = j.id /\ i.app = j.app /\ i.hash = j.hash /\ i.first = j.first
                    /\ i = j \/ j.id = UpsertedId(db.issues, app, hash)
           /\ j.id = UpsertedId(db.issues, app, hash) => j.status = "open" /\ j.last = at
<1> DEFINE row == [id |-> NextRowid(db.issues), app |-> app, hash |-> hash,
                   title |-> rid, status |-> "open", first |-> at, last |-> at]
<1>1. CASE \E i \in db.issues : Conflicts(i, app, hash)
  <2>1. PICK c \in db.issues : Conflicts(c, app, hash) /\ UpsertedId(db.issues, app, hash) = c.id
    BY <1>1 DEF UpsertedId
  <2>2. \A i \in db.issues : Conflicts(i, app, hash) <=> i.id = c.id
    BY <2>1 DEF Conflicts, Integrity, OneIssuePerTrace, UniqueIds, Unique
  <2>3. PICK i \in db.issues : j = IF Conflicts(i, app, hash) THEN Reopened(i, rid, at) ELSE i
    BY <1>1 DEF UpsertIssue
  <2>4. i \in IssueRow
    BY DEF StoreTypeOK
  <2>5. CASE Conflicts(i, app, hash)
    <3>1. /\ j.id = i.id /\ j.app = i.app /\ j.hash = i.hash /\ j.first = i.first
          /\ j.status = "open" /\ j.last = at
      BY <2>3, <2>4, <2>5 DEF Reopened, IssueRow
    <3> QED
      BY <2>1, <2>2, <2>5, <3>1
  <2>6. CASE ~Conflicts(i, app, hash)
    <3>1. j = i /\ j.id # c.id
      BY <2>2, <2>3, <2>6
    <3> QED
      BY <2>1, <3>1
  <2> QED
    BY <2>5, <2>6
<1>2. CASE ~ \E i \in db.issues : Conflicts(i, app, hash)
  <2>1. /\ UpsertIssue(db.issues, rid, app, hash, at) = db.issues \cup {row}
        /\ UpsertedId(db.issues, app, hash) = row.id
    BY <1>2 DEF UpsertIssue, UpsertedId
  <2>2. \A i \in db.issues : i.id # row.id
    <3>1. HasRoom(db.issues) /\ \A i \in db.issues : i.id \in Rowids
      BY <1>2 DEF HasIssueRoom, StoreTypeOK, IssueRow
    <3> QED
      BY <3>1, NextRowidIsFresh
  <2>3. row.status = "open" /\ row.last = at
    OBVIOUS
  <2> HIDE DEF row
  <2>4. CASE j = row
    BY <2>1, <2>2, <2>3, <2>4
  <2>5. CASE j \in db.issues
    BY <2>1, <2>2, <2>5
  <2> QED
    BY <2>1, <2>4, <2>5
<1> QED
  BY <1>1, <1>2

\* A change of status touches nothing else.
LEMMA MarkKeepsIds ==
    ASSUME StoreTypeOK, NEW app \in Rowids, NEW issue \in Rowids, NEW status \in Statuses,
           MarkIssue(app, issue, status)
    PROVE  /\ db'.reports = db.reports
           /\ \A j \in db'.issues : \E i \in db.issues :
                 /\ i.id = j.id /\ i.app = j.app /\ i.hash = j.hash
                 /\ i.first = j.first /\ i.last = j.last
<1> DEFINE Marked(i) ==
        IF i.id = issue /\ i.app = app THEN [i EXCEPT !.status = status] ELSE i
<1>1. db'.reports = db.reports /\ db'.issues = {Marked(i) : i \in db.issues}
  BY DEF MarkIssue, SetIssueStatus, StoreTypeOK
<1>2. \A i \in db.issues :
         /\ i.id = Marked(i).id /\ i.app = Marked(i).app /\ i.hash = Marked(i).hash
         /\ i.first = Marked(i).first /\ i.last = Marked(i).last
  BY DEF StoreTypeOK, IssueRow
<1> HIDE DEF Marked
<1> QED
  BY <1>1, <1>2

\* The issues change by an ingest, by a change of status, which leaves the
\* reports alone, or by deletions.
LEMMA IssuesChange ==
    ASSUME StoreTypeOK, [StoreNext]_storeVars
    PROVE  \/ \E rid \in Rids, app \in Rowids, hash \in Hashes, at \in Times :
                 Ingest(rid, app, hash, at)
           \/ /\ db'.reports = db.reports
              /\ \A j \in db'.issues : \E i \in db.issues :
                    /\ i.id = j.id /\ i.app = j.app /\ i.hash = j.hash
                    /\ i.first = j.first /\ i.last = j.last
           \/ db'.issues \subseteq db.issues /\ db'.reports \subseteq db.reports
<1>1. CASE \E name \in Names, key \in Keys : Create(name, key)
  BY <1>1 DEF Create, CreateApp, StoreTypeOK
<1>2. CASE \E app \in Rowids, key \in Keys : Rotate(app, key)
  BY <1>2 DEF Rotate, RotateAppKey, StoreTypeOK
<1>3. CASE \E app \in Rowids : RemoveApp(app)
  BY <1>3 DEF RemoveApp, DeleteApp, StoreTypeOK
<1>4. CASE \E app, issue \in Rowids, status \in Statuses : MarkIssue(app, issue, status)
  BY <1>4, MarkKeepsIds
<1>5. CASE \E app, issue \in Rowids : RemoveIssue(app, issue)
  BY <1>5 DEF RemoveIssue, DeleteIssue, StoreTypeOK
<1>6. CASE \E app \in Rowids, rid \in Rids : RemoveReport(app, rid)
  BY <1>6 DEF RemoveReport, DeleteReport, StoreTypeOK
<1>7. CASE UNCHANGED storeVars
  BY <1>7 DEF storeVars
<1> QED
  BY <1>1, <1>2, <1>3, <1>4, <1>5, <1>6, <1>7 DEF StoreNext

\* An issue that keeps its id keeps its app, its trace and its first date; its
\* last date moves with a report of it.
LEMMA IssueStaysItself ==
    ASSUME StoreTypeOK, Integrity, [StoreNext]_storeVars,
           NEW i \in db.issues, NEW j \in db'.issues, i.id = j.id
    PROVE  /\ j.app = i.app /\ j.hash = i.hash /\ j.first = i.first
           /\ j.last # i.last => \E r \in NewReports : r.issue = j.id /\ r.at = j.last
<1>1. \A k \in db.issues : k.id = j.id => k = i
  BY DEF Integrity, UniqueIds, Unique
<1>2. CASE \E rid \in Rids, app \in Rowids, hash \in Hashes, at \in Times :
              Ingest(rid, app, hash, at)
  <2>1. PICK rid \in Rids, app \in Rowids, hash \in Hashes, at \in Times :
                Ingest(rid, app, hash, at)
    BY <1>2
  <2>2. PICK row : /\ db'.reports = db.reports \cup {row}
                   /\ db'.issues = UpsertIssue(db.issues, rid, app, hash, at)
                   /\ row.id = rid /\ row.at = at
                   /\ row.issue = UpsertedId(db.issues, app, hash)
    BY <2>1, IngestEffect
  <2>3. row \in NewReports
    BY <2>1, <2>2 DEF NewReports, Ingest, Stored
  <2>4. /\ \E k \in db.issues :
              /\ k.id = j.id /\ k.app = j.app /\ k.hash = j.hash /\ k.first = j.first
              /\ k = j \/ j.id = UpsertedId(db.issues, app, hash)
        /\ j.id = UpsertedId(db.issues, app, hash) => j.last = at
    BY <2>1, <2>2, UpsertOrigin DEF Ingest
  <2> QED
    BY <1>1, <2>2, <2>3, <2>4
<1>3. CASE \A k \in db'.issues : \E l \in db.issues :
              /\ l.id = k.id /\ l.app = k.app /\ l.hash = k.hash
              /\ l.first = k.first /\ l.last = k.last
  BY <1>1, <1>3
<1>4. CASE db'.issues \subseteq db.issues
  BY <1>1, <1>4
<1> QED
  BY <1>2, <1>3, <1>4, IssuesChange

\* The dates of an issue move only with a report: first_seen_at never, and
\* last_seen_at to the date of a report that the same step stores under it.
THEOREM DatesMoveWithReports == StoreSpec => SeenMovesWithReports
<1>1. StoreTypeOK /\ Integrity /\ [StoreNext]_storeVars
      => [\A i \in db.issues, j \in db'.issues :
             i.id = j.id =>
                /\ j.app = i.app /\ j.hash = i.hash /\ j.first = i.first
                /\ j.last # i.last =>
                      \E r \in NewReports : r.issue = j.id /\ r.at = j.last]_storeVars
  BY IssueStaysItself
<1> QED
  BY <1>1, StoreInvHolds, PTL DEF StoreSpec, SeenMovesWithReports

\* A stored report leaves its issue open, and an issue is reopened by a report
\* of its own or by the admin, who stores none: no new report goes unnoticed
\* under a resolved issue, and none reopens another one.
THEOREM ReportsReopen == StoreSpec => NewReportReopens
<1>1. ASSUME StoreTypeOK, Integrity, (StoreTypeOK /\ Integrity)', [StoreNext]_storeVars
      PROVE  /\ \A r \in NewReports :
                   \A j \in db'.issues : j.id = r.issue => j.status = "open" /\ j.last = r.at
             /\ \A i \in db.issues, j \in db'.issues :
                   /\ i.id = j.id
                   /\ i.status = "resolved" /\ j.status = "open"
                   => (\E r \in NewReports : r.issue = i.id) \/ db'.reports = db.reports
  <2>1. CASE \E rid \in Rids, app \in Rowids, hash \in Hashes, at \in Times :
                Ingest(rid, app, hash, at)
    <3>1. PICK rid \in Rids, app \in Rowids, hash \in Hashes, at \in Times :
                  Ingest(rid, app, hash, at)
      BY <2>1
    <3>2. PICK row : /\ db'.reports = db.reports \cup {row}
                     /\ db'.issues = UpsertIssue(db.issues, rid, app, hash, at)
                     /\ row.id = rid /\ row.at = at
                     /\ row.issue = UpsertedId(db.issues, app, hash)
      BY <1>1, <3>1, IngestEffect
    <3>3. NewReports = {row}
      BY <3>1, <3>2 DEF NewReports, Ingest, Stored
    <3>4. \A j \in db'.issues :
             /\ \/ \A i \in db.issues : i.id # j.id
                \/ \E i \in db.issues :
                      i.id = j.id /\ (i = j \/ j.id = UpsertedId(db.issues, app, hash))
             /\ j.id = UpsertedId(db.issues, app, hash) => j.status = "open" /\ j.last = at
      BY <1>1, <3>1, <3>2, UpsertOrigin DEF Ingest
    <3>5. \A i, k \in db.issues : i.id = k.id => i = k
      BY <1>1 DEF Integrity, UniqueIds, Unique
    <3>6. \A i \in db.issues, j \in db'.issues :
             i.id = j.id /\ i.status = "resolved" /\ j.status = "open" => row.issue = i.id
      BY <3>2, <3>4, <3>5
    <3> QED
      BY <3>2, <3>3, <3>4, <3>6
  <2>2. CASE db'.reports = db.reports
    BY <2>2 DEF NewReports
  <2>3. CASE db'.issues \subseteq db.issues /\ db'.reports \subseteq db.reports
    BY <1>1, <2>3 DEF NewReports, Integrity, UniqueIds, Unique
  <2> QED
    BY <1>1, <2>1, <2>2, <2>3, IssuesChange
<1>2. (StoreTypeOK /\ Integrity) /\ (StoreTypeOK /\ Integrity)' /\ [StoreNext]_storeVars
      => [/\ \A r \in NewReports :
                \A j \in db'.issues : j.id = r.issue => j.status = "open" /\ j.last = r.at
          /\ \A i \in db.issues, j \in db'.issues :
                /\ i.id = j.id
                /\ i.status = "resolved" /\ j.status = "open"
                => (\E r \in NewReports : r.issue = i.id) \/ db'.reports = db.reports]_storeVars
  BY <1>1
<1> QED
  BY <1>2, StoreInvHolds, PTL DEF StoreSpec, NewReportReopens

\* The deletion of an app or an issue takes no report from an issue that stays.
LEMMA CascadesTakeWhole ==
    ASSUME StoreTypeOK, Integrity, NEW app \in Rowids, NEW issue \in Rowids,
           RemoveApp(app) \/ RemoveIssue(app, issue),
           NEW j \in db'.issues, NEW r \in db.reports, r.issue = j.id
    PROVE  j \in db.issues /\ r \in db'.reports
<1>1. \A k, l \in db.issues : k.id = l.id => k = l
  BY DEF Integrity, UniqueIds, Unique
<1>2. PICK k \in db.issues : k.id = r.issue /\ k.app = r.app
  BY DEF Integrity, ReportsHaveIssues
<1>3. CASE RemoveApp(app)
  <2> DEFINE gone == {i.id : i \in {l \in db.issues : l.app = app}}
  <2>1. /\ db'.issues = {i \in db.issues : i.app # app}
        /\ db'.reports = {s \in db.reports : s.app # app /\ s.issue \notin gone}
    BY <1>3 DEF RemoveApp, DeleteApp
  <2>2. j \in db.issues /\ j.app # app /\ k = j
    BY <1>1, <1>2, <2>1
  <2>3. r.issue \notin gone
    BY <1>1, <2>2
  <2> QED
    BY <1>2, <2>1, <2>2, <2>3
<1>4. CASE RemoveIssue(app, issue)
  <2> DEFINE gone == {i.id : i \in {l \in db.issues : l.id = issue /\ l.app = app}}
  <2>1. /\ db'.issues = {i \in db.issues : i.id \notin gone}
        /\ db'.reports = {s \in db.reports : s.issue \notin gone}
    BY <1>4 DEF RemoveIssue, DeleteIssue, StoreTypeOK
  <2> QED
    BY <2>1
<1> QED
  BY <1>3, <1>4

\* An issue is never born without a report, and is emptied by nothing but the
\* deletion of its last report.
THEOREM OnlyReportDeletionEmpties == StoreSpec => EmptiedOnlyByReportDeletion
<1>1. ASSUME StoreTypeOK, Integrity, [StoreNext]_storeVars,
             NEW j \in db'.issues, ~ \E r \in db'.reports : r.issue = j.id
      PROVE  \/ \E i \in db.issues : i.id = j.id /\ ~ \E r \in db.reports : r.issue = i.id
             \/ \E r \in db.reports : db'.reports = db.reports \ {r} /\ r.issue = j.id
  <2>1. CASE \E rid \in Rids, app \in Rowids, hash \in Hashes, at \in Times :
                Ingest(rid, app, hash, at)
    <3>1. PICK rid \in Rids, app \in Rowids, hash \in Hashes, at \in Times :
                  Ingest(rid, app, hash, at)
      BY <2>1
    <3>2. PICK row : /\ db'.reports = db.reports \cup {row}
                     /\ db'.issues = UpsertIssue(db.issues, rid, app, hash, at)
                     /\ row.issue = UpsertedId(db.issues, app, hash)
      BY <1>1, <3>1, IngestEffect
    <3>3. j.id # UpsertedId(db.issues, app, hash)
      BY <1>1, <3>2
    <3>4. \E i \in db.issues : i.id = j.id
      BY <1>1, <3>1, <3>2, <3>3, UpsertOrigin DEF Ingest
    <3> QED
      BY <1>1, <3>2, <3>4
  <2>2. CASE /\ db'.reports = db.reports
             /\ \A k \in db'.issues : \E i \in db.issues : i.id = k.id
    BY <1>1, <2>2
  <2>3. CASE \E app, issue \in Rowids : RemoveApp(app) \/ RemoveIssue(app, issue)
    <3>1. PICK app \in Rowids, issue \in Rowids : RemoveApp(app) \/ RemoveIssue(app, issue)
      BY <2>3
    <3>2. RemoveApp(app) => db'.issues \subseteq db.issues
      BY DEF RemoveApp, DeleteApp
    <3>3. RemoveIssue(app, issue) => db'.issues \subseteq db.issues
      BY <1>1 DEF RemoveIssue, DeleteIssue, StoreTypeOK
    <3>4. j \in db.issues
      BY <3>1, <3>2, <3>3
    <3> QED
      BY <1>1, <3>1, <3>4, CascadesTakeWhole
  <2>4. CASE \E app \in Rowids, rid \in Rids : RemoveReport(app, rid)
    <3>1. PICK app \in Rowids, rid \in Rids : RemoveReport(app, rid)
      BY <2>4
    <3>2. /\ db'.issues = db.issues
          /\ db'.reports = {r \in db.reports : ~(r.id = rid /\ r.app = app)}
      BY <1>1, <3>1 DEF RemoveReport, DeleteReport, StoreTypeOK
    <3>3. PICK d \in db.reports : d.id = rid /\ d.app = app
      BY <3>1 DEF RemoveReport, ReportExists
    <3>4. db'.reports = db.reports \ {d}
      BY <1>1, <3>2, <3>3 DEF Integrity, UniqueIds, Unique
    <3> QED
      BY <1>1, <3>2, <3>4
  <2>5. [StoreNext]_storeVars
        => \/ \E rid \in Rids, app \in Rowids, hash \in Hashes, at \in Times :
                 Ingest(rid, app, hash, at)
           \/ /\ db'.reports = db.reports
              /\ \A k \in db'.issues : \E i \in db.issues : i.id = k.id
           \/ \E app, issue \in Rowids : RemoveApp(app) \/ RemoveIssue(app, issue)
           \/ \E app \in Rowids, rid \in Rids : RemoveReport(app, rid)
    <3>1. CASE \E name \in Names, key \in Keys : Create(name, key)
      BY <1>1, <3>1 DEF Create, CreateApp, StoreTypeOK
    <3>2. CASE \E app \in Rowids, key \in Keys : Rotate(app, key)
      BY <1>1, <3>2 DEF Rotate, RotateAppKey, StoreTypeOK
    <3>3. CASE \E app, issue \in Rowids, status \in Statuses : MarkIssue(app, issue, status)
      BY <1>1, <3>3, MarkKeepsIds
    <3>4. CASE UNCHANGED storeVars
      BY <3>4 DEF storeVars
    <3> QED
      BY <3>1, <3>2, <3>3, <3>4 DEF StoreNext
  <2> QED
    BY <1>1, <2>1, <2>2, <2>3, <2>4, <2>5
<1>2. (StoreTypeOK /\ Integrity) /\ [StoreNext]_storeVars
      => [\A j \in db'.issues :
             (~ \E r \in db'.reports : r.issue = j.id)
                => \/ \E i \in db.issues :
                         i.id = j.id /\ ~ \E r \in db.reports : r.issue = i.id
                   \/ \E r \in db.reports :
                         db'.reports = db.reports \ {r} /\ r.issue = j.id]_storeVars
  BY <1>1
<1> QED
  BY <1>2, StoreInvHolds, PTL DEF StoreSpec, EmptiedOnlyByReportDeletion

=============================================================================
