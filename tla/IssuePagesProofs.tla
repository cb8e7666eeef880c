-------------------------- MODULE IssuePagesProofs --------------------------
(***************************************************************************)
(* For every filter and sort order, every number of apps, issues, reports  *)
(* and days and every page size: reports that come in do not make a reader *)
(* of the pages miss anything, the page of an issue hangs together, and    *)
(* the numbers of the pages and of the dashboard agree.                    *)
(*                                                                         *)
(* A row is on the page that the number of rows ahead of it says, so it is *)
(* enough that no row ahead of it goes away: the set of those ahead only   *)
(* grows, and its size with it, the table being finite.  The table is what *)
(* CrashStoreProofs shows it to be.                                        *)
(*                                                                         *)
(* Numbers that are sums of sizes agree because a set is as large as its   *)
(* parts together (PartsAddUp): reports are parted by their issue, their   *)
(* day or their value, issues by their app.                                *)
(***************************************************************************)
EXTENDS Dashboard, CrashStoreProofs, FiniteSetTheorems

PagesInv == StoreTypeOK /\ Integrity /\ IsFiniteSet(db.reports)

\* Rows that have more ahead of them are on the same page or a later one.
LEMMA MoreAheadIsLater ==
    ASSUME NEW perPage \in Nat \ {0}, NEW m \in Nat, NEW n \in Nat, m <= n,
           NEW p \in Nat, NEW q \in Nat, OnPage(m, p, perPage), OnPage(n, q, perPage)
    PROVE  p <= q
<1> SUFFICES ASSUME q + 1 <= p PROVE FALSE
  OBVIOUS
<1>1. (p - 1) * perPage <= m /\ n < (q - 1) * perPage + perPage
  BY DEF OnPage
<1>2. (q - 1) * perPage + perPage = q * perPage
  OBVIOUS
<1>3. PICK k \in Nat : p - 1 = q + k
  OBVIOUS
<1>4. (p - 1) * perPage = q * perPage + k * perPage /\ k * perPage >= 0
  BY <1>3
<1>5. q * perPage \in Nat /\ k * perPage \in Nat
  OBVIOUS
<1> QED
  BY <1>1, <1>2, <1>4, <1>5

\* From every page there are links to the one before and the one after it: a
\* reader comes to each page, although an ellipsis hides some of them.
THEOREM NeighboursAreLinked ==
    ASSUME NEW total \in Nat, NEW page \in Nat \ {0}, NEW n \in 1..PageCount(total),
           n \in {1, page - 1, page, page + 1}
    PROVE  n \in pageNums(total, page)
<1>1. PageCount(total) \in Nat
  BY PerPageAssumption DEF PageCount
<1> QED
  BY <1>1 DEF pageNums

\* A row is on one of the pages that are counted, and on one only.
LEMMA RowHasOnePage ==
    ASSUME NEW total \in Nat, NEW ahead \in Nat, ahead < total
    PROVE  \E n \in 1..PageCount(total) :
              \A m \in 1..PageCount(total) : OnPage(ahead, m, PerPage) <=> m = n
<1> DEFINE k == ahead \div PerPage
           last == PageCount(total)
<1>1. PerPage \in Nat /\ PerPage > 0
  BY PerPageAssumption
<1>2. k \in Nat /\ k * PerPage <= ahead /\ ahead < k * PerPage + PerPage
  BY <1>1
<1>3. last \in Nat /\ last * PerPage <= total + PerPage - 1 /\ total + PerPage - 1 < last * PerPage + PerPage
  BY <1>1 DEF PageCount
<1> HIDE DEF k, last
<1>4. k + 1 <= last
  <2> SUFFICES ASSUME last <= k PROVE FALSE
    BY <1>2, <1>3
  <2>1. last * PerPage <= k * PerPage
    BY <1>1, <1>2, <1>3
  <2>2. last * PerPage \in Nat /\ k * PerPage \in Nat
    BY <1>1, <1>2, <1>3
  <2> QED
    BY <1>1, <1>2, <1>3, <2>1, <2>2
<1>5. k + 1 \in 1..last
  BY <1>2, <1>3, <1>4
<1>6. OnPage(ahead, k + 1, PerPage)
  BY <1>2 DEF OnPage
<1>7. ASSUME NEW m \in 1..last, OnPage(ahead, m, PerPage) PROVE m = k + 1
  BY <1>1, <1>2, <1>3, <1>6, <1>7, MoreAheadIsLater
<1> QED
  BY <1>5, <1>6, <1>7 DEF last

\* The inductive invariant.
LEMMA PagesInvKept ==
    ASSUME PagesInv, [StoreNext]_storeVars
    PROVE  PagesInv'
<1>1. StoreTypeOK' /\ Integrity'
  BY StepKeeps DEF PagesInv
<1>2. IsFiniteSet(db'.reports)
  <2>1. CASE \E rid \in Rids, app \in Rowids, hash \in Hashes, at \in Times :
                Ingest(rid, app, hash, at)
    <3>1. PICK row : db'.reports = db.reports \cup {row}
      <4>1. PICK rid \in Rids, app \in Rowids, hash \in Hashes, at \in Times :
                    Ingest(rid, app, hash, at)
        BY <2>1
      <4> QED
        BY <4>1, IngestEffect DEF PagesInv
    <3> QED
      BY <3>1, FS_AddElement DEF PagesInv
  <2>2. CASE db'.reports \subseteq db.reports
    BY <2>2, FS_Subset DEF PagesInv
  <2> QED
    BY <2>1, <2>2, ReportsChange DEF PagesInv
<1> QED
  BY <1>1, <1>2 DEF PagesInv

LEMMA PagesInvHolds == StoreSpec => []PagesInv
<1>1. StoreInit => PagesInv
  BY InitEstablishes, FS_EmptySet DEF StoreInit, EmptyDb, PagesInv
<1>2. PagesInv /\ [StoreNext]_storeVars => PagesInv'
  BY PagesInvKept
<1> QED
  BY <1>1, <1>2, PTL DEF StoreSpec

-----------------------------------------------------------------------------

\* A step that deletes no report keeps them all as they are: a row is not
\* rewritten, and an id is not used twice.
LEMMA ReportsStay ==
    ASSUME StoreTypeOK, Integrity, [StoreNext]_storeVars,
           \A s \in db.reports : \E t \in db'.reports : t.id = s.id
    PROVE  db.reports \subseteq db'.reports
<1>1. CASE \E rid \in Rids, app \in Rowids, hash \in Hashes, at \in Times :
              Ingest(rid, app, hash, at)
  BY <1>1, IngestEffect
<1>2. CASE db'.reports \subseteq db.reports
  BY <1>2 DEF Integrity, UniqueIds, Unique
<1> QED
  BY <1>1, <1>2, ReportsChange

\* A reader of an issue's reports misses none, unless one is deleted, in
\* whatever order their dates come: the reports ahead of a report stay there.
THEOREM ReaderMissesNoReport == StoreSpec => ReportsNotSkipped
<1>1. ASSUME PagesInv, PagesInv', [StoreNext]_storeVars,
             \A s \in db.reports : \E t \in db'.reports : t.id = s.id,
             NEW ids \in IdOrders, NEW r \in db.reports \cap db'.reports
      PROVE  Cardinality(ReportsAhead(db, ids, r)) <= Cardinality(ReportsAhead(db', ids, r))
  <2>1. db.reports \subseteq db'.reports
    BY <1>1, ReportsStay DEF PagesInv
  <2>2. ReportsAhead(db, ids, r) \subseteq ReportsAhead(db', ids, r)
    BY <2>1 DEF ReportsAhead, IssueReports
  <2>3. ReportsAhead(db', ids, r) \subseteq db'.reports
    BY DEF ReportsAhead, IssueReports
  <2>4. IsFiniteSet(ReportsAhead(db', ids, r))
    BY <1>1, <2>3, FS_Subset DEF PagesInv
  <2> QED
    BY <2>2, <2>4, FS_Subset
<1>2. PagesInv /\ PagesInv' /\ [StoreNext]_storeVars
      => [(\A s \in db.reports : \E t \in db'.reports : t.id = s.id) =>
            \A ids \in IdOrders : \A r \in db.reports \cap db'.reports :
               Cardinality(ReportsAhead(db, ids, r))
                  <= Cardinality(ReportsAhead(db', ids, r))]_storeVars
  BY <1>1
<1> QED
  BY <1>2, PagesInvHolds, PTL DEF StoreSpec, ReportsNotSkipped

-----------------------------------------------------------------------------

\* How many reports of an issue are picked after an ingest: no fewer, unless the
\* issue loses a title that the search finds; and the same if the report is of
\* another issue.
LEMMA CountsGrow ==
    ASSUME IsFiniteSet(db.reports), IsFiniteSet(db'.reports), NEW f, NEW k, NEW j,
           j.id = k.id, k.title \in f.where.titles => j.title \in f.where.titles,
           NEW row, db'.reports = db.reports \cup {row}
    PROVE  /\ ReportCount(db, f, k) \in Nat /\ ReportCount(db', f, j) \in Nat
           /\ ReportCount(db, f, k) <= ReportCount(db', f, j)
           /\ row.issue # k.id /\ j = k => ReportCount(db', f, j) = ReportCount(db, f, k)
           /\ Picked(db, f, k) \subseteq Picked(db', f, j)
<1>1. Picked(db, f, k) \subseteq Picked(db', f, j)
  BY DEF Picked, Meets
<1>2. Picked(db, f, k) \subseteq db.reports /\ Picked(db', f, j) \subseteq db'.reports
  BY DEF Picked
<1>3. IsFiniteSet(Picked(db, f, k)) /\ IsFiniteSet(Picked(db', f, j))
  BY <1>2, FS_Subset
<1>4. row.issue # k.id /\ j = k => Picked(db', f, j) = Picked(db, f, k)
  BY DEF Picked
<1> QED
  BY <1>1, <1>3, <1>4, FS_Subset, FS_CardinalityType DEF ReportCount

\* A reader of the issue list misses no issue because reports come in, unless
\* they are late, the list is that of the resolved issues, or they bring their
\* issue a title that the search does not find: whatever the filter and the
\* sort order, the issues ahead of another one stay there.
THEOREM ReaderMissesNoIssue == StoreSpec => IssuesNotSkipped
<1>1. ASSUME PagesInv, PagesInv', [StoreNext]_storeVars,
             NEW r \in NewReports, NEW f \in IssueFilter, NEW i \in Selected(db, f),
             r.issue # i.id, f.status # "resolved", \A j \in db.issues : j.last <= r.at,
             ~LosesTitle(f, r)
      PROVE  Cardinality(IssuesAhead(db, f, i)) <= Cardinality(IssuesAhead(db', f, i))
  <2>1. PICK rid \in Rids, app \in Rowids, hash \in Hashes, at \in Times :
                Ingest(rid, app, hash, at)
    BY <1>1, ReportsChange DEF PagesInv, NewReports
  <2>2. PICK row : /\ db'.reports = db.reports \cup {row}
                   /\ db'.issues = UpsertIssue(db.issues, rid, app, hash, at)
                   /\ db'.apps = db.apps
                   /\ row.id = rid /\ row.at = at
                   /\ row.issue = UpsertedId(db.issues, app, hash)
    BY <1>1, <2>1, IngestEffect DEF PagesInv
  <2>3. r = row
    BY <2>2 DEF NewReports
  <2>4. i \in db.issues /\ i \in IssueRow
    BY <1>1 DEF Selected, PagesInv, StoreTypeOK
  <2>5. IssuesAhead(db, f, i) \subseteq IssuesAhead(db', f, i)
    <3> SUFFICES ASSUME NEW k \in Selected(db, f), Precedes(db, f, k, i)
                 PROVE  \E j \in Selected(db', f) : j.id = k.id /\ Precedes(db', f, j, i)
      BY DEF IssuesAhead
    <3>1. k \in db.issues /\ k \in IssueRow
      BY <1>1 DEF Selected, PagesInv, StoreTypeOK
    <3>2. PICK j \in db'.issues :
              /\ j.id = k.id /\ j.app = k.app
              /\ \/ j = k
                 \/ j.status = "open" /\ j.last = at /\ j.title = rid
              /\ k.id # UpsertedId(db.issues, app, hash) => j = k
      BY <1>1, <2>2, <3>1, UpsertEffect DEF PagesInv
    <3>8. k.title \in f.where.titles => j.title \in f.where.titles
      BY <1>1, <2>2, <2>3, <3>1, <3>2 DEF LosesTitle
    <3>3. /\ ReportCount(db, f, k) \in Nat /\ ReportCount(db', f, j) \in Nat
          /\ ReportCount(db, f, k) <= ReportCount(db', f, j)
          /\ Picked(db, f, k) \subseteq Picked(db', f, j)
      BY <1>1, <2>2, <3>2, <3>8, CountsGrow DEF PagesInv
    <3>4. /\ ReportCount(db, f, i) \in Nat
          /\ ReportCount(db', f, i) = ReportCount(db, f, i)
      BY <1>1, <2>2, <2>3, CountsGrow DEF PagesInv
    <3>5. j \in Selected(db', f)
      <4>1. f.status \in {"any", j.status}
        BY <1>1, <3>1, <3>2 DEF Selected, IssueRow, Statuses
      <4>2. AppExists(db', j.app) /\ j.app = f.app
        BY <2>2, <3>2 DEF Selected, AppExists
      <4>3. Picked(db', f, j) # {}
        BY <3>3 DEF Selected
      <4> QED
        BY <3>2, <4>1, <4>2, <4>3 DEF Selected
    <3>6. Newer(k, i) => Newer(j, i)
      <4>1. /\ k.last \in Nat /\ i.last \in Nat /\ j.last \in Nat
            /\ k.id \in Nat /\ i.id \in Nat
        <5>1. k.last \in Times /\ i.last \in Times /\ k.id \in Rowids /\ i.id \in Rowids
          BY <2>4, <3>1 DEF IssueRow
        <5>2. j.last \in Times
          BY <3>2, <5>1
        <5>3. Rowids \subseteq Nat
          BY MaxRowidAssumption DEF Rowids
        <5> QED
          BY <5>1, <5>2, <5>3, TimesAssumption
      <4>2. k.last <= j.last
        BY <1>1, <2>2, <2>3, <3>1, <3>2, <4>1
      <4> QED
        BY <3>2, <4>1, <4>2 DEF Newer
    <3>7. Precedes(db', f, j, i)
      BY <3>3, <3>4, <3>6 DEF Precedes
    <3> QED
      BY <3>2, <3>5, <3>7
  <2>6. IsFiniteSet(IssuesAhead(db', f, i))
    <3>1. IssuesAhead(db', f, i) \subseteq Rowids
      BY <1>1 DEF IssuesAhead, Selected, PagesInv, StoreTypeOK, IssueRow
    <3>2. IsFiniteSet(Rowids)
      BY MaxRowidAssumption, FS_Interval DEF Rowids
    <3> QED
      BY <3>1, <3>2, FS_Subset
  <2> QED
    BY <2>5, <2>6, FS_Subset
<1>2. PagesInv /\ PagesInv' /\ [StoreNext]_storeVars
      => [\A r \in NewReports : (\A j \in db.issues : j.last <= r.at) =>
             \A f \in IssueFilter : f.status # "resolved" /\ ~LosesTitle(f, r) =>
                \A i \in Selected(db, f) : r.issue # i.id =>
                   Cardinality(IssuesAhead(db, f, i))
                      <= Cardinality(IssuesAhead(db', f, i))]_storeVars
  BY <1>1
<1> QED
  BY <1>2, PagesInvHolds, PTL DEF StoreSpec, IssuesNotSkipped

-----------------------------------------------------------------------------
\* The rows of a list are finite in number, and those ahead of one are fewer.
LEMMA FewerIssuesAhead ==
    ASSUME PagesInv, NEW f \in IssueFilter, NEW i \in Selected(db, f)
    PROVE  /\ Cardinality(IssuesAhead(db, f, i)) \in Nat
           /\ CountIssues(db, f) \in Nat
           /\ Cardinality(IssuesAhead(db, f, i)) < CountIssues(db, f)
<1> DEFINE S == Selected(db, f)
           ids == {j.id : j \in S}
           ahead == IssuesAhead(db, f, i)
<1>1. S \subseteq db.issues /\ db.issues \subseteq IssueRow
  BY DEF Selected, PagesInv, StoreTypeOK
<1>2. ids \subseteq Rowids /\ IsFiniteSet(Rowids)
  BY <1>1, MaxRowidAssumption, FS_Interval DEF IssueRow, Rowids
<1>3. IsFiniteSet(ids)
  BY <1>2, FS_Subset
<1>4. \A j \in S : Precedes(db, f, j, i) => j.id # i.id
  <2>1. \A j \in S : j.id = i.id => j = i
    BY <1>1 DEF PagesInv, Integrity, UniqueIds, Unique
  <2>2. ~Precedes(db, f, i, i)
    <3>1. i.last \in Nat /\ i.id \in Nat
      <4>1. i \in IssueRow
        BY <1>1
      <4>2. i.last \in Times /\ i.id \in Rowids
        BY <4>1 DEF IssueRow
      <4>3. Rowids \subseteq Nat
        BY MaxRowidAssumption DEF Rowids
      <4> QED
        BY <4>2, <4>3, TimesAssumption
    <3>2. ReportCount(db, f, i) \in Nat
      <4>1. Picked(db, f, i) \subseteq db.reports
        BY DEF Picked
      <4> QED
        BY <4>1, FS_Subset, FS_CardinalityType DEF ReportCount, PagesInv
    <3> QED
      BY <3>1, <3>2 DEF Precedes, Newer
  <2> QED
    BY <2>1, <2>2
<1>5. ahead \subseteq ids /\ i.id \in ids /\ i.id \notin ahead
  BY <1>4 DEF IssuesAhead
<1>6. Cardinality(ahead) \in Nat /\ Cardinality(ids) \in Nat
      /\ Cardinality(ahead) < Cardinality(ids)
  <2>1. IsFiniteSet(ahead) /\ Cardinality(ahead) <= Cardinality(ids)
        /\ (Cardinality(ids) = Cardinality(ahead) => ids = ahead)
    BY <1>3, <1>5, FS_Subset
  <2>2. ids # ahead
    BY <1>5
  <2> HIDE DEF ids, ahead
  <2> QED
    BY <1>3, <2>1, <2>2, FS_CardinalityType
<1>7. IsFiniteSet(S) /\ Cardinality(S) \in Nat /\ Cardinality(ids) <= Cardinality(S)
  <2> DEFINE g == [j \in S |-> j.id]
  <2>1. \A j, k \in S : j.id = k.id => j = k
    BY <1>1 DEF PagesInv, Integrity, UniqueIds, Unique
  <2>2. g \in Injection(S, ids)
    BY <2>1 DEF Injection, IsInjective
  <2>3. g \in Surjection(S, ids)
    BY DEF Surjection
  <2>4. IsFiniteSet(S)
    BY <1>3, <2>2, FS_Injection
  <2> HIDE DEF S, ids, g
  <2> QED
    BY <2>3, <2>4, FS_Surjection, FS_CardinalityType
<1> QED
  BY <1>6, <1>7 DEF CountIssues

LEMMA FewerReportsAhead ==
    ASSUME PagesInv, NEW ids \in IdOrders, NEW r \in db.reports
    PROVE  /\ Cardinality(ReportsAhead(db, ids, r)) \in Nat
           /\ Cardinality(IssueReports(db, r.app, r.issue)) \in Nat
           /\ Cardinality(ReportsAhead(db, ids, r)) < Cardinality(IssueReports(db, r.app, r.issue))
<1> DEFINE all == IssueReports(db, r.app, r.issue)
           ahead == ReportsAhead(db, ids, r)
<1>1. all \subseteq db.reports /\ ahead \subseteq all /\ r \in all
  BY DEF IssueReports, ReportsAhead
<1>2. r \notin ahead
  <2>1. r \in ReportRow
    BY DEF PagesInv, StoreTypeOK
  <2>2. r.at \in Nat /\ r.id \in Rids
    BY <2>1, TimesAssumption DEF ReportRow
  <2>3. ids[r.id] \in Int
    BY <2>2 DEF IdOrders
  <2> QED
    BY <2>2, <2>3 DEF ReportsAhead
<1>3. IsFiniteSet(all)
  BY <1>1, FS_Subset DEF PagesInv
<1> HIDE DEF all, ahead
<1>4. all # ahead
  BY <1>1, <1>2
<1>5. IsFiniteSet(ahead) /\ Cardinality(ahead) <= Cardinality(all)
      /\ (Cardinality(all) = Cardinality(ahead) => all = ahead)
  BY <1>1, <1>3, FS_Subset
<1>6. Cardinality(all) \in Nat /\ Cardinality(ahead) \in Nat
  BY <1>3, <1>5, FS_CardinalityType
<1> QED
  BY <1>4, <1>5, <1>6 DEF all, ahead

\* The issues with a filter: all are on some page, and each page has a link to
\* the next.
LEMMA IssuePagesCover ==
    ASSUME PagesInv, NEW f \in IssueFilter
    PROVE  LET last    == PageCount(CountIssues(db, f))
               page(n) == pageIssues(db, db, f, n)
               shown   == [n \in 1..last |-> page(n).issues]
           IN  /\ \A n \in 1..(last - 1) : n + 1 \in page(n).pages
               /\ \A i \in Selected(db, f) :
                     \E n \in 1..last : \A m \in 1..last : i \in shown[m] <=> m = n
<1> DEFINE total == CountIssues(db, f)
           last == PageCount(total)
<1>1. total \in Nat
  <2>1. CASE Selected(db, f) = {}
    BY <2>1, FS_EmptySet DEF CountIssues
  <2>2. CASE Selected(db, f) # {}
    BY <2>2, FewerIssuesAhead
  <2> QED
    BY <2>1, <2>2
<1>2. last \in Nat
  BY <1>1, PerPageAssumption DEF PageCount
<1> HIDE DEF total
<1>3. ASSUME NEW n \in 1..(last - 1) PROVE n + 1 \in pageNums(total, n)
  <2>1. n + 1 \in 1..PageCount(total) /\ n \in Nat \ {0}
    BY <1>2
  <2> QED
    BY <1>1, <2>1, NeighboursAreLinked
<1>4. ASSUME NEW i \in Selected(db, f)
      PROVE  \E n \in 1..last : \A m \in 1..last : i \in ListIssues(db, f, m) <=> m = n
  <2>1. PICK n \in 1..last :
           \A m \in 1..last : OnPage(Cardinality(IssuesAhead(db, f, i)), m, PerPage) <=> m = n
    BY <1>1, FewerIssuesAhead, RowHasOnePage DEF total
  <2> QED
    BY <2>1 DEF ListIssues
<1> QED
  BY <1>3, <1>4 DEF pageIssues, total

LEMMA ReportPagesCover ==
    ASSUME PagesInv, NEW i \in db.issues, NEW ids \in IdOrders
    PROVE  LET last    == PageCount(Cardinality(IssueReports(db, i.app, i.id)))
               page(n) == pageIssueDetail(Undisturbed, ids, i.app, i.id, n)
               shown   == [n \in 1..last |-> page(n).reports]
           IN  /\ page(1).issue = {i}
               /\ page(1).latest \subseteq page(1).reports
               /\ \A n \in 1..(last - 1) : n + 1 \in page(n).pages
               /\ \A r \in db.reports : r.issue = i.id =>
                     \E n \in 1..last : \A m \in 1..last : r \in shown[m] <=> m = n
<1> DEFINE rows == IssueReports(db, i.app, i.id)
           total == Cardinality(rows)
           last == PageCount(total)
           lists(n) == ListIssueReports(db, ids, i.app, i.id, n, PerPage)
<1>1. total \in Nat
  <2>1. rows \subseteq db.reports
    BY DEF IssueReports
  <2> HIDE DEF rows
  <2> QED
    BY <2>1, FS_Subset, FS_CardinalityType DEF PagesInv
<1>2. last \in Nat
  BY <1>1, PerPageAssumption DEF PageCount
<1> HIDE DEF total
<1>3. GetIssue(db, i.app, i.id) = {i}
  BY DEF GetIssue, PagesInv, Integrity, UniqueIds, Unique, IssuesHaveApps, AppExists
<1>4. ListIssueReports(db, ids, i.app, i.id, 1, 1) \subseteq lists(1)
  <2> SUFFICES ASSUME NEW r \in rows, OnPage(Cardinality(ReportsAhead(db, ids, r)), 1, 1)
               PROVE  OnPage(Cardinality(ReportsAhead(db, ids, r)), 1, PerPage)
    BY DEF ListIssueReports
  <2>1. Cardinality(ReportsAhead(db, ids, r)) \in Nat
    BY FewerReportsAhead DEF IssueReports
  <2> QED
    BY <2>1, PerPageAssumption DEF OnPage
<1>5. ASSUME NEW n \in 1..(last - 1) PROVE n + 1 \in pageNums(total, n)
  <2>1. n + 1 \in 1..PageCount(total) /\ n \in Nat \ {0}
    BY <1>2
  <2> QED
    BY <1>1, <2>1, NeighboursAreLinked
<1>6. ASSUME NEW r \in db.reports, r.issue = i.id
      PROVE  \E n \in 1..last : \A m \in 1..last : r \in lists(m) <=> m = n
  <2>1. r.app = i.app
    BY <1>6 DEF PagesInv, Integrity, UniqueIds, Unique, ReportsHaveIssues
  <2>2. PICK n \in 1..last :
           \A m \in 1..last : OnPage(Cardinality(ReportsAhead(db, ids, r)), m, PerPage) <=> m = n
    BY <1>1, <1>6, <2>1, FewerReportsAhead, RowHasOnePage DEF total
  <2> QED
    BY <1>6, <2>1, <2>2 DEF ListIssueReports, IssueReports
<1> HIDE DEF last, lists
<1>7. \A n : /\ pageIssueDetail(Undisturbed, ids, i.app, i.id, n).reports = lists(n)
            /\ pageIssueDetail(Undisturbed, ids, i.app, i.id, n).pages = pageNums(total, n)
  BY DEF pageIssueDetail, Undisturbed, lists, total
<1>8. /\ pageIssueDetail(Undisturbed, ids, i.app, i.id, 1).issue = {i}
      /\ pageIssueDetail(Undisturbed, ids, i.app, i.id, 1).latest \subseteq lists(1)
  BY <1>3, <1>4 DEF pageIssueDetail, Undisturbed
<1> QED
  BY <1>5, <1>6, <1>7, <1>8 DEF last, total

\* In every reachable database: who follows the links sees each issue and each
\* report once, however many there are.
THEOREM PagesMissNothing == StoreSpec => []PagesCoverAll
<1>1. PagesInv => PagesCoverAll
  BY IssuePagesCover, ReportPagesCover DEF PagesCoverAll
<1> QED
  BY <1>1, PagesInvHolds, PTL

-----------------------------------------------------------------------------

\* A set of finite sets has one in it that none of the others is a part of:
\* what stands for an induction over how many rows there are.
LEMMA SmallestSet ==
    ASSUME NEW S, IsFiniteSet(S), NEW T, T \subseteq SUBSET S, T # {}
    PROVE  \E A \in T : \A B \in T : B \subseteq A => B = A
<1>1. IsWellFoundedOn(StrictSubsetOrdering(S), FiniteSubsetsOf(S))
  BY FS_StrictSubsetOrderingWellFounded
<1>2. T \subseteq FiniteSubsetsOf(S)
  BY FS_FiniteSubsetsOfFinite
<1>3. PICK A \in T : \A B \in T : <<B, A>> \notin StrictSubsetOrdering(S)
  BY <1>1, <1>2, WFMin, Zenon
<1>4. ASSUME NEW B \in T, B \subseteq A, B # A PROVE FALSE
  <2>1. A \in SUBSET S /\ B \in SUBSET S
    OBVIOUS
  <2>2. <<B, A>> \in StrictSubsetOrdering(S)
    BY <1>4, <2>1 DEF StrictSubsetOrdering
  <2> QED
    BY <1>3, <2>2
<1> QED
  BY <1>4

\* The latest report of an issue that has one: none is ahead of it, so it is
\* not older than any.
LEMMA LatestIsThere ==
    ASSUME NEW d, IsFiniteSet(d.reports), d.reports \subseteq ReportRow,
           NEW ids \in IdOrders, NEW r \in d.reports
    PROVE  \E s \in ListIssueReports(d, ids, r.app, r.issue, 1, 1) : s.at >= r.at
<1> DEFINE rows == IssueReports(d, r.app, r.issue)
           ahead(s) == ReportsAhead(d, ids, s)
           T == {A \in SUBSET rows : \E s \in rows : A = ahead(s)}
<1>1. r \in rows /\ rows \subseteq d.reports
  BY DEF IssueReports
<1>2. IsFiniteSet(rows)
  BY <1>1, FS_Subset
<1>3. \A s \in rows : ahead(s) = {t \in rows : t.at > s.at
                                      \/ (t.at = s.at /\ ids[t.id] > ids[s.id])}
  BY DEF ReportsAhead, IssueReports
<1>4. \A s \in rows : s.at \in Nat /\ ids[s.id] \in Int
  <2> SUFFICES ASSUME NEW s \in rows PROVE s.at \in Nat /\ ids[s.id] \in Int
    OBVIOUS
  <2>1. s.at \in Nat /\ s.id \in Rids
    BY <1>1, TimesAssumption DEF ReportRow
  <2> QED
    BY <2>1 DEF IdOrders
<1> HIDE DEF rows, ahead
<1>5. \A s \in rows : ahead(s) \in T
  BY <1>3
<1>6. PICK A \in T : \A B \in T : B \subseteq A => B = A
  <2>1. T \subseteq SUBSET rows /\ T # {}
    BY <1>1, <1>5
  <2> HIDE DEF T
  <2> QED
    BY <1>2, <2>1, SmallestSet
<1>7. PICK s \in rows : A = ahead(s)
  OBVIOUS
<1>8. ahead(s) = {}
  <2> SUFFICES ASSUME NEW t \in ahead(s) PROVE FALSE
    OBVIOUS
  <2>1. t \in rows /\ (t.at > s.at \/ (t.at = s.at /\ ids[t.id] > ids[s.id]))
    BY <1>3
  <2>2. ahead(t) \subseteq ahead(s)
    <3> SUFFICES ASSUME NEW u \in ahead(t) PROVE u \in ahead(s)
      OBVIOUS
    <3>1. u \in rows /\ (u.at > t.at \/ (u.at = t.at /\ ids[u.id] > ids[t.id]))
      BY <1>3, <2>1
    <3> QED
      BY <1>3, <1>4, <2>1, <3>1
  <2>3. t \notin ahead(t)
    BY <1>3, <1>4, <2>1
  <2> QED
    BY <1>5, <1>6, <1>7, <2>1, <2>2, <2>3
<1>9. OnPage(Cardinality(ahead(s)), 1, 1)
  BY <1>8, FS_EmptySet DEF OnPage
<1>10. s \in ListIssueReports(d, ids, r.app, r.issue, 1, 1)
  BY <1>9 DEF ListIssueReports, rows, ahead
<1>11. s.at >= r.at
  BY <1>1, <1>3, <1>4, <1>8
<1> QED
  BY <1>10, <1>11

\* The page of an issue hangs together, whichever of its statements the report
\* comes in between: a report that one of them sees, those after it see, too.
THEOREM DetailHangsTogether == StoreSpec => PageHangsTogether
<1>1. ASSUME PagesInv, PagesInv', [StoreNext]_storeVars, NewReports # {},
             NEW i \in db.issues, NEW sees \in Disturbed, NEW ids \in IdOrders,
             NEW r \in pageIssueDetail(sees, ids, i.app, i.id, 1).reports
      PROVE  /\ r.hash = i.hash
             /\ \E s \in pageIssueDetail(sees, ids, i.app, i.id, 1).latest : s.at >= r.at
  <2>1. db.reports \subseteq db'.reports
    <3>1. PICK rid \in Rids, app \in Rowids, hash \in Hashes, at \in Times :
                  Ingest(rid, app, hash, at)
      BY <1>1, ReportsChange DEF PagesInv, NewReports
    <3> QED
      BY <1>1, <3>1, IngestEffect DEF PagesInv
  <2>2. \/ sees[3] = db /\ sees[4] = db'
        \/ sees[3] = db' /\ sees[4] = db'
    BY <1>1 DEF Disturbed
  <2>3. r \in IssueReports(sees[3], i.app, i.id)
    BY <1>1 DEF pageIssueDetail, ListIssueReports
  <2>4. r \in db'.reports /\ r.app = i.app /\ r.issue = i.id
    BY <2>1, <2>2, <2>3 DEF IssueReports
  <2>5. r.hash = i.hash
    <3>1. PICK j \in db'.issues : j.id = r.issue /\ j.app = r.app /\ j.hash = r.hash
      BY <1>1, <2>4 DEF PagesInv, Integrity, ReportsHaveIssues
    <3> QED
      BY <1>1, <2>4, <3>1, IssueStaysItself DEF PagesInv
  <2>6. \E s \in ListIssueReports(db', ids, i.app, i.id, 1, 1) : s.at >= r.at
    <3>1. IsFiniteSet(db'.reports) /\ db'.reports \subseteq ReportRow
      BY <1>1 DEF PagesInv, StoreTypeOK
    <3> QED
      BY <1>1, <2>4, <3>1, LatestIsThere
  <2> QED
    BY <2>2, <2>5, <2>6 DEF pageIssueDetail
<1>2. PagesInv /\ PagesInv' /\ [StoreNext]_storeVars
      => [NewReports # {} =>
            \A i \in db.issues, sees \in Disturbed, ids \in IdOrders :
               LET page == pageIssueDetail(sees, ids, i.app, i.id, 1)
               IN  \A r \in page.reports :
                      /\ r.hash = i.hash
                      /\ \E s \in page.latest : s.at >= r.at]_storeVars
  BY <1>1
<1> QED
  BY <1>2, PagesInvHolds, PTL DEF StoreSpec, PageHangsTogether

-----------------------------------------------------------------------------
(* Sums and ranks *)

Take(s) == CHOOSE x \in s : TRUE

\* The recursion that a sum is computed by, for one more row.
SumStep(sum, counts, S) ==
    [s \in SUBSET S |-> IF s = {} THEN 0 ELSE counts[Take(s)] + sum[s \ {Take(s)}]]

\* The sizes of the parts of a set add up to its size, in whichever order the
\* sum takes them.
LEMMA PartsAddUp ==
    ASSUME NEW R, IsFiniteSet(R), NEW S, IsFiniteSet(S), NEW part \in [S -> SUBSET R],
           \A x, y \in S : x # y => part[x] \cap part[y] = {}
    PROVE  SumOf([x \in S |-> Cardinality(part[x])])
              = Cardinality({r \in R : \E x \in S : r \in part[x]})
<1> DEFINE counts == [x \in S |-> Cardinality(part[x])]
           cover(s) == {r \in R : \E x \in s : r \in part[x]}
           size == [s \in SUBSET S |-> Cardinality(cover(s))]
<1>1. \A s \in SUBSET S : s # {} => Take(s) \in s
  BY DEF Take
<1>2. size = SumStep(size, counts, S)
  <2> SUFFICES ASSUME NEW s \in SUBSET S
               PROVE  size[s] = IF s = {} THEN 0 ELSE counts[Take(s)] + size[s \ {Take(s)}]
    BY DEF SumStep
  <2>1. CASE s = {}
    <3>1. cover(s) = {}
      BY <2>1
    <3> QED
      BY <2>1, <3>1, FS_EmptySet
  <2>2. CASE s # {}
    <3> DEFINE x == Take(s)
               rest == cover(s \ {x})
    <3>1. x \in s /\ x \in S
      BY <1>1, <2>2
    <3>2. cover(s) = part[x] \cup rest /\ part[x] \cap rest = {}
      BY <3>1
    <3>3. part[x] \subseteq R /\ rest \subseteq R
      BY <3>1
    <3>4. counts[x] = Cardinality(part[x]) /\ size[s \ {x}] = Cardinality(rest)
          /\ size[s] = Cardinality(cover(s))
      BY <3>1
    <3> HIDE DEF x, rest, cover, counts, size
    <3>5. IsFiniteSet(part[x]) /\ IsFiniteSet(rest)
      BY <3>3, FS_Subset
    <3>6. Cardinality(part[x] \cup rest)
             = Cardinality(part[x]) + Cardinality(rest) - Cardinality(part[x] \cap rest)
      BY <3>5, FS_Union
    <3>7. Cardinality(part[x]) \in Nat /\ Cardinality(rest) \in Nat
      BY <3>5, FS_CardinalityType
    <3>8. Cardinality(part[x] \cap rest) = 0
      BY <3>2, FS_EmptySet
    <3>9. Cardinality(part[x] \cup rest) = Cardinality(part[x]) + Cardinality(rest)
      BY <3>6, <3>7, <3>8
    <3> QED
      BY <2>2, <3>2, <3>4, <3>9 DEF x
  <2> QED
    BY <2>1, <2>2
<1> HIDE DEF cover, counts
<1>3. ASSUME NEW sum, sum = SumStep(sum, counts, S) PROVE sum[S] = size[S]
  <2> DEFINE bad == {s \in SUBSET S : sum[s] # size[s]}
  <2>1. \A s \in SUBSET S :
           /\ sum[s] = IF s = {} THEN 0 ELSE counts[Take(s)] + sum[s \ {Take(s)}]
           /\ size[s] = IF s = {} THEN 0 ELSE counts[Take(s)] + size[s \ {Take(s)}]
    BY <1>2, <1>3 DEF SumStep
  <2> HIDE DEF size
  <2>2. CASE bad # {}
    <3>1. PICK A \in bad : \A B \in bad : B \subseteq A => B = A
      <4> HIDE DEF bad
      <4>1. bad \subseteq SUBSET S
        BY DEF bad
      <4> QED
        BY <2>2, <4>1, SmallestSet
    <3>2. A # {}
      BY <2>1, <3>1
    <3>3. Take(A) \in A
      BY <1>1, <3>1, <3>2
    <3>4. A \ {Take(A)} \in SUBSET S /\ A \ {Take(A)} \notin bad
      BY <3>1, <3>3
    <3>5. sum[A \ {Take(A)}] = size[A \ {Take(A)}]
      BY <3>4
    <3> QED
      BY <2>1, <3>1, <3>2, <3>5
  <2> QED
    BY <2>2
<1>4. SumOf(counts) = (CHOOSE sum : sum = SumStep(sum, counts, S))[S]
  <2>1. DOMAIN counts = S
    BY DEF counts
  <2> QED
    BY <2>1 DEF SumOf, MapThenSumSet, MapThenFoldSet, SumStep, Take
<1>5. (CHOOSE sum : sum = SumStep(sum, counts, S))
         = SumStep(CHOOSE sum : sum = SumStep(sum, counts, S), counts, S)
  BY <1>2, Zenon
<1>6. size[S] = Cardinality(cover(S))
  OBVIOUS
<1> HIDE DEF size
<1>7. SumOf(counts) = size[S]
  BY <1>3, <1>4, <1>5
<1> QED
  BY <1>6, <1>7 DEF cover, counts

\* Of the rows of an ordered list, those with fewer than so many ahead of them
\* are so many, or all.
LEMMA FirstRows ==
    ASSUME NEW V, IsFiniteSet(V), NEW ahead \in [V -> SUBSET V],
           \A v \in V : v \notin ahead[v],
           \A v, w \in V : w \in ahead[v] => ahead[w] \subseteq ahead[v],
           \A v, w \in V : v # w => v \in ahead[w] \/ w \in ahead[v],
           NEW limit \in Nat
    PROVE  LET first == {v \in V : Cardinality(ahead[v]) < limit}
           IN  Cardinality(first) = IF Cardinality(V) <= limit THEN Cardinality(V) ELSE limit
<1> DEFINE N == Cardinality(V)
           rank == [v \in V |-> Cardinality(ahead[v])]
           first == {v \in V : Cardinality(ahead[v]) < limit}
           shown == IF N <= limit THEN N ELSE limit
<1>1. N \in Nat
  BY FS_CardinalityType
<1>2. \A v \in V : IsFiniteSet(ahead[v]) /\ rank[v] \in Nat
  BY FS_Subset, FS_CardinalityType
<1>3. ASSUME NEW v \in V PROVE rank[v] < N
  <2>1. Cardinality(ahead[v]) <= N /\ (N = Cardinality(ahead[v]) => V = ahead[v])
    BY FS_Subset
  <2> QED
    BY <1>1, <1>2, <2>1
<1>4. ASSUME NEW v \in V, NEW w \in V, w \in ahead[v] PROVE rank[w] < rank[v]
  <2>1. ahead[w] \subseteq ahead[v] /\ ahead[w] # ahead[v]
    BY <1>4
  <2>2. Cardinality(ahead[w]) <= Cardinality(ahead[v])
        /\ Cardinality(ahead[w]) # Cardinality(ahead[v])
    BY <1>2, <2>1, FS_Subset
  <2> QED
    BY <1>2, <2>2
<1>5. ASSUME NEW v \in V, NEW w \in V, rank[v] = rank[w] PROVE v = w
  BY <1>2, <1>4, <1>5
<1>6. rank \in Injection(V, 0..(N - 1))
  <2>1. \A v \in V : rank[v] \in 0..(N - 1)
    BY <1>1, <1>2, <1>3
  <2> QED
    BY <1>5, <2>1 DEF Injection, IsInjective
<1>7. IsFiniteSet(0..(N - 1)) /\ Cardinality(0..(N - 1)) = N
  BY <1>1, FS_Interval
<1>8. \A n \in 0..(N - 1) : \E v \in V : rank[v] = n
  <2> HIDE DEF rank
  <2>1. rank \in Surjection(V, 0..(N - 1))
    BY <1>6, <1>7, FS_Injection
  <2> QED
    BY <2>1 DEF Surjection
<1>9. first = {v \in V : rank[v] < limit}
  OBVIOUS
<1> HIDE DEF rank, first
<1>10. shown \in Nat /\ IsFiniteSet(0..(shown - 1)) /\ Cardinality(0..(shown - 1)) = shown
  <2>1. shown \in Nat
    BY <1>1
  <2> HIDE DEF shown
  <2> QED
    BY <2>1, FS_Interval
<1> DEFINE place == [v \in first |-> rank[v]]
<1>11. place \in Injection(first, 0..(shown - 1))
  <2>1. \A v \in first : v \in V /\ rank[v] \in 0..(shown - 1)
    BY <1>1, <1>2, <1>3, <1>9
  <2> QED
    BY <1>5, <2>1 DEF Injection, IsInjective
<1>12. place \in Surjection(first, 0..(shown - 1))
  <2>1. \A n \in 0..(shown - 1) : \E v \in first : place[v] = n
    BY <1>1, <1>8, <1>9
  <2>2. place \in [first -> 0..(shown - 1)]
    BY <1>11 DEF Injection
  <2> QED
    BY <2>1, <2>2 DEF Surjection
<1> HIDE DEF place, shown
<1>13. Cardinality(first) = shown
  BY <1>10, <1>11, <1>12, FS_Injection
<1> QED
  BY <1>13 DEF first, shown

-----------------------------------------------------------------------------
(* The numbers of the dashboard *)

\* Rows of a table whose ids are rowids, each row with one of its own.
LEMMA TableIsFinite ==
    ASSUME NEW rows, Unique(rows), \A r \in rows : r.id \in Rowids
    PROVE  IsFiniteSet(rows)
<1> DEFINE id == [r \in rows |-> r.id]
<1>1. id \in Injection(rows, Rowids)
  BY DEF Injection, IsInjective, Unique
<1>2. IsFiniteSet(Rowids)
  BY MaxRowidAssumption, FS_Interval DEF Rowids
<1> QED
  BY <1>1, <1>2, FS_Injection

LEMMA TablesAreFinite ==
    ASSUME PagesInv
    PROVE  IsFiniteSet(db.apps) /\ IsFiniteSet(db.issues) /\ IsFiniteSet(db.reports)
<1>1. \A a \in db.apps : a.id \in Rowids
  BY DEF PagesInv, StoreTypeOK, AppRow
<1>2. \A i \in db.issues : i.id \in Rowids
  BY DEF PagesInv, StoreTypeOK, IssueRow
<1>3. Unique(db.apps) /\ Unique(db.issues)
  BY DEF PagesInv, Integrity, UniqueIds
<1> QED
  BY <1>1, <1>2, <1>3, TableIsFinite DEF PagesInv

\* A bar of a chart counts the reports of its day, also when there is none and
\* the query has no row for it.
LEMMA BarCountsItsDay ==
    ASSUME NEW rows, rows \subseteq ReportRow, IsFiniteSet(rows),
           NEW today \in Nat, NEW n \in 1..Days
    PROVE  perDay(rows, today)[n].count
              = Cardinality({r \in rows : r.at = today - (Days - 1) + n - 1})
<1> DEFINE cutoff == today - (Days - 1)
           day == cutoff + n - 1
           ofDay == {r \in rows : r.at = day}
<1>1. Days \in Nat /\ day \in Int /\ cutoff \in Int /\ day >= cutoff
  BY DashboardAssumption
<1>2. perDay(rows, today)[n].count
         = IF day \in DOMAIN ByDay(rows, cutoff) THEN ByDay(rows, cutoff)[day] ELSE 0
  BY DEF perDay
<1> HIDE DEF day, cutoff
<1>3. CASE day \in DOMAIN ByDay(rows, cutoff)
  BY <1>2, <1>3 DEF ByDay, day, cutoff
<1>4. CASE day \notin DOMAIN ByDay(rows, cutoff)
  <2>1. ofDay = {}
    BY <1>1, <1>4 DEF ByDay
  <2> QED
    BY <1>2, <1>4, <2>1, FS_EmptySet DEF day, cutoff
<1> QED
  BY <1>3, <1>4

\* The list of an app's issues, and whose the reports are that it counts.
LEMMA ListOfApp ==
    ASSUME PagesInv, NEW a \in db.apps
    PROVE  LET list == Selected(db, EveryIssue(a.id))
           IN  /\ list = {i \in db.issues : i.app = a.id /\ \E r \in db.reports : r.issue = i.id}
               /\ IsFiniteSet(list)
               /\ \A r \in ReportsOf(db, a.id) : \E i \in list : r.issue = i.id
               /\ \A i \in list : \A r \in db.reports : r.issue = i.id => r.app = a.id
               /\ \A i, j \in list : i.id = j.id => i = j
<1> DEFINE list == Selected(db, EveryIssue(a.id))
<1>1. \A r \in db.reports : r.id \in Rids
  BY DEF PagesInv, StoreTypeOK, ReportRow
<1>2. list = {i \in db.issues : i.app = a.id /\ \E r \in db.reports : r.issue = i.id}
  BY <1>1 DEF Selected, EveryIssue, Everything, Meets, Picked, AppExists
<1>3. IsFiniteSet(list)
  BY <1>2, TablesAreFinite, FS_Subset
<1>4. \A r \in ReportsOf(db, a.id) : \E i \in list : r.issue = i.id
  BY <1>2 DEF ReportsOf, PagesInv, Integrity, ReportsHaveIssues
<1>5. \A i, j \in db.issues : i.id = j.id => i = j
  BY DEF PagesInv, Integrity, UniqueIds, Unique
<1>6. \A i \in list : \A r \in db.reports : r.issue = i.id => r.app = a.id
  BY <1>2, <1>5 DEF PagesInv, Integrity, ReportsHaveIssues
<1> QED
  BY <1>2, <1>3, <1>4, <1>5, <1>6

\* The reports of an app are those of the issues on its list put together.
LEMMA ListAddsUp ==
    ASSUME PagesInv, NEW a \in db.apps
    PROVE  Cardinality(ReportsOf(db, a.id))
              = SumOf([i \in Selected(db, EveryIssue(a.id)) |->
                         ReportCount(db, EveryIssue(a.id), i)])
<1> DEFINE f == EveryIssue(a.id)
           list == Selected(db, f)
           part == [i \in list |-> Picked(db, f, i)]
<1>1. \A r \in db.reports : r.id \in Rids
  BY DEF PagesInv, StoreTypeOK, ReportRow
<1>2. \A i \in list : part[i] = {r \in db.reports : r.issue = i.id}
  BY <1>1 DEF Picked, Meets, EveryIssue, Everything
<1> HIDE DEF part
<1>3. part \in [list -> SUBSET db.reports]
  BY <1>2 DEF part
<1> HIDE DEF list, f
<1>4. \A i, j \in list : i # j => part[i] \cap part[j] = {}
  BY <1>2, ListOfApp DEF list, f
<1>5. {r \in db.reports : \E i \in list : r \in part[i]} = ReportsOf(db, a.id)
  <2>1. \A r \in db.reports : (\E i \in list : r \in part[i]) <=> r.app = a.id
    BY <1>2, ListOfApp DEF list, f, ReportsOf
  <2> QED
    BY <2>1 DEF ReportsOf
<1>6. SumOf([i \in list |-> Cardinality(part[i])]) = Cardinality(ReportsOf(db, a.id))
  <2>1. IsFiniteSet(list) /\ IsFiniteSet(db.reports)
    BY ListOfApp, TablesAreFinite DEF list, f
  <2> QED
    BY <1>3, <1>4, <1>5, <2>1, PartsAddUp
<1>7. [i \in list |-> Cardinality(part[i])] = [i \in list |-> ReportCount(db, f, i)]
  BY DEF part, ReportCount
<1> QED
  BY <1>6, <1>7 DEF list, f

\* The bars of an app's chart are the reports of its days put together.
LEMMA BarsAddUp ==
    ASSUME PagesInv, NEW a \in db.apps, NEW today \in Nat
    PROVE  LET chart == ReportsPerDay(db, a.id, today)
           IN  /\ DOMAIN chart = 1..Days
               /\ \A n \in 1..Days : chart[n].count
                     = Cardinality({r \in ReportsOf(db, a.id) : r.at = today - (Days - 1) + n - 1})
               /\ SumOf([n \in DOMAIN chart |-> chart[n].count]) =
                     Cardinality({r \in ReportsOf(db, a.id) :
                                     today - Days < r.at /\ r.at <= today})
<1> DEFINE rows == ReportsOf(db, a.id)
           chart == ReportsPerDay(db, a.id, today)
           part == [n \in 1..Days |-> {r \in rows : r.at = today - (Days - 1) + n - 1}]
<1>1. rows \subseteq db.reports /\ rows \subseteq ReportRow
  BY DEF ReportsOf, PagesInv, StoreTypeOK
<1>2. IsFiniteSet(rows)
  BY <1>1, TablesAreFinite, FS_Subset
<1>3. chart = perDay(rows, today)
  <2>1. a.id \in Rowids
    BY DEF PagesInv, StoreTypeOK, AppRow
  <2> QED
    BY <2>1, MaxRowidAssumption DEF ReportsPerDay, AllApps, Rowids
<1> HIDE DEF rows, chart
<1>4. DOMAIN chart = 1..Days
  BY <1>3 DEF perDay
<1>5. \A n \in 1..Days : chart[n].count = Cardinality(part[n])
  BY <1>1, <1>2, <1>3, BarCountsItsDay
<1>6. \A r \in rows : r.at \in Nat
  BY <1>1, TimesAssumption DEF ReportRow
<1>7. Days \in Nat
  BY DashboardAssumption
<1>8. {r \in rows : \E n \in 1..Days : r \in part[n]}
         = {r \in rows : today - Days < r.at /\ r.at <= today}
  <2>1. ASSUME NEW r \in rows
        PROVE  (\E n \in 1..Days : r.at = today - (Days - 1) + n - 1)
                  <=> today - Days < r.at /\ r.at <= today
    <3>1. today - Days < r.at /\ r.at <= today => r.at - (today - Days) \in 1..Days
      BY <1>6, <1>7
    <3>2. r.at = today - (Days - 1) + (r.at - (today - Days)) - 1
      BY <1>6, <1>7
    <3> QED
      BY <1>6, <1>7, <3>1, <3>2
  <2> QED
    BY <2>1
<1>9. SumOf([n \in 1..Days |-> Cardinality(part[n])])
         = Cardinality({r \in rows : today - Days < r.at /\ r.at <= today})
  <2> DEFINE days == 1..Days
  <2>1. part \in [days -> SUBSET rows]
    OBVIOUS
  <2>2. \A m, n \in days : m # n => part[m] \cap part[n] = {}
    BY <1>7
  <2>3. IsFiniteSet(days)
    BY <1>7, FS_Interval
  <2> HIDE DEF part, days
  <2>4. SumOf([n \in days |-> Cardinality(part[n])])
           = Cardinality({r \in rows : \E n \in days : r \in part[n]})
    BY <1>2, <2>1, <2>2, <2>3, PartsAddUp
  <2> QED
    BY <1>8, <2>4 DEF days
<1>10. [n \in 1..Days |-> chart[n].count] = [n \in 1..Days |-> Cardinality(part[n])]
  BY <1>5
<1> QED
  BY <1>4, <1>5, <1>9, <1>10 DEF rows, chart

\* A bar of an app's chart is those of its issues put together.
LEMMA IssueBarsAddUp ==
    ASSUME PagesInv, NEW a \in db.apps, NEW today \in Nat, NEW n \in 1..Days
    PROVE  ReportsPerDay(db, a.id, today)[n].count
              = SumOf([i \in Selected(db, EveryIssue(a.id)) |->
                         IssueReportsPerDay(db, i.id, today)[n].count])
<1> DEFINE list == Selected(db, EveryIssue(a.id))
           day == today - (Days - 1) + n - 1
           ofIssue(i) == {r \in db.reports : r.issue = i.id}
           part == [i \in list |-> {r \in db.reports : r.issue = i.id /\ r.at = day}]
           bars == [i \in list |-> IssueReportsPerDay(db, i.id, today)[n].count]
<1> HIDE DEF list, day
<1>1. /\ IsFiniteSet(list) /\ IsFiniteSet(db.reports)
      /\ db.reports \subseteq ReportRow
  BY ListOfApp, TablesAreFinite DEF list, PagesInv, StoreTypeOK
<1>2. bars = [i \in list |-> Cardinality(part[i])]
  <2>1. ASSUME NEW i \in list
        PROVE  IssueReportsPerDay(db, i.id, today)[n].count = Cardinality(part[i])
    <3>1. ofIssue(i) \subseteq ReportRow /\ IsFiniteSet(ofIssue(i))
      BY <1>1, FS_Subset
    <3>2. part[i] = {r \in ofIssue(i) : r.at = day}
      OBVIOUS
    <3> HIDE DEF ofIssue, part
    <3>3. perDay(ofIssue(i), today)[n].count = Cardinality({r \in ofIssue(i) : r.at = day})
      BY <3>1, BarCountsItsDay DEF day
    <3> QED
      BY <3>2, <3>3 DEF IssueReportsPerDay, ofIssue
  <2> QED
    BY <2>1
<1>3. {r \in db.reports : \E i \in list : r \in part[i]}
         = {r \in ReportsOf(db, a.id) : r.at = day}
  <2>1. \A r \in db.reports : (\E i \in list : r.issue = i.id) <=> r.app = a.id
    BY ListOfApp DEF list, ReportsOf
  <2> QED
    BY <2>1 DEF ReportsOf
<1>4. SumOf([i \in list |-> Cardinality(part[i])])
         = Cardinality({r \in db.reports : \E i \in list : r \in part[i]})
  <2>1. part \in [list -> SUBSET db.reports]
    OBVIOUS
  <2>2. \A i, j \in list : i # j => part[i] \cap part[j] = {}
    BY ListOfApp DEF list
  <2> HIDE DEF part
  <2> QED
    BY <1>1, <2>1, <2>2, PartsAddUp
<1>5. ReportsPerDay(db, a.id, today)[n].count
         = Cardinality({r \in ReportsOf(db, a.id) : r.at = day})
  BY BarsAddUp DEF day
<1> QED
  BY <1>2, <1>3, <1>4, <1>5 DEF list

\* A bar of the dashboard's chart is those of the apps put together.
LEMMA AppBarsAddUp ==
    ASSUME PagesInv, NEW today \in Nat, NEW n \in 1..Days
    PROVE  ReportsPerDay(db, AllApps, today)[n].count
              = SumOf([a \in db.apps |-> ReportsPerDay(db, a.id, today)[n].count])
<1> DEFINE day == today - (Days - 1) + n - 1
           part == [a \in db.apps |-> {r \in db.reports : r.app = a.id /\ r.at = day}]
<1> HIDE DEF day
<1>1. /\ IsFiniteSet(db.apps) /\ IsFiniteSet(db.reports)
      /\ db.reports \subseteq ReportRow
  BY TablesAreFinite DEF PagesInv, StoreTypeOK
<1>2. [a \in db.apps |-> ReportsPerDay(db, a.id, today)[n].count]
         = [a \in db.apps |-> Cardinality(part[a])]
  <2>1. ASSUME NEW a \in db.apps
        PROVE  ReportsPerDay(db, a.id, today)[n].count = Cardinality(part[a])
    <3>1. ReportsPerDay(db, a.id, today)[n].count
             = Cardinality({r \in ReportsOf(db, a.id) : r.at = day})
      BY BarsAddUp DEF day
    <3>2. {r \in ReportsOf(db, a.id) : r.at = day} = part[a]
      BY DEF ReportsOf
    <3> QED
      BY <3>1, <3>2
  <2> QED
    BY <2>1
<1>3. {r \in db.reports : \E a \in db.apps : r \in part[a]} = {r \in db.reports : r.at = day}
  <2>1. \A r \in db.reports : \E a \in db.apps : a.id = r.app
    BY DEF PagesInv, Integrity, ReportsHaveIssues, IssuesHaveApps, AppExists
  <2> QED
    BY <2>1
<1>4. SumOf([a \in db.apps |-> Cardinality(part[a])])
         = Cardinality({r \in db.reports : \E a \in db.apps : r \in part[a]})
  <2>1. part \in [db.apps -> SUBSET db.reports]
    OBVIOUS
  <2>2. \A a, b \in db.apps : a # b => part[a] \cap part[b] = {}
    BY DEF PagesInv, Integrity, UniqueIds, Unique
  <2> HIDE DEF part
  <2> QED
    BY <1>1, <2>1, <2>2, PartsAddUp
<1>5. ReportsPerDay(db, AllApps, today)[n].count = Cardinality({r \in db.reports : r.at = day})
  BY <1>1, BarCountsItsDay DEF ReportsPerDay, day
<1> QED
  BY <1>2, <1>3, <1>4, <1>5

\* The top issues are the first page of the list: the two queries select the
\* same rows, and order them in the same way.
LEMMA TopIsFirstPage ==
    ASSUME PagesInv, NEW a \in db.apps
    PROVE  TopIssues(db, a.id, PerPage) = ListIssues(db, EveryIssue(a.id), 1)
<1> DEFINE f == EveryIssue(a.id)
           list == Selected(db, f)
           before(i) == {j \in list : Newer(j, i)}
<1>1. a.id \in Rowids /\ a.id # AllApps
  <2>1. a.id \in Rowids
    BY DEF PagesInv, StoreTypeOK, AppRow
  <2> QED
    BY <2>1, MaxRowidAssumption DEF AllApps, Rowids
<1>2. {i \in db.issues : /\ a.id \in {AllApps, i.app} /\ AppExists(db, i.app)
                         /\ \E r \in db.reports : r.issue = i.id} = list
  BY <1>1, ListOfApp DEF AppExists
<1>3. TopIssues(db, a.id, PerPage) = {i \in list : Cardinality(before(i)) < PerPage}
  BY <1>2 DEF TopIssues
<1>4. ASSUME NEW i \in list
      PROVE  /\ Cardinality(IssuesAhead(db, f, i)) = Cardinality(before(i))
             /\ Cardinality(before(i)) \in Nat
  <2> DEFINE id == [j \in before(i) |-> j.id]
  <2>1. before(i) = {k \in Selected(db, f) : Precedes(db, f, k, i)}
    BY DEF Precedes, EveryIssue
  <2>2. IsFiniteSet(before(i))
    BY ListOfApp, FS_Subset
  <2>3. id \in Injection(before(i), IssuesAhead(db, f, i))
    <3>1. \A j, k \in before(i) : j.id = k.id => j = k
      BY ListOfApp
    <3>2. id \in [before(i) -> IssuesAhead(db, f, i)]
      BY <2>1 DEF IssuesAhead
    <3> QED
      BY <3>1, <3>2 DEF Injection, IsInjective
  <2>4. id \in Surjection(before(i), IssuesAhead(db, f, i))
    <3>1. id \in [before(i) -> IssuesAhead(db, f, i)]
      BY <2>1 DEF IssuesAhead
    <3>2. \A n \in IssuesAhead(db, f, i) : \E j \in before(i) : id[j] = n
      BY <2>1 DEF IssuesAhead
    <3> QED
      BY <3>1, <3>2 DEF Surjection
  <2> HIDE DEF before, id
  <2>5. Cardinality(IssuesAhead(db, f, i)) = Cardinality(before(i))
    BY <2>2, <2>3, <2>4, FS_Surjection
  <2> QED
    BY <2>2, <2>5, FS_CardinalityType
<1> HIDE DEF f, before
<1>5. \A i \in list : OnPage(Cardinality(IssuesAhead(db, f, i)), 1, PerPage)
                         <=> Cardinality(before(i)) < PerPage
  BY <1>4, PerPageAssumption DEF OnPage
<1> QED
  BY <1>3, <1>5 DEF ListIssues, f

\* A breakdown has a row for each value that it has room for, and those of all
\* values count each report.
LEMMA BreakdownAddsUp ==
    ASSUME PagesInv, NEW a \in db.apps, NEW column \in [Rids -> Values]
    PROVE  LET rows == Breakdown(db, column, a.id)
               all  == AppStats(db, column, a.id).installs
           IN  IF all <= TopModels
               THEN /\ Cardinality(rows) = all
                    /\ SumOf([row \in rows |-> row.count]) = Cardinality(ReportsOf(db, a.id))
               ELSE Cardinality(rows) = TopModels
<1> DEFINE reports == ReportsOf(db, a.id)
           values == {column[r.id] : r \in reports}
           having(v) == {r \in reports : column[r.id] = v}
           ahead == [v \in values |->
                       {w \in values : \/ Cardinality(having(w)) > Cardinality(having(v))
                                       \/ /\ Cardinality(having(w)) = Cardinality(having(v))
                                          /\ w < v}]
           first == {v \in values : Cardinality(ahead[v]) < TopModels}
           rowOf == [v \in first |-> [label |-> v, unknown |-> v = 0,
                                      count |-> Cardinality(having(v))]]
           rows == Breakdown(db, column, a.id)
           all == Cardinality(values)
<1>1. IsFiniteSet(reports) /\ \A r \in reports : r.id \in Rids
  <2>1. reports \subseteq db.reports /\ reports \subseteq ReportRow
    BY DEF ReportsOf, PagesInv, StoreTypeOK
  <2> HIDE DEF reports
  <2> QED
    BY <2>1, TablesAreFinite, FS_Subset DEF ReportRow
<1>2. AppStats(db, column, a.id).installs = all
  BY DEF AppStats
<1>3. \A row : row \in rows <=> \E v \in first : row = rowOf[v]
  <2> DEFINE some == {w \in values :
                        Cardinality({u \in values :
                           \/ Cardinality(having(u)) > Cardinality(having(w))
                           \/ (Cardinality(having(u)) = Cardinality(having(w)) /\ u < w)})
                        < TopModels}
             full(v) == [label |-> v, unknown |-> v = 0, count |-> Cardinality(having(v))]
  <2>1. rows = {full(v) : v \in some}
    BY Zenon DEF Breakdown
  <2>2. some = first
    OBVIOUS
  <2> HIDE DEF some, first, rows
  <2>3. \A v \in first : rowOf[v] = full(v)
    BY Zenon
  <2> HIDE DEF full, rowOf
  <2> QED
    BY <2>1, <2>2, <2>3
<1> HIDE DEF reports
<1>4. IsFiniteSet(values)
  <2> DEFINE value == [r \in reports |-> column[r.id]]
  <2>1. value \in Surjection(reports, values)
    BY DEF Surjection
  <2> HIDE DEF value, values
  <2> QED
    BY <1>1, <2>1, FS_Surjection
<1>5. values \subseteq Nat
  BY <1>1, DashboardAssumption
<1>6. \A v : Cardinality(having(v)) \in Nat
  <2> SUFFICES ASSUME NEW v PROVE Cardinality(having(v)) \in Nat
    OBVIOUS
  <2>1. having(v) \subseteq reports
    OBVIOUS
  <2> HIDE DEF having
  <2> QED
    BY <1>1, <2>1, FS_Subset, FS_CardinalityType
<1>7. all \in Nat
  BY <1>4, FS_CardinalityType
<1> HIDE DEF values, having
<1>8. Cardinality(first) = IF all <= TopModels THEN all ELSE TopModels
  <2>1. ahead \in [values -> SUBSET values]
    OBVIOUS
  <2>2. \A v \in values : v \notin ahead[v]
    BY <1>5, <1>6
  <2>3. \A v, w \in values : w \in ahead[v] => ahead[w] \subseteq ahead[v]
    <3> SUFFICES ASSUME NEW v \in values, NEW w \in values, w \in ahead[v],
                        NEW u \in values, u \in ahead[w]
                 PROVE  u \in ahead[v]
      OBVIOUS
    <3>1. u \in Nat /\ v \in Nat /\ w \in Nat
      BY <1>5
    <3> QED
      BY <1>6, <3>1
  <2>4. \A v, w \in values : v # w => v \in ahead[w] \/ w \in ahead[v]
    BY <1>5, <1>6
  <2> HIDE DEF ahead
  <2> QED
    BY <1>4, <2>1, <2>2, <2>3, <2>4, DashboardAssumption, FirstRows
<1>9. IsFiniteSet(first) /\ first \subseteq values
  BY <1>4, FS_Subset
<1> HIDE DEF first
<1>10. \A v, w \in first : rowOf[v] = rowOf[w] => v = w
  <2> SUFFICES ASSUME NEW v \in first, NEW w \in first, rowOf[v] = rowOf[w] PROVE v = w
    OBVIOUS
  <2>1. rowOf[v].label = v /\ rowOf[w].label = w
    OBVIOUS
  <2> QED
    BY <2>1
<1>11. \A v \in first : rowOf[v].count = Cardinality(having(v))
  OBVIOUS
<1>12. rowOf = [v \in first |-> rowOf[v]]
  OBVIOUS
<1> HIDE DEF rowOf, rows
<1>13. IsFiniteSet(rows) /\ Cardinality(rows) = Cardinality(first)
  <2>1. rowOf \in [first -> rows]
    BY <1>3, <1>12
  <2>2. rowOf \in Injection(first, rows)
    BY <1>10, <2>1 DEF Injection, IsInjective
  <2>3. rowOf \in Surjection(first, rows)
    BY <1>3, <2>1 DEF Surjection
  <2> QED
    BY <1>9, <2>2, <2>3, FS_Surjection
<1>14. ASSUME all <= TopModels
       PROVE  SumOf([row \in rows |-> row.count]) = Cardinality(reports)
  <2> DEFINE part == [row \in rows |-> {r \in reports : rowOf[column[r.id]] = row}]
  <2>1. first = values
    BY <1>4, <1>7, <1>8, <1>9, <1>14, FS_Subset
  <2>2. \A r \in reports : column[r.id] \in first
    BY <2>1 DEF values
  <2>3. \A row \in rows : row.count = Cardinality(part[row])
    <3> SUFFICES ASSUME NEW row \in rows PROVE row.count = Cardinality(part[row])
      OBVIOUS
    <3>1. PICK v \in first : row = rowOf[v]
      BY <1>3
    <3>2. part[row] = having(v)
      BY <1>10, <2>2, <3>1 DEF having
    <3> QED
      BY <1>11, <3>1, <3>2
  <2>4. [row \in rows |-> row.count] = [row \in rows |-> Cardinality(part[row])]
    BY <2>3
  <2>5. {r \in reports : \E row \in rows : r \in part[row]} = reports
    BY <1>3, <2>2
  <2>6. part \in [rows -> SUBSET reports]
    OBVIOUS
  <2>7. \A x, y \in rows : x # y => part[x] \cap part[y] = {}
    OBVIOUS
  <2> HIDE DEF part
  <2>8. SumOf([row \in rows |-> Cardinality(part[row])])
           = Cardinality({r \in reports : \E row \in rows : r \in part[row]})
    BY <1>1, <1>13, <2>6, <2>7, PartsAddUp
  <2> QED
    BY <2>4, <2>5, <2>8
<1> HIDE DEF all
<1>15. Cardinality(rows) = IF all <= TopModels THEN all ELSE TopModels
  BY <1>8, <1>13
<1> QED
  BY <1>2, <1>14, <1>15 DEF rows, reports

\* Of every reachable database: the numbers of the dashboard agree with each
\* other and with the lists, whatever has been deleted before.
THEOREM NumbersAgree == StoreSpec => []CountsAgree
<1>1. PagesInv => CountsAgree
  <2> SUFFICES ASSUME PagesInv PROVE CountsAgree
    OBVIOUS
  <2>1. ShownOn \subseteq Nat
    <3>1. \A t \in Times : t \in Nat /\ t + 1 \in Nat
      BY TimesAssumption
    <3> QED
      BY <3>1 DEF ShownOn
  <2>2. ASSUME NEW o \in AppOverview(db)
        PROVE  LET app   == o.app.id
                   stats == AppStats(db, [r \in Rids |-> 0], app)
                   list  == Selected(db, EveryIssue(app))
               IN  /\ stats.reports = o.reports /\ stats.open = o.open /\ stats.last = o.last
                   /\ stats.reports =
                         SumOf([i \in list |-> ReportCount(db, EveryIssue(app), i)])
                   /\ \A column \in [Rids -> Values] :
                         LET rows == Breakdown(db, column, app)
                             all  == AppStats(db, column, app).installs
                         IN  IF all <= TopModels
                             THEN /\ Cardinality(rows) = all
                                  /\ SumOf([row \in rows |-> row.count]) = stats.reports
                             ELSE Cardinality(rows) = TopModels
                   /\ TopIssues(db, app, PerPage) = ListIssues(db, EveryIssue(app), 1)
    <3>1. PICK a \in db.apps :
             o = [app     |-> a,
                  reports |-> Cardinality(ReportsOf(db, a.id)),
                  open    |-> IssuesOf(db, a.id, "open"),
                  last    |-> LastReportAt(ReportsOf(db, a.id))]
      BY <2>2 DEF AppOverview
    <3> DEFINE stats == AppStats(db, [r \in Rids |-> 0], a.id)
               list == Selected(db, EveryIssue(a.id))
    <3>2. /\ o.app.id = a.id
          /\ stats.reports = o.reports /\ stats.open = o.open /\ stats.last = o.last
          /\ stats.reports = Cardinality(ReportsOf(db, a.id))
      BY <3>1 DEF AppStats
    <3> HIDE DEF stats
    <3>3. stats.reports = SumOf([i \in list |-> ReportCount(db, EveryIssue(a.id), i)])
      BY <3>2, ListAddsUp
    <3>4. \A column \in [Rids -> Values] :
             LET rows == Breakdown(db, column, a.id)
                 all  == AppStats(db, column, a.id).installs
             IN  IF all <= TopModels
                 THEN /\ Cardinality(rows) = all
                      /\ SumOf([row \in rows |-> row.count]) = stats.reports
                 ELSE Cardinality(rows) = TopModels
      BY <3>2, BreakdownAddsUp
    <3>5. TopIssues(db, a.id, PerPage) = ListIssues(db, EveryIssue(a.id), 1)
      BY TopIsFirstPage
    <3> QED
      BY <3>2, <3>3, <3>4, <3>5, Zenon DEF stats
  <2>3. ASSUME NEW o \in AppOverview(db), NEW today \in ShownOn
        PROVE  LET app   == o.app.id
                   list  == Selected(db, EveryIssue(app))
                   chart == ReportsPerDay(db, app, today)
               IN  /\ SumOf([n \in DOMAIN chart |-> chart[n].count]) =
                         Cardinality({r \in ReportsOf(db, app) :
                                         today - Days < r.at /\ r.at <= today})
                   /\ \A n \in DOMAIN chart : chart[n].count =
                         SumOf([i \in list |-> IssueReportsPerDay(db, i.id, today)[n].count])
    <3>1. PICK a \in db.apps : o.app = a
      BY <2>3 DEF AppOverview
    <3> DEFINE chart == ReportsPerDay(db, a.id, today)
               list == Selected(db, EveryIssue(a.id))
    <3>2. today \in Nat
      BY <2>1, <2>3
    <3>3. /\ DOMAIN chart = 1..Days
          /\ SumOf([n \in DOMAIN chart |-> chart[n].count]) =
                Cardinality({r \in ReportsOf(db, a.id) :
                                today - Days < r.at /\ r.at <= today})
      BY <3>2, BarsAddUp
    <3>4. \A n \in DOMAIN chart : chart[n].count =
             SumOf([i \in list |-> IssueReportsPerDay(db, i.id, today)[n].count])
      BY <3>2, <3>3, IssueBarsAddUp
    <3> QED
      BY <3>1, <3>3, <3>4, Zenon
  <2>4. \A today \in ShownOn, n \in 1..Days :
           ReportsPerDay(db, AllApps, today)[n].count =
              SumOf([a \in db.apps |-> ReportsPerDay(db, a.id, today)[n].count])
    BY <2>1, AppBarsAddUp
  <2> QED
    BY <2>2, <2>4, <2>3, Zenon DEF CountsAgree
<1> QED
  BY <1>1, PagesInvHolds, PTL

=============================================================================
