----------------------------- MODULE IssuePages -----------------------------
(***************************************************************************)
(* The issue pages of the dashboard while the store's operations go on:    *)
(* what a page shows, in which order, and which other pages it links to.   *)
(*                                                                         *)
(* A page is put together from several statements, each of which sees the  *)
(* database as it is then, and a reader walks from page to page by         *)
(* position (LIMIT, OFFSET): rows move under both.  A statement is an      *)
(* operator of the database it sees here; the properties relate what it    *)
(* sees before and after a step of CrashStore.                             *)
(***************************************************************************)
EXTENDS CrashStore, FiniteSets

CONSTANTS
    PerPage,    \* rows of a page: 25
    Wheres      \* what readers ask of reports: the reports that meet the conditions
                \* on version, device and date ("picks"), those with the text
                \* of the search in the stack trace, and in the title

\* A condition that is not asked for is left out.
Everything == [picks |-> Rids, texts |-> Rids, titles |-> Rids]

ASSUME PerPageAssumption == PerPage \in Nat \ {0}

ASSUME WheresAssumption ==
    /\ Everything \in Wheres
    /\ Wheres \subseteq [picks : SUBSET Rids, texts : SUBSET Rids, titles : SUBSET Rids]

\* LIMIT perPage OFFSET (page-1)*perPage, for a row with so many ahead of it;
\* and a mutant of it that counts pages from zero.
OnPageFromZero(ahead, page, perPage) ==
    page * perPage <= ahead /\ ahead < page * perPage + perPage

OnPage(ahead, page, perPage) ==
    (page - 1) * perPage <= ahead /\ ahead < (page - 1) * perPage + perPage

\* An empty list has a page, too.
PageCount(total) == IF total = 0 THEN 1 ELSE (total + PerPage - 1) \div PerPage

\* The page numbers that a page links to (0, the ellipsis, is no link).
pageNums(total, page) ==
    LET pages == PageCount(total)
        here  == IF page > pages THEN pages ELSE page
    IN  IF pages <= 9
        THEN 1..pages
        ELSE {1, pages} \cup {n \in 1..pages : here - 2 <= n /\ n <= here + 2}

-----------------------------------------------------------------------------
(* ListIssues *)

IssueFilter == [app : Rowids, status : Statuses \cup {"any"}, where : Wheres,
                sort : {"last", "count"}]

\* The conditions of issueWhere on a row of the JOIN.  A search finds a report by
\* its own stack trace, or by the title that its issue has now, which is that
\* of the last report stored under it: the others are settled with the report.
Meets(where, i, r) ==
    /\ r.id \in where.picks
    /\ i.title \in where.titles \/ r.id \in where.texts

\* The rows of the JOIN that make up an issue's group.
Picked(d, f, i) == {r \in d.reports : r.issue = i.id /\ Meets(f.where, i, r)}

\* issueWhere and GROUP BY: an issue with no report that is picked has no row.
Selected(d, f) ==
    {i \in d.issues : /\ i.app = f.app /\ AppExists(d, i.app)
                      /\ f.status \in {"any", i.status}
                      /\ Picked(d, f, i) # {}}

ReportCount(d, f, i) == Cardinality(Picked(d, f, i))

\* Equal dates are left open by the query; SQLite keeps the order of the
\* groups, which is that of their rowids.
Newer(j, i) == j.last > i.last \/ (j.last = i.last /\ j.id < i.id)

\* Mutant of Precedes: "ORDER BY i.last_seen_at", without DESC.
PrecedesOldestFirst(d, f, j, i) == Newer(i, j)

\* ORDER BY.
Precedes(d, f, j, i) ==
    IF f.sort = "count"
    THEN \/ ReportCount(d, f, j) > ReportCount(d, f, i)
         \/ ReportCount(d, f, j) = ReportCount(d, f, i) /\ Newer(j, i)
    ELSE Newer(j, i)

IssuesAhead(d, f, i) == {j.id : j \in {k \in Selected(d, f) : Precedes(d, f, k, i)}}

\* The two statements of ListIssues.
CountIssues(d, f) == Cardinality(Selected(d, f))

ListIssues(d, f, page) ==
    {i \in Selected(d, f) : OnPage(Cardinality(IssuesAhead(d, f, i)), page, PerPage)}

\* What the page shows when the first statement sees one database and the
\* second another.
pageIssues(counted, listed, f, page) ==
    [issues |-> ListIssues(listed, f, page),
     pages  |-> pageNums(CountIssues(counted, f), page)]

-----------------------------------------------------------------------------
(* The page of an issue *)

GetIssue(d, app, issue) == {i \in d.issues : i.id = issue /\ i.app = app /\ AppExists(d, app)}

IssueReports(d, app, issue) == {r \in d.reports : r.app = app /\ r.issue = issue}

\* Report ids are strings, and the query settles equal dates by them: a
\* function that says how they compare, any one of them in the properties.
IdOrders == {ids \in [Rids -> 1..Cardinality(Rids)] :
                \A a, b \in Rids : a # b => ids[a] # ids[b]}

\* ORDER BY received_at DESC, id DESC.
ReportsAhead(d, ids, r) ==
    {s \in IssueReports(d, r.app, r.issue) :
        s.at > r.at \/ (s.at = r.at /\ ids[s.id] > ids[r.id])}

ListIssueReports(d, ids, app, issue, page, perPage) ==
    {r \in IssueReports(d, app, issue) :
        OnPage(Cardinality(ReportsAhead(d, ids, r)), page, perPage)}

\* Mutant of pageIssueDetail: the latest report is read before the list.
pageIssueDetailLatestFirst(sees, ids, app, issue, page) ==
    [issue   |-> GetIssue(sees[1], app, issue),
     pages   |-> pageNums(Cardinality(IssueReports(sees[2], app, issue)), page),
     latest  |-> ListIssueReports(sees[3], ids, app, issue, 1, 1),
     reports |-> ListIssueReports(sees[4], ids, app, issue, page, PerPage)]

\* What the page shows when its n-th statement sees the database sees[n].
pageIssueDetail(sees, ids, app, issue, page) ==
    [issue   |-> GetIssue(sees[1], app, issue),
     pages   |-> pageNums(Cardinality(IssueReports(sees[2], app, issue)), page),
     reports |-> ListIssueReports(sees[3], ids, app, issue, page, PerPage),
     latest  |-> ListIssueReports(sees[4], ids, app, issue, 1, 1)]

\* No commit comes between the statements.
Undisturbed == [n \in 1..4 |-> db]

\* The step is a commit after some statement and before the next.
Disturbed == {[n \in 1..4 |-> IF n <= k THEN db ELSE db'] : k \in 1..3}

-----------------------------------------------------------------------------
(* What a reader of the pages may rely on *)

\* On a quiet database, a reader who follows the links from page to page sees
\* each issue that meets the filter on one page and on one only, and each report
\* of an issue on one page of the issue; and the stack trace at the top is that
\* of a report on the first page.
PagesCoverAll ==
    /\ \A f \in IssueFilter :
          LET last    == PageCount(CountIssues(db, f))
              page(n) == pageIssues(db, db, f, n)
              shown   == [n \in 1..last |-> page(n).issues]
          IN  /\ \A n \in 1..(last - 1) : n + 1 \in page(n).pages
              /\ \A i \in Selected(db, f) :
                    \E n \in 1..last : \A m \in 1..last : i \in shown[m] <=> m = n
    /\ \A i \in db.issues, ids \in IdOrders :
          LET last    == PageCount(Cardinality(IssueReports(db, i.app, i.id)))
              page(n) == pageIssueDetail(Undisturbed, ids, i.app, i.id, n)
              shown   == [n \in 1..last |-> page(n).reports]
          IN  /\ page(1).issue = {i}
              /\ page(1).latest \subseteq page(1).reports
              /\ \A n \in 1..(last - 1) : n + 1 \in page(n).pages
              /\ \A r \in db.reports : r.issue = i.id =>
                    \E n \in 1..last : \A m \in 1..last : r \in shown[m] <=> m = n

\* The search finds the title of the issue under which the report is stored, but not
\* the one that the issue has from the report on.
LosesTitle(f, r) ==
    \E j \in db.issues :
        j.id = r.issue /\ j.title \in f.where.titles /\ r.id \notin f.where.titles

\* A reader who goes from page to page does not miss an issue because reports
\* come in meanwhile: a report of another issue never brings an issue forward,
\* to a page that has been read already, whichever way the list is sorted and
\* filtered.  Three things do: a filter for resolved issues, which one that is
\* reopened leaves; a report that is late, so that it takes its issue's date
\* back; and a search that has found its issue by the title, when the report
\* brings another title, which the search does not find.
IssuesNotSkipped ==
    [][\A r \in NewReports : (\A j \in db.issues : j.last <= r.at) =>
          \A f \in IssueFilter : f.status # "resolved" /\ ~LosesTitle(f, r) =>
             \A i \in Selected(db, f) : r.issue # i.id =>
                Cardinality(IssuesAhead(db, f, i)) <= Cardinality(IssuesAhead(db', f, i))]_storeVars

\* Nor does a reader of an issue's reports miss one, unless a report is
\* deleted: not even a late report brings another one forward.
ReportsNotSkipped ==
    [][(\A s \in db.reports : \E t \in db'.reports : t.id = s.id) =>
          \A ids \in IdOrders : \A r \in db.reports \cap db'.reports :
             Cardinality(ReportsAhead(db, ids, r)) <= Cardinality(ReportsAhead(db', ids, r))]_storeVars

\* The page of an issue hangs together although a report comes in between its
\* statements: what it lists is of the issue it names, it has a latest report
\* if it lists any, and that one is not older than any it lists.
PageHangsTogether ==
    [][NewReports # {} =>
          \A i \in db.issues, sees \in Disturbed, ids \in IdOrders :
             LET page == pageIssueDetail(sees, ids, i.app, i.id, 1)
             IN  \A r \in page.reports :
                    /\ r.hash = i.hash
                    /\ \E s \in page.latest : s.at >= r.at]_storeVars

=============================================================================
