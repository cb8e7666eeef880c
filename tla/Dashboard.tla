----------------------------- MODULE Dashboard -----------------------------
(***************************************************************************)
(* The numbers on the dashboard and on the page of an app                  *)
(* (internal/store/analytics.go), each an operator of the database that    *)
(* its statement sees: charts, totals, breakdowns and the top issues.      *)
(* They are counted in different tables and by different columns, and the  *)
(* admin compares them with each other and with the issue pages.           *)
(*                                                                         *)
(* Dates are days here, which is what the charts make of received_at.      *)
(***************************************************************************)
EXTENDS IssuePages, FiniteSetsExt

CONSTANTS
    Values,     \* of a column like phone_model or installation_id; 0 is the
                \* empty string
    Days,       \* days of a chart: 30
    TopModels   \* rows of a breakdown: 8

ASSUME DashboardAssumption ==
    /\ Values \subseteq Nat
    /\ Days \in Nat \ {0} /\ TopModels \in Nat \ {0}

ReportsOf(d, app) == {r \in d.reports : r.app = app}

-----------------------------------------------------------------------------
(* Charts *)

\* GROUP BY day, of the rows since the cutoff.
ByDay(rows, cutoff) ==
    [day \in {r.at : r \in {s \in rows : s.at >= cutoff}} |->
        Cardinality({r \in rows : r.at = day})]

\* Mutant of perDay: the cutoff is as many days back as the chart is long.
perDayShifted(rows, today) ==
    LET cutoff == today - Days  byDay == ByDay(rows, cutoff)
    IN  [n \in 1..Days |->
            LET day == cutoff + n - 1
            IN  [label |-> day, count |-> IF day \in DOMAIN byDay THEN byDay[day] ELSE 0]]

\* The days from the cutoff on, with a zero for those without a report.
perDay(rows, today) ==
    LET cutoff == today - (Days - 1)  byDay == ByDay(rows, cutoff)
    IN  [n \in 1..Days |->
            LET day == cutoff + n - 1
            IN  [label |-> day, count |-> IF day \in DOMAIN byDay THEN byDay[day] ELSE 0]]

\* The dashboard's chart is that of no app: of all.
AllApps == 0

ReportsPerDay(d, app, today) ==
    perDay(IF app = AllApps THEN d.reports ELSE ReportsOf(d, app), today)

IssueReportsPerDay(d, issue, today) == perDay({r \in d.reports : r.issue = issue}, today)

-----------------------------------------------------------------------------
(* Totals *)

NoDate == -1

LastReportAt(rows) == IF rows = {} THEN NoDate ELSE Max({r.at : r \in rows})

IssuesOf(d, app, status) == Cardinality({i \in d.issues : i.app = app /\ i.status = status})

\* "installs" says which installation a report is from.
AppStats(d, installs, app) ==
    [reports  |-> Cardinality(ReportsOf(d, app)),
     open     |-> IssuesOf(d, app, "open"),
     resolved |-> IssuesOf(d, app, "resolved"),
     installs |-> Cardinality({installs[r.id] : r \in ReportsOf(d, app)}),
     last     |-> LastReportAt(ReportsOf(d, app))]

AppOverview(d) ==
    {[app     |-> a,
      reports |-> Cardinality(ReportsOf(d, a.id)),
      open    |-> IssuesOf(d, a.id, "open"),
      last    |-> LastReportAt(ReportsOf(d, a.id))] : a \in d.apps}

\* Breakdown by a column: a row for each value, the most frequent first, equal ones by
\* value, and no more than so many.  The empty string is shown
\* as "(unknown)".
Breakdown(d, column, app) ==
    LET rows     == ReportsOf(d, app)
        count(v) == Cardinality({r \in rows : column[r.id] = v})
        values   == {column[r.id] : r \in rows}
        ahead(v) == {w \in values : count(w) > count(v) \/ (count(w) = count(v) /\ w < v)}
    IN  {[label |-> v, unknown |-> v = 0, count |-> count(v)] :
            v \in {w \in values : Cardinality(ahead(w)) < TopModels}}

\* TopIssues: the same JOIN, dates and ids as the list of issues, of one app
\* or of all.
TopIssues(d, app, limit) ==
    LET rows == {i \in d.issues :
                    /\ app \in {AllApps, i.app} /\ AppExists(d, i.app)
                    /\ \E r \in d.reports : r.issue = i.id}
    IN  {i \in rows : Cardinality({j \in rows : Newer(j, i)}) < limit}

-----------------------------------------------------------------------------
SumOf(counts) == MapThenSumSet(LAMBDA x : counts[x], DOMAIN counts)

\* No condition on reports or status, sorted by date: what the page of issues
\* shows when it is first opened.
EveryIssue(app) ==
    [app |-> app, status |-> "any", where |-> Everything, sort |-> "last"]

\* The days on which a page may be shown: those of the reports, and the next.
ShownOn == Times \cup {t + 1 : t \in Times}

\* On a quiet database the numbers agree, although they come from different
\* tables, and whatever has been deleted and whichever ids have been given out
\* again: an app has the same totals on its page and on the dashboard; they are
\* those of its issues on the list put together; the charts show the reports of
\* their days, those of the issues put together are the app's, and those of the
\* apps the dashboard's; the breakdown of any column has every report when it has
\* room for all of its values; and the top issues are the beginning of the list.
CountsAgree ==
    /\ \A o \in AppOverview(db) :
          LET app   == o.app.id
              stats == AppStats(db, [r \in Rids |-> 0], app)
              list  == Selected(db, EveryIssue(app))
          IN  /\ stats.reports = o.reports /\ stats.open = o.open /\ stats.last = o.last
              /\ stats.reports =
                    SumOf([i \in list |-> ReportCount(db, EveryIssue(app), i)])
              /\ \A column \in [Rids -> Values] :
                    LET rows == Breakdown(db, column, app)
                        all  == AppStats(db, column, app).installs
                    IN  IF all <= TopModels
                        THEN /\ Cardinality(rows) = all
                             /\ SumOf([row \in rows |-> row.count]) = stats.reports
                        ELSE Cardinality(rows) = TopModels
              /\ TopIssues(db, app, PerPage) = ListIssues(db, EveryIssue(app), 1)
    /\ \A o \in AppOverview(db), today \in ShownOn :
          LET app   == o.app.id
              list  == Selected(db, EveryIssue(app))
              chart == ReportsPerDay(db, app, today)
          IN  /\ SumOf([n \in DOMAIN chart |-> chart[n].count]) =
                    Cardinality({r \in ReportsOf(db, app) :
                                    today - Days < r.at /\ r.at <= today})
              /\ \A n \in DOMAIN chart : chart[n].count =
                    SumOf([i \in list |-> IssueReportsPerDay(db, i.id, today)[n].count])
    /\ \A today \in ShownOn, n \in 1..Days :
          ReportsPerDay(db, AllApps, today)[n].count =
             SumOf([a \in db.apps |-> ReportsPerDay(db, a.id, today)[n].count])

=============================================================================
