------------------------------ MODULE WebAdmin ------------------------------
(***************************************************************************)
(* The admin's changes as the web interface makes them (internal/web,      *)
(* apps.go and issues.go): a handler changes the store in one statement,   *)
(* and reads what its page shows in others.  Every tab of the browser has  *)
(* its own page, which may be old, and its own request; the phones send    *)
(* reports all the time.  IngestServer has the same handlers as single     *)
(* steps, beside the ingest endpoint in detail.  A statement can fail, an  *)
(* answer be lost on its way, and the server be restarted, at any moment   *)
(* between the change and the page that the browser gets.                  *)
(*                                                                         *)
(* Ids are rowids, and are given out again.  Which app a key has ever been *)
(* of is therefore known by "origin": the key the app was created with, and *)
(* the number of the key.                                                  *)
(* The check of the session and of the form's token come before (Sessions).*)
(***************************************************************************)
EXTENDS CrashStore, FiniteSets

CONSTANTS
    Tabs,       \* tabs of the admin's browser
    None,       \* no app, no issue, no report, no key
    MaxOps,     \* bound: requests
    MaxReports, \* bound: reports sent by the phones
    MaxFaults   \* bound: statements that fail, answers that are lost, restarts

ASSUME WebAdminAssumption ==
    /\ None \notin Keys \cup Rids
    /\ MaxOps \in Nat /\ MaxReports \in Nat /\ MaxFaults \in Nat

VARIABLES
    tab,        \* what each tab shows, and the request that it has out
    old,        \* tabs whose issue has been deleted since it was read (history)
    origin,     \* the app each key has been put into (history)
    known,      \* keys whose page has come to the browser (history)
    lost,       \* keys whose page failed, was lost, or was cut off by a restart (history)
    ops,        \* bounded by MaxOps
    sent,       \* bounded by MaxReports
    faults      \* bounded by MaxFaults

adminVars == <<db, issued, tab, old, origin, known, lost, ops, sent, faults>>

-----------------------------------------------------------------------------
(* A tab: how far its request is ("page": it has none; "answer": a page with *)
(* what was changed is on its way to the browser), and the page that it shows *)
(* or will, whose ids are in its forms: the app and the issue as they *)
(* were read, the report, the new key.                                     *)

Page(app, issue, rid, key) ==
    [pc |-> "page", app |-> app, issue |-> issue, rid |-> rid, key |-> key]

\* The list of apps, with the key of a new one.
AppsPage(key) == Page(None, None, None, key)

\* A page without forms for an app or an issue: an error, or a list.
PlainPage == Page(None, None, None, None)

OnApp(t)    == tab[t].app # None /\ tab[t].issue = None

OnIssue(t)  == tab[t].issue # None /\ tab[t].rid = None

OnReport(t) == tab[t].rid # None

\* The tab t shows p, or will; the issues of the others may just have gone.
Show(t, p) ==
    /\ tab' = [tab EXCEPT ![t] = p]
    /\ old' = {u \in Tabs \ {t} :
                 \/ u \in old
                 \/ tab[u].issue # None /\ ~ \E i \in db'.issues : i.id = tab[u].issue.id}

Goto(t, pc) == Show(t, [tab[t] EXCEPT !.pc = pc])

\* The admin follows a link or sends a form of the page.
Request(t) == tab[t].pc = "page" /\ ops < MaxOps /\ ops' = ops + 1

\* A key that is made now for the app that was created with the key first.
Minted(first) == [first |-> first, number |-> Cardinality(issued')]

OriginOf(app) == origin[app.key].first

Fault == faults < MaxFaults /\ faults' = faults + 1

\* A step that leaves the store and what the keys are of alone.
Reads == UNCHANGED <<db, issued, origin, sent>>

AdminInit ==
    /\ StoreInit
    /\ tab = [t \in Tabs |-> PlainPage]
    /\ old = {}
    /\ origin = [k \in Keys |-> None]
    /\ known = {}
    /\ lost = {}
    /\ ops = 0
    /\ sent = 0
    /\ faults = 0

-----------------------------------------------------------------------------
(* apps.go *)

\* submitCreateApp: the INSERT.  A name that is taken gives the list of apps
\* with an error; a new app, the list with the key.
submitCreateApp(t, name, key) ==
    /\ Request(t)
    /\ \/ /\ Create(name, key)
          /\ origin' = [origin EXCEPT ![key] = Minted(key)]
          /\ Show(t, [AppsPage(key) EXCEPT !.pc = "overview"])
       \/ /\ NameTaken(db, name)
          /\ UNCHANGED <<db, issued, origin>>
          /\ Show(t, [AppsPage(None) EXCEPT !.pc = "overview"])
    /\ UNCHANGED <<known, lost, sent, faults>>

\* AppOverview, and the page is rendered; or a 500 without it.
AppOverview(t) ==
    LET key == tab[t].key IN
    /\ tab[t].pc = "overview"
    /\ Reads
    /\ \/ Show(t, [AppsPage(key) EXCEPT !.pc = "answer"]) /\ UNCHANGED <<lost, faults>>
       \/ /\ Fault
          /\ Show(t, PlainPage)
          /\ lost' = lost \cup ({key} \ {None})
    /\ UNCHANGED <<known, ops>>

\* GetAppByID as the read of a page: its row, or none.
RowOf(app) == {a \in db.apps : a.id = app}

\* pageAppDetail: GetAppByID decides; errors of the counts, the charts and the
\* top issues, which come after it, are passed over.
pageAppDetail(t, app) ==
    /\ Request(t)
    /\ Reads
    /\ \/ \E a \in RowOf(app) : Show(t, Page(a, None, None, None))
       \/ RowOf(app) = {} /\ Show(t, PlainPage)
    /\ UNCHANGED <<known, lost, faults>>

\* Mutant of submitRotateKey: the answer is a redirect to the app's page.
submitRotateKeyRedirects(t, key) ==
    /\ Request(t)
    /\ OnApp(t)
    /\ \/ \E a \in RowOf(tab[t].app.id) :
             /\ Rotate(a.id, key)
             /\ origin' = [origin EXCEPT ![key] = Minted(OriginOf(a))]
             /\ Show(t, [Page(tab[t].app, None, None, None) EXCEPT !.pc = "rotated"])
       \/ /\ RowOf(tab[t].app.id) = {}
          /\ UNCHANGED <<db, issued, origin>>
          /\ Show(t, PlainPage)
    /\ UNCHANGED <<known, lost, sent, faults>>

\* submitRotateKey: the UPDATE, or a 404.
submitRotateKey(t, key) ==
    /\ Request(t)
    /\ OnApp(t)
    /\ \/ \E a \in RowOf(tab[t].app.id) :
             /\ Rotate(a.id, key)
             /\ origin' = [origin EXCEPT ![key] = Minted(OriginOf(a))]
             /\ Show(t, [Page(tab[t].app, None, None, key) EXCEPT !.pc = "rotated"])
       \/ /\ RowOf(tab[t].app.id) = {}
          /\ UNCHANGED <<db, issued, origin>>
          /\ Show(t, PlainPage)
    /\ UNCHANGED <<known, lost, sent, faults>>

\* Mutant of renderAppDetail: it takes the first app that the query returns.
renderAppDetailAnyApp(t) ==
    /\ tab[t].pc = "rotated"
    /\ Reads
    /\ \E a \in db.apps : Show(t, [tab[t] EXCEPT !.pc = "answer", !.app = a])
    /\ UNCHANGED <<known, lost, ops, faults>>

\* renderAppDetail with the new key: the app is read again by its id.  It may
\* be gone, or its id be another app's; any error is answered with a 404, and
\* the key, which is in force, is not shown.
renderAppDetail(t) ==
    LET key == tab[t].key  rows == RowOf(tab[t].app.id) IN
    /\ tab[t].pc = "rotated"
    /\ Reads
    /\ \/ /\ \E a \in rows : Show(t, [tab[t] EXCEPT !.pc = "answer", !.app = a])
          /\ UNCHANGED <<lost, faults>>
       \/ /\ rows = {}
          /\ Show(t, PlainPage)
          /\ UNCHANGED <<lost, faults>>
       \/ /\ Fault
          /\ Show(t, PlainPage)
          /\ lost' = lost \cup {key}
    /\ UNCHANGED <<known, ops>>

\* The browser has the page: with a new key on it, the admin can copy it.
Answer(t) ==
    /\ tab[t].pc = "answer"
    /\ Reads
    /\ Goto(t, "page")
    /\ known' = known \cup ({tab[t].key} \ {None})
    /\ UNCHANGED <<lost, ops, faults>>

\* submitDeleteApp: a DELETE that finds no row is no error; a redirect to the
\* list of apps.
submitDeleteApp(t) ==
    /\ Request(t)
    /\ OnApp(t)
    /\ RemoveApp(tab[t].app.id)
    /\ Show(t, [AppsPage(None) EXCEPT !.pc = "overview"])
    /\ UNCHANGED <<origin, known, lost, sent, faults>>

-----------------------------------------------------------------------------
(* issues.go *)

Seen(i) == [id |-> i.id, hash |-> i.hash]

\* pageIssueDetail: the app, then the issue; the rest of the page is that of
\* IssuePages.
pageIssueDetail(t, app) ==
    /\ Request(t)
    /\ Reads
    /\ \/ \E a \in RowOf(app) : Show(t, [Page(a, None, None, None) EXCEPT !.pc = "issue"])
       \/ RowOf(app) = {} /\ Show(t, PlainPage)
    /\ UNCHANGED <<known, lost, faults>>

\* The same page after a redirect to it: the ids are those of the page before.
Redirected(t) ==
    LET rows == RowOf(tab[t].app.id) IN
    /\ tab[t].pc = "redirect"
    /\ Reads
    /\ \/ \E a \in rows : Show(t, [tab[t] EXCEPT !.pc = "issue", !.app = a])
       \/ rows = {} /\ Show(t, PlainPage)
    /\ UNCHANGED <<known, lost, ops, faults>>

IssueRowOf(app, issue) == {i \in db.issues : i.id = issue /\ i.app = app}

GetIssue(t, issue) ==
    LET rows == IssueRowOf(tab[t].app.id, issue) IN
    /\ tab[t].pc = "issue"
    /\ tab[t].issue # None => issue = tab[t].issue.id
    /\ Reads
    /\ \/ \E i \in rows : Show(t, Page(tab[t].app, Seen(i), None, None))
       \/ rows = {} /\ Show(t, PlainPage)
    /\ UNCHANGED <<known, lost, ops, faults>>

\* submitIssueStatus: a redirect to the issue's page, or a 404.
submitIssueStatus(t, status) ==
    LET app == tab[t].app.id  issue == tab[t].issue.id IN
    /\ Request(t)
    /\ OnIssue(t)
    /\ \/ MarkIssue(app, issue, status) /\ Goto(t, "redirect")
       \/ /\ ~IssueExists(db, app, issue)
          /\ UNCHANGED storeVars
          /\ Show(t, PlainPage)
    /\ UNCHANGED <<origin, known, lost, sent, faults>>

\* Mutant of submitDeleteIssue: the two ids of the path are swapped.
submitDeleteIssueSwapped(t) ==
    LET app == tab[t].issue.id  issue == tab[t].app.id IN
    /\ Request(t)
    /\ OnIssue(t)
    /\ \/ RemoveIssue(app, issue) /\ Show(t, PlainPage)
       \/ /\ ~IssueExists(db, app, issue)
          /\ UNCHANGED storeVars
          /\ Show(t, PlainPage)
    /\ UNCHANGED <<origin, known, lost, sent, faults>>

\* submitDeleteIssue: a redirect to the issues of the app, or a 404.
submitDeleteIssue(t) ==
    LET app == tab[t].app.id  issue == tab[t].issue.id IN
    /\ Request(t)
    /\ OnIssue(t)
    /\ \/ RemoveIssue(app, issue) /\ Show(t, PlainPage)
       \/ /\ ~IssueExists(db, app, issue)
          /\ UNCHANGED storeVars
          /\ Show(t, PlainPage)
    /\ UNCHANGED <<origin, known, lost, sent, faults>>

\* pageReportDetail: the app, the report of it, and the issue whose id the
\* report had when it was read.
pageReportDetail(t, app, rid) ==
    /\ Request(t)
    /\ Reads
    /\ \/ \E a \in RowOf(app) : Show(t, [Page(a, None, rid, None) EXCEPT !.pc = "report"])
       \/ RowOf(app) = {} /\ Show(t, PlainPage)
    /\ UNCHANGED <<known, lost, faults>>

ReportRowOf(app, rid) == {r \in db.reports : r.id = rid /\ r.app = app}

ReportOf(r) == [id |-> r.issue, hash |-> r.hash]

GetReport(t) ==
    LET rows == ReportRowOf(tab[t].app.id, tab[t].rid) IN
    /\ tab[t].pc = "report"
    /\ Reads
    /\ \/ \E r \in rows :
             Show(t, [Page(tab[t].app, ReportOf(r), r.id, None) EXCEPT !.pc = "reportIssue"])
       \/ rows = {} /\ Show(t, PlainPage)
    /\ UNCHANGED <<known, lost, ops, faults>>

\* The page has the hash of the issue that was found.
GetIssueOfReport(t) ==
    LET rows == IssueRowOf(tab[t].app.id, tab[t].issue.id) IN
    /\ tab[t].pc = "reportIssue"
    /\ Reads
    /\ \/ \E i \in rows : Show(t, [tab[t] EXCEPT !.pc = "page", !.issue = Seen(i)])
       \/ rows = {} /\ Show(t, PlainPage)
    /\ UNCHANGED <<known, lost, ops, faults>>

\* submitDeleteReport: GetReport for the way back, then the DELETE; a report
\* that has gone in between is answered with a 500.
submitDeleteReport(t) ==
    LET rows == ReportRowOf(tab[t].app.id, tab[t].rid) IN
    /\ Request(t)
    /\ OnReport(t)
    /\ Reads
    /\ \/ \E r \in rows :
             Show(t, [Page(tab[t].app, ReportOf(r), r.id, None) EXCEPT !.pc = "found"])
       \/ rows = {} /\ Show(t, PlainPage)
    /\ UNCHANGED <<known, lost, faults>>

DeleteFound(t) ==
    LET app == tab[t].app.id  rid == tab[t].rid IN
    /\ tab[t].pc = "found"
    /\ \/ RemoveReport(app, rid) /\ Show(t, [tab[t] EXCEPT !.pc = "redirect", !.rid = None])
       \/ /\ ~ReportExists(db, app, rid)
          /\ UNCHANGED storeVars
          /\ Show(t, PlainPage)
    /\ UNCHANGED <<origin, known, lost, ops, sent, faults>>

-----------------------------------------------------------------------------
(* A request that is out ends without its answer, wherever it is, and the  *)
(* browser shows an error of its own: the answer is lost on its way, and   *)
(* the handler's context is cancelled (Lose); or the server is restarted,  *)
(* and every handler is gone (Restart).  What a statement has changed      *)
(* stays.                                                                  *)

Out == {t \in Tabs : tab[t].pc # "page"}

CutOff(cut) ==
    /\ Fault
    /\ Reads
    /\ tab' = [t \in Tabs |-> IF t \in cut THEN PlainPage ELSE tab[t]]
    /\ old' = old \ cut
    /\ lost' = lost \cup ({tab[t].key : t \in cut} \ {None})
    /\ UNCHANGED <<known, ops>>

Lose(t) == t \in Out /\ CutOff({t})

Restart == Out # {} /\ CutOff(Out)

-----------------------------------------------------------------------------
\* A phone's report comes in (IngestServer).
PhoneSends ==
    /\ sent < MaxReports
    /\ sent' = sent + 1
    /\ \E rid \in Rids, app \in Rowids, hash \in Hashes, at \in Times :
          Ingest(rid, app, hash, at)
    /\ UNCHANGED <<tab, old, origin, known, lost, ops, faults>>

Form(t) ==
    \/ \E name \in Names, key \in Keys : submitCreateApp(t, name, key)
    \/ \E key \in Keys : submitRotateKey(t, key)
    \/ submitDeleteApp(t)
    \/ \E status \in Statuses : submitIssueStatus(t, status)
    \/ submitDeleteIssue(t)
    \/ submitDeleteReport(t)

Link(t) ==
    \E app \in Rowids :
        \/ pageAppDetail(t, app)
        \/ pageIssueDetail(t, app)
        \/ \E rid \in Rids : pageReportDetail(t, app, rid)

Rest(t) ==
    \/ AppOverview(t) \/ renderAppDetail(t) \/ Answer(t) \/ Lose(t)
    \/ \E issue \in Rowids : GetIssue(t, issue)
    \/ Redirected(t) \/ GetReport(t) \/ GetIssueOfReport(t) \/ DeleteFound(t)

AdminNext ==
    \/ \E t \in Tabs : Form(t) \/ Link(t) \/ Rest(t)
    \/ PhoneSends
    \/ Restart

AdminSpec == AdminInit /\ [][AdminNext]_adminVars

-----------------------------------------------------------------------------
\* An app that was created with this key, whatever its key is now.
Alive(first) == \E a \in db.apps : OriginOf(a) = first

\* "Shown once - copy it now.  The old key is already invalid"
\* (app_detail.html:10).  A page with a new key names the app that the key was
\* made for, however many rotations, deletions and creations run at the same
\* time, unless that app is gone; and no key that this app had before opens
\* anything any more.
KeyPagesAreTrue ==
    \A t \in Tabs :
        LET p == tab[t] IN
        p.pc = "page" /\ p.key # None /\ Alive(origin[p.key].first) =>
            /\ p.app # None => OriginOf(p.app) = origin[p.key].first
            /\ \A k \in issued :
                  /\ origin[k].first = origin[p.key].first
                  /\ origin[k].number < origin[p.key].number
                  => AppsByKey(db, k) = {}

\* Every app's key has come to the admin's browser, or is on its way there, or
\* the one request that made it has lost its page: to a statement that failed
\* after the change, to an answer lost on its way, or to a restart between the
\* two.  (Such an app is left with a key that nobody knows, until it is rotated
\* again.)  Nothing that another tab does at the same time leaves one: of two
\* rotations at once it is the later that counts, and its page is shown, too.
KeysAreKnown ==
    \A a \in db.apps :
        \/ a.key \in known \cup lost
        \/ \E t \in Tabs : /\ tab[t].pc \in {"overview", "rotated", "answer"}
                         /\ tab[t].key = a.key

\* A form changes what its page has shown, however old the page is: an app
\* of another origin, or an issue of another trace, is touched only by the form
\* of a page whose own app or issue has been deleted (its id is another's).
FormsHitWhatTheyShow ==
    [][\A t \in Tabs :
          tab'[t] # tab[t] /\ tab[t].pc = "page" /\ ops' # ops =>
             /\ OnApp(t) /\ Alive(OriginOf(tab[t].app)) =>
                   \A a \in db.apps \ db'.apps : OriginOf(a) = OriginOf(tab[t].app)
             /\ OnIssue(t) /\ t \notin old =>
                   \A i \in db.issues \ db'.issues :
                      i.hash = tab[t].issue.hash]_adminVars

=============================================================================
