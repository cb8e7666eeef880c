# FaultHub in TLA+

Specifications of FaultHub, the crash-report backend in `src/`, the TLC
configurations that check them on small instances, and theorems about them that
TLAPS checks for instances of every size. Line numbers are those of `src/`.

## 1. The system

FaultHub is one Go process beside a SQLite file in WAL mode. `serve`
(`cmd/faulthub/main.go:69`) answers phones on `POST /api/v1/crash-report` and
the admin's browser on everything else; a goroutine sweeps the rate limiters and
prunes sessions each minute. `backup`, `seed` and `set-password` are commands of
the same binary, run while the server is running.

| Component | State | Operations | Correct when |
|---|---|---|---|
| Tables (`internal/store`: `apps`, `ingest`, `issues`) | `apps`, `issues`, `reports`; foreign keys with cascades; rowids that SQLite hands out again | CreateApp, RotateAppKey, DeleteApp, IngestReport, SetIssueStatus, DeleteIssue, DeleteReport | ids, names, keys and traces are unique; a report hangs off the issue of its trace and app; issues open, date and empty as they should |
| Ingest endpoint (`internal/ingest`) | one goroutine per request: the app it has found, the time it has stamped | look up the key, read the body, store, answer | an accepted report is stored; it is created once; a phone that keeps trying gets through |
| Transactions (`store/ingest.go`, `store.go:15-27`) | per process one connection; per database one writer | BEGIN, SELECT, upsert, insert, COMMIT, with snapshots and a lock | the interleaved transactions are atomic; results are true; calls return |
| Rate limiter (`internal/ratelimit`) | a map of buckets under a mutex | Allow, Sweep | per address never more than burst plus rate; the advertised wait is enough |
| Sessions (`store/sessions.go`, `internal/web`) | rows with an expiry in whole seconds; the browser's cookies | login, check, touch, logout, prune | a logged-out session is over; no valid session is pruned; expired ones are |
| Opening (`store.go:15-104`) | tables and columns of the file | CREATE TABLE IF NOT EXISTS, ALTER TABLE | whoever has opened the file has the whole schema; nothing is lost |
| Life of the server (`main.go:69-153`) | listening or draining, the requests that are in, the database's WAL | Open, ListenAndServe, Shutdown within ten seconds, Close | told to stop, it stops; a clean stop leaves a database that a backup can replace |
| Backup (`store/backup.go`, `main.go:155-173`) | the copy, table by table | Open, VACUUM INTO, Close | the copy is one state of the database; a good copy survives |
| Seed (`cmd/faulthub/seed.go`) | the names read at the start, the app it fills | ListApps, CreateApp, IngestReport x 90 | what is printed is true; two seeds do not fill one app |
| Set-password (`cmd/faulthub/setpassword.go`) | the env file | read, rewrite, write | the new password is in force; other lines stay |
| Issue pages (`web/issues.go`, `store/issues.go`) | none of their own: several reads per page, a position (LIMIT, OFFSET) between pages | ListIssues, ListIssueReports with filters and orders; pageNums | the pages cover everything; who walks through them misses nothing because reports come in; a page hangs together |
| Changes by the admin (`web/apps.go`, `web/issues.go`) | what each tab of the browser shows, and has shown | create, rotate, delete, resolve; the pages after them, read anew | a key that is shown is that app's and works; a form changes what its page shows |
| Dashboard (`store/analytics.go`, `web/dashboard.go`) | none | counts per day, totals, breakdowns, top issues | numbers from different tables agree |
| Text of reports (`web/highlight.go`, `TitleFromTrace`) | indices of a scan | hlJSON, hlStack, TitleFromTrace | nothing is hidden or coloured wrongly; the title is what the page shows |
| Config, auth, keygen, realip, templates | none | pure functions, cryptography, layout | see section 7 |

How they interact. All handlers share one `Store` with one connection
(`SetMaxOpenConns(1)`): a use of the connection is atomic against the other
goroutines of the process, and everything may happen between two uses. Processes
share the file, so their transactions interleave statement by statement. The
phones and the browser talk over connections that break: answers get lost.

What is hard: a handler holds what it has read over a wait (the app's id over
the upload of the body, the validity of a session over the wait for the
connection, the ids in the forms of a page for as long as the tab is open); rowids
are handed out again, so an id may come to mean another row;
phones retry, also while the first attempt is still being handled; processes die
between two commits; expiries are truncated to seconds in three places. The
hazards are listed with their lines in `PROJECT.json`.

## 2. The modules

```
StoreTables            the tables as a value, an operator per SQL statement
  CrashStore           the store: one atomic action per operation  (abstract)
    IssuePages         what the issue pages show of the store, and their walk
      Dashboard        the numbers: charts, totals, breakdowns, top issues
    IngestServer       handlers, phones, admin, failures, crashes
    WebAdmin           the admin's tabs: changes, the reads after them, old pages
    WalIngest          IngestReport by statement, several processes
    Seed               the seed command on a store in use
Migrate                opening the file, several processes
  Backup               the backup command beside them
    Serve              the life of the server, the WAL, a restore
TokenBucket            a token bucket per address                  (abstract)
RateLimit              the limiter with lazy refill and sweep
Sessions               logins, requests, logouts, the pruner
EnvFile                set-password
JsonTokens             the scanner of the raw report
TraceText              the title of a trace, and its colours
  ReportText           both, against what was sent
*Proofs                theorems; MC*  instances and configurations
```

`StoreTables` and `CrashStore`. A database is three sets of rows, so that
uniqueness is a property to be shown. `NextRowid` is SQLite's rule for
`INTEGER PRIMARY KEY` without `AUTOINCREMENT`: one more than the largest now in
the table. `IngestReport` is the whole transaction: the upsert that moves
`last_seen_at` and reopens, and the insert. Keys are minted once (`issued`);
a key and its SHA-256 are one value. Only columns that a statement decides by
are kept, the title of an issue among them. `HasRoom` bounds the rowids.

`IssuePages`. Each SELECT of `ListIssues`, `GetIssue` and `ListIssueReports` is
an operator of the database it sees, and a page (`pageIssues`,
`pageIssueDetail`) of those its statements see. A row's page is given by how many
rows are ahead of it. The conditions on version, device and dates choose reports by
what was fixed when they were stored (`picks`), and so does a search in the stack
traces (`texts`); but it also finds an issue by its title (`store/issues.go:149`),
which each report of the issue overwrites (`ingest.go:93`), so that a report may
begin or cease to match long after it was stored (`titles`, `Meets`). An issue's row
has its title, known by the report that it is from. `Wheres` are the conditions
there may be, any in the proofs. There are no actions of its own: the pages change
nothing, and its properties relate what is read before a step of `CrashStore` to
what is read after it. The walk needs no more than one step at a time: that no
row comes forward is kept from step to step. Every way in which report ids may
compare is considered (`IdOrders`), so that the instance stays symmetric.

`IngestServer`. `handler[c]` is the goroutine behind connection `c`; `Arrive`,
`Authenticate` (`ingest.go:53`), `ReadBody` (63-127, with the time stamp of 125)
and `StoreReport` (129) are its steps, `Refuse` and `Fail` the early returns.
The phones are ACRA: external, modelled by what the endpoint answers them for; a
report is sent until a 2xx is seen, over one or more connections at once. The
admin's handlers are one statement each (their reads before and after are not
modelled). `Crash` is a restart of the container.

`WalIngest`. SQLite is external. `BEGIN` takes no lock, the first SELECT a
snapshot, the first write the lock: it fails when the snapshot is not the newest
state any more (SQLITE_BUSY_SNAPSHOT) or when the lock is not released in time.
A process that dies leaves nothing. The refinement to `CrashStore` is the
identity on `db`, which holds what is committed.

`RateLimit` and `TokenBucket`. `Allow` and `Sweep` hold the mutex throughout and
are one step each. Tokens are counted in units of which a request costs `Cost`,
so that refills are whole numbers; float rounding is abstracted. `level` of the
abstract bucket is mapped to `Level(ip)`, what the bucket would hold if it were
brought up to date now, `Cap` if it has been forgotten. `Retry-After`
(`ingest.go:33-37`) is part of the model.

`Sessions`. `requireAuth` is three steps (`Check`, `Touch`, the handler), with
the times taken before the connection is waited for; `MayFail` are the errors of
the store, of which `TouchSession`'s and `DeleteSession`'s are ignored by the
code. A tick is a fraction of a second, `Truncated` is what `fmtTime` and the
cookie do to a time. `loggedOut` and `overlap` are history.

`Migrate`. Each statement of `migrate` is one step of the process that opens the
file, and commits by itself. A report is known by the columns it is NULL in.

`Backup` extends it by the process of the command: it opens the file as any other
does, copies, and closes. VACUUM INTO (external) is a read transaction on one
state of the database and a file that fills up table by table; it refuses a
destination that is not empty, and leaves what it has written when it fails.

`Serve` puts the two together with the server: `phase` is how far `serve` has
got, `request[c]` whether a connection's body comes in or its transaction has the
one connection of the store. Shutdown waits for the requests or its ten seconds
(`Drained`, `GiveUp`); `Closes` is SQLite's merge of the WAL by the last to close,
and who dies leaves it (`died`). `Restore` is the operator's `docker compose down`
and copy of README.md:124. A tick is the timer of the shutdown; `Conns` stands for
any of the goroutines that use the store.

`EnvFile`. The file is the sequence of its lines, a line a key and a value; what
Compose makes of a value (external) is `Interpolated`, what `config.Load` does
with the result `Accepted`. `os.WriteFile` is two steps, `Truncate` and `Fill`.

`Seed`. Each use of the store is a step. A report may fail, whatever the reason
(two seeds can meet a stale snapshot, as in `WalIngest`), and is passed over and not
counted; one that is stored already is counted (`seed.go:153-156`). The others at
work are an admin who creates and deletes apps; that he deletes a single report of
an app, or that a phone sends one with a seed's id, is left out. The ids of the reports are made of the
app's id and a number (`seed-%d-%04d`, `seed.go:128`), so that no two of them are
the same, and a rowid that is handed out again yields ids that may be taken.

`WebAdmin`. `tab[t]` is what a tab of the admin's browser shows and the request
it has out. A handler is its change, one step with the row it has found, and a
step for each read that decides what the page says: `AppOverview` after
`submitCreateApp`, `renderAppDetail` after `submitRotateKey`, `GetAppByID`,
`GetIssue`, `GetReport` on the others; the page that follows a creation, a rotation
or a deletion is one more step on its way to the browser (`Answer`). A request that
is out can end without its answer (`Lose`), and the server be restarted (`Restart`),
wherever the handlers are; what they have committed stays. Everything may happen in between, the other
tab's changes and the phones' reports first of all. A form carries the ids of its
page, however old. `origin`, `known`, `lost` and `old` are history: which app, by
the key it was created with, a key has been of; which keys have come to the browser;
which were lost, because the request that made them ended without its page; which
tabs show an issue that is gone.

`Dashboard`. Each statement of `analytics.go` is an operator of the database; dates
are days. There are no actions of its own, and its property relates the numbers
to each other and to those of `IssuePages` in every reachable database.

`JsonTokens`. The two nested loops of `highlightJSON` step by step; a character is
known by its class, a piece by its ends and its class. `TraceText` has
`TitleFromTrace` and `hlStack` as operators on a trace whose lines are sequences
of the parts that the code looks for. `ReportText` compares: the pieces of the page
with the tokens and white space that the text was put together from (`AreTokens`
says what these may be), numbers with the grammar of RFC 8259, the title with the
page. Runes and escaping are abstracted; TLC reads every small text.

Operators named as mutants (`...Again`, `...Unchecked` and the like, each with a
comment) are forms of a definition with a plausible mistake in it. They are used
by no specification: put in place of the definition, each must break the
property that `PROJECT.json` lists with it.

## 3. The runs

The runs that pass take four minutes or less each, on two cores. Type
invariants are not among their properties: they are proved (section 5).

| Run | Instance | Shows |
|---|---|---|
| `MCCrashStore` | 2 names, 2 rowids, 2 keys, 3 reports, 2 traces, 2 times, symmetric; 61,447 states | `Integrity` (what cascades, upsert and reuse of rowids keep together); `SeenMovesWithReports`, `NewReportReopens`, `EmptiedOnlyByReportDeletion` (what a step may never do to an issue); `IssuesNotSkipped`, `ReportsNotSkipped`, `PageHangsTogether` with 2 rows a page, 84 filters (conditions that leave out one report at most, and searches that find the title of one), and any order of the report ids; `CountsAgree` with charts of 2 days and every assignment of 2 values to the reports, with room for one |
| `MCIngestServer` | 2 reports of one trace, 3 connections (two of one phone), 1 name, 2 keys, 3 admin operations, 1 fault, 2 seconds; 243,458 states | `AcceptedIsStored`, `CreatedOnce`; under fairness `ReportsAreDelivered` |
| `MCWebAdmin` | 2 tabs, 2 names, 2 rowids, 3 keys, 1 report, 2 traces, 7 requests, 2 reports sent, 2 faults (statements that fail, answers that are lost, restarts), symmetric; 596,718 states | `KeyPagesAreTrue`, `KeysAreKnown`, `FormsHitWhatTheyShow` |
| `MCRateLimit` | 2 addresses, a bucket of 2 tokens that fills in the idle time of the sweep (8 ticks), 10 ticks, symmetric; about 682,000 states | `WithinBudget`, `RetryAfterIsEnough`, `ImplementsTokenBucket` |
| `MCWalIngest` | 2 processes, 4 calls, 2 reports, 2 traces; 67,485 states | `ImplementsCrashStore`, `ResultsAreTrue`; under fairness `CallsReturn`; and of what is committed, `PagesCoverAll` with 1 row a page and 96 filters (any conditions without a search, and searches that find the title of one report) |
| `MCSessions` | 2 requests, 1 token, 2 ticks a second, a TTL of 3 ticks, 5 ticks, 1 loss, 1 error; 753,729 states | `LogoutEndsSession`, `PruneSparesValid`, `RowOutlivesCookie`; under fairness `ExpiredAreRemoved` |
| `MCServe` | the server and the command on a new or an old file, 2 connections, 1 report beside one that may be there, 2 runs, 1 crash, 1 restore; 263,839 states | `OpenedMeansMigrated`, `BackupIsSnapshot`, `GoodBackupSurvives`, `ReportsSurvive`; under fairness `AllOpen`, `ServeEnds` |
| `MCText` | every file of up to 3 lines of the 5 kinds set-password tells apart, 2 runs, 1 edit; every raw text of up to 5 characters of 7 classes and every word of up to 5 of a number's, documents that nest two containers; every trace of up to 3 lines of 11 kinds; about 394,000 states | `TakesEffect`, `OtherLinesKept`, `RewriteIsStable`; `RawShownWhole`, `TokensAreRight`; `TitleMatchesPage` |
| `MCSeed` | 2 processes, 2 apps of 2 reports, 1 crash, 1 report that fails, 2 operations of the admin; 917,849 states | `PrintedIsStored`, `OwnAppsOnly` |
| `MCFiledUnder`, `MCOverwrites`, `MCOldRows` | | the disagreements of section 6 |

Why the bounds are enough. Each instance has room for the case that its
properties are about. Two rowids and three admin operations make an app, delete
it and put another in its place, under a handler that has found the first. Three
connections give one phone two attempts at once, and another a report for the
same issue. Four calls let two processes read, one commit, and the other meet
its stale snapshot, with an app to put the reports in. Five ticks are a login, a
renewal and the end of what was renewed, with both halves of a second; one
token, because rows do not influence each other. Ten ticks are more than it
takes to empty a bucket, have it swept and empty it again. Three lines hold any
two keys with a line before, between or after them. Seven requests create an
app, open its page in both tabs, rotate its key from both, delete it and put
another in its place. Two faults are an answer that is lost after a statement has
failed, or two restarts. One report that fails while the other seed goes on, and an
app that the admin deletes and replaces under a seed, whose ids are then taken, are
both ways to a wrong count. One crash, of either process at any statement, and a restore
after it reach the WAL that is left; the server is started and stopped as often as
it likes. Five characters are a string with an escape in it, a key with a colon,
or a number with a fraction or an exponent, and one that is none by a character.
Pages are shown on the days of the reports and on the next, so that a chart of two
days begins after a report, ends before one, or has a day without any; and a
breakdown with room for one value cuts. With one row a page, two issues, or two
reports of one, have a second page. What is proved (section 5) holds without bounds on any of this but the rowids.

Deadlock. Runs whose bounds are on operations (`MaxCalls`, `MaxRuns`, ...) stop
when these are used up, as do openers once all have opened; their configurations
say `CHECK_DEADLOCK FALSE`. `MCCrashStore`, `MCRateLimit` and `MCSessions` can go
on for ever and are checked. `MCServe` stops once the command's runs are used up and
the server has been told to stop with a body that never comes in, or is down.

## 4. Fairness

Liveness assumes only what the runtime does. `IngestServer`: a runnable
goroutine runs and the pool of one connection is first come, first served (weak
fairness of each handler's `Serve`), and a phone sends again while it has a
report (`Arrive`): ACRA's job scheduler. `WalIngest`: a process that is not
killed goes on. Its lock waits have a timeout of 5 s (`store.go:16`), so
`UpsertFails` is always there for a process whose lock does not come.
`Sessions`: the ticker of `main.go:119-132` ticks and its goroutine prunes.
`Serve`: a process that lives goes on with the statements of Open, and the timer of
the shutdown runs (`Drain`); nothing is assumed of the requests, whose bodies may
never come in, as there is no ReadTimeout (`main.go:134`). Nothing is assumed of
the admin, the operator, the clock or the faults, which are bounded in number.
The other modules state no liveness.

## 5. What is proved

All proofs rest on the named assumptions on the constants, and on nothing else.

`CrashStoreProofs`: `StoreIsTyped` and `StoreIntegrity`, for any names, keys,
traces and reports and any number of rowids. `Integrity` is inductive together
with the type invariant; there is a lemma per action. The reuse of rowids is met
by `NextRowidIsFresh` (a new id is larger than all that are there) and
`RemovalKeeps` (a deletion that takes the rows below along leaves no reference to
the id it frees). On top of it, what no step may do to an issue:
`DatesMoveWithReports`, `ReportsReopen` and `OnlyReportDeletionEmpties`. They rest
on where the rows after a step come from (`UpsertOrigin`, `IssuesChange`,
`ReportsChange`) and on ids being unique, so that a row with the id of an old one
is that one changed; that a cascade takes no report from an issue that stays
(`CascadesTakeWhole`) needs `ReportsHaveIssues`.

`IssuePagesProofs`: `ReaderMissesNoReport` and `ReaderMissesNoIssue`, for any
filter, any page size and any number of rows. A row's position is the size of the
set of rows ahead of it; the theorems show that the set only grows (an issue that
is seen again keeps its id and comes to the front, `UpsertEffect`; counts do not
fall, `CountsGrow`, unless the report takes away the title that a search has found:
`LosesTitle`), and `FS_Subset` carries this to the sizes, as the table of
reports is finite (`PagesInv`). `MoreAheadIsLater` says what a position means for
the page. `NeighboursAreLinked`: the window of `pageNums`, which the instance is
too small for, always has links to the pages before and after. `PagesMissNothing`
rests on it and on two facts about positions: fewer rows are ahead of a row than
the list has (`FewerIssuesAhead`, `FewerReportsAhead`: none is ahead of itself), and
a position below the total is that of one page of those there are
(`RowHasOnePage`). `DetailHangsTogether`: of a set of reports that is finite and not
empty there is a latest one (`LatestIsThere`), in each of the databases that the
statements of the page may see.

`NumbersAgree`, in the same module, is `CountsAgree` for any number of apps, issues,
reports, days and values. What the code counts in one table and adds up from
another agrees because a set is as large as the parts of a partition together
(`PartsAddUp`): reports by their issue, by their day (`BarsAddUp`), by their value
(`BreakdownAddsUp`), and by their app. That the parts are a partition is
`Integrity`: a report's issue is there and is of the report's app. `FirstRows`
says that as many rows as a LIMIT allows are found among those with few rows ahead
of them.

`IngestServerProofs`: `ServerIsTyped`, `ServerKeepsIntegrity`,
`NoAcceptedReportIsLost`, `ReportIsCreatedOnce`, for any number of phones,
connections, faults and admin operations. Steps are store steps
(`StepsAreStoreSteps`), which brings `Integrity` over. The invariant is the
conjunction of the four: `CreatedOnce` needs `AcceptedIsStored` (a second attempt
creates a report only when it is not stored, and so, if a first 201 is under way,
only when it was deleted).

`RateLimitProofs`: `LimiterIsTyped` and `WaitingIsEnough` for every rate, burst
and idle time; `BudgetIsKept` and `SweepIsHarmless` (the refinement of
`TokenBucket`) for `FillsInTime == Idle * Rate >= Cap`. The invariants are
`Promised` (a refused address has gained what it was short of, once the time it
was told is over) and `Balanced` (paid plus left is at most burst plus earned);
`SweptAreFull` is where `FillsInTime` is used: a bucket that is forgotten is full.
`serve` sweeps after ten minutes, so the condition is that the burst is at most
ten times the rate per minute. The defaults (30 and 10, 5 and 3) meet it;
`config.Load` does not ask for it. With, say, a rate of 1 and a burst of 100, a
client that has used up its burst is given all of it again after ten minutes, not
the ten requests it has earned: "Per-IP ingest rate limit" (README.md:89) is not
kept then.

`StoreUsersProofs` is about three users of the store: `WalIngest`, `Seed` and
`WebAdmin`. The last two change the tables by the actions of `CrashStore` itself
(`AdminStepsAreStoreSteps`), which brings `Integrity` over and is no result of its own.

Processes: `ProcessesAreTyped` and `TransactionsAreAtomic`, for any
number of processes. The invariant `WalInv` says that a snapshot with the newest
version is the newest state, that the process with the lock, and no other, has
changed something, and that its changes are those of `IngestReport` on the
snapshot. The lock keeps others from committing, so `Commit` is the atomic
operation. `ReturnsAreTrue`: a duplicate is found in the snapshot of the step
that returns it, and a commit succeeds only on the newest state, which did not have
the report.

Seeds: `PrintedCountsAreTrue` and `RunsKeepToTheirApps`, for
any number of them, any demo apps, reports per app, runs, crashes and reports that
fail. The invariant `SeedInv` says that every report is one of the command's, under the
app that its id names (`OnlySeeded`). Of an app that a process fills or has printed,
if it is still there, at least as many of the reports that have been tried are stored
as were counted (`CountsInv`): an app that is gone does not come back, and none that
stays loses a report (`ReportsStayWithApp`). While no one but seeds has touched the
store, what is counted is exactly what is under the app, and one process alone fills it
(`FillingInv`, `PrintedInv`), so that no report of its can be a duplicate.
`PrintedIsStored` is not inductive without this: what is printed is the process's own
count. That nobody's
ids stand in the way of another's is the assumption that `SeedId` is injective
(`SeedAssumption`), which the format of the ids justifies.

Tabs: `NoKeyIsForgotten`, `KeysAreShownTruly` and
`FormsHitTheirTarget`, for any number of tabs, requests and faults. The invariant
`AdminInv` says that every key that was
minted has an origin that was minted no later; that two apps of the table have
different origins, and the key of an app is the newest of its origin (`OriginInv`);
and that the app of a page, however old, has still the id it had, if it is there,
as has the app that a new key was made for (`TabInv`): `RotateAppKey` changes no id,
and a new app has a new origin. (Were the origin the id, its reuse would spoil
this.) An issue that a page shows is there with its trace unless `old` has the tab
(`ShownIssueInv`). Keys are numbered by `Cardinality(issued)`, so that the invariant
also says that `issued` is finite.

`ServeProofs`: `DatabaseIsTyped`, `OpenedHasSchema`, `BackupsAreSnapshots`,
`GoodBackupsSurvive`, `ReportsAreKept`, for any number of processes, connections,
crashes, runs and restores. The invariant `ServeInv` says how far a process must
be for a table or column to be there, whoever made it (`Progress`; statements only
add, so that progress is not undone by others, and a restore happens only when
nobody has the file open); that what is in the destination is of one snapshot
while a copy is made (`CopyInv`), and whole once it is written
(`WrittenIsWhole`); and that a WAL with something in it has an owner: a process that
has the file open or one that has died (`WalInv`), which is what a restore needs.
`OpeningGoesOn`, `RequestsHaveTheStore` and `ShutdownGoesOn` are what the liveness of
this part rests on (below); `DrainInv` says that the server has its store open
whenever it is up.

`SessionsProofs`: `SessionsAreTyped`, `LogoutIsFinal`, `PrunerSparesValid`, for any
number of requests, tokens and ticks a second. The invariant is that tokens not
drawn yet are nowhere (`Unused`), that a row deleted by a logout does not come
back because no step but the login inserts (`GoneForGood`, `LateIsLoggedOut`: a
touch on the way finds no row), and that the pruner's time is never ahead of the
clock (`PrunerIsBehind`); `WholeSeconds` carries the order of times over to the
truncated ones. `RowsOutliveCookies` needs more (`OutlivesInv`): while requests do
not overlap and nothing fails, the one request there is has taken a time that is
not behind the browser's cookie, and an answer on its way promises no more than
its row holds. Cutting is monotone (`TruncatedIsMonotone`), so that the order of
times is that of their seconds.

`TextProofs`, the raw report: `ScannerIsTyped` and `NothingIsHidden`
(`RawShownWhole`), for a text of any length. `Scanning` bounds the inner index: it
passes the end by one at most, and only within a string. `NumbersOfTheGrammar`:
`isJSONNumber` accepts a word of any length just when RFC 8259 does, and with it
`NumbersAreColoured`: in any text the page colours just the numbers of the grammar as
numbers. A run of digits ends
at one place (`DigitsEnd`, by the least one that is no digit); a word that is accepted
is cut there into the parts of the grammar (`NumberIsScanned`), and from the parts of
a number the scan's places are read off (`NumberHasPlaces`).
`TokensOfTheGrammar` (`TokensAreRight`): the pieces of a document are its tokens, each
whole and in its colour, for documents of any length in any layout. Of a document it
is assumed that its text is that of its tokens and white space, that no two words
touch, and that a colon follows just the strings that are keys (`AreTokens`); every
JSON document is like this, and so are texts that are none. The tokens have places
in the text (`PlacedIn`), and the invariant is that the pieces written so far are the
first tokens and the inner loop is within the next (`Lexing`). The first character
tells the kind of a token (`TokenBegins`). Within a string the scan is always at a
character of the grammar's, never in the middle of an escape (`StringGoesOn`), and a
word ends where its token does, because what follows is no word (`WordGoesOn`).
Whether a colon follows is a question about the text to the code and about the
tokens to the grammar: `ColonIsSeen` and `ColonIsThere` are the two directions.

The `.env` file: `PasswordTakesEffect` (`TakesEffect`), `OthersAreKept`
(`OtherLinesKept`) and `SettingIsStable` (`RewriteIsStable`), for files of any number
of lines, any values and hashes, and however many runs die and edits are made.
`EnvInv` says that a run which is over has left what `writeEnvHash` makes of the file
that it read. What that is, is `WrittenIs`, by induction on the lines: what the loop
has written holds no password, no hash but this one, at most once, and the other lines
in their order (`OutStep`, `HavingClean`); of such lines a second pass changes nothing
(`CleanStays`, `Tidy`). `EscapedComesBack` is that Compose takes off what
`composeEscape` has put on, for every hash. One thing is assumed of a hash: that it is
not empty (`EnvFileAssumption`); it begins with "$argon2id$".

Traces: `TitlesMatchPages` (`TitleMatchesPage`), for traces of any number of lines of
any length. Two facts carry it: trimming takes only white space away, so that both
readers find the same frames and the same names of the package in them (`TrimKeeps`),
and `hlFrame` cuts the trimmed line at its last parenthesis and loses nothing
(`FramesAreShown`). The header is the first line of its kind, so that there is one at
most (`OneHeader`).

Induction. The provers cannot instantiate the library's induction theorems, whose
parameter is an operator. Where data call for induction, the proofs take a
smallest counterexample instead: `WFMin` with the order of the naturals
(`LeastNumber`) or with strict inclusion of finite sets (`SmallestSet`), which are
first-order (`CountingUp`, `CountingDown`); a fold or a recursive function, as in
`FlattenSeq` and `Interpolated`, is shown to meet its equation by giving a function
that does (`PartsAddUp`, `Flattened`, `ReadingExists`).

Only model-checked, and why: all liveness (`ReportsAreDelivered`, `CallsReturn`,
`ExpiredAreRemoved`, `AllOpen`, `ServeEnds`). Fairness is stated by ENABLED, which the prover does not have. Every
other property of the runs, but for those of the three that section 6 begins with,
is a theorem. Of the liveness, the safety that it rests on is proved:

* `AllOpen`: an opener never meets an ALTER TABLE without its table, at which it would
  give up, and no other process takes back what it has done (`OpeningGoesOn`).
* `ServeEnds`: while the server drains its store is open, so that it can be closed
  (`RequestsHaveTheStore`), and the shutdown never turns back; its wait grows up to the
  deadline (`ShutdownGoesOn`). That the timer goes on is the fairness.
* `ExpiredAreRemoved`: a run of the pruner that does not fail takes every session that
  `ValidSession` had stopped accepting when it took its time (`PrunerTakesExpired`);
  with `PrunerSparesValid`, just those: the one compares whole seconds and the other
  does not, and they agree for any length of a second (`OverInSeconds`).
* `CallsReturn`: the lock is held by just the call between its first INSERT and its
  commit, where nothing makes it wait, and a call goes forward with each of its steps
  (`CallsGoOn`).
* `ReportsAreDelivered`: nothing of its own; `NoAcceptedReportIsLost` is its safety side.

## 6. Where the code and its documentation differ

* `MCFiledUnder`: a report can be filed under another app than the one whose key
  came with it. `ServeHTTP` keeps the id it has read (`ingest.go:53`) while the
  body comes in; if meanwhile the newest app is deleted and another created, the
  id is that app's (`ingest.go:129`). The keys are "Per-app" (README.md:14).
* `MCOverwrites`: "Overwrites dest." (`backup.go:10`). VACUUM INTO refuses a file
  that is not empty, so that the nightly cron job of README.md:122 fails from
  the second night on, and after a run that was cut short.
* `MCOldRows`: after an upgrade "old rows stay readable" (`migrate_test.go:44`).
  `thread_name` and `thread_group` are added without a default (`store.go:91,93`)
  and are NULL in old rows; `scanReport` (`issues.go:212`) scans them into
  strings, which is an error for each page that shows such a row.

More that the models exhibit and no run is kept for:
* `ReceivedAt` is taken at `ingest.go:125`, before the wait for the connection;
  reports may be stored in another order, and `last_seen_at` goes back, even to
  before `first_seen_at`, which `issue_detail.html:9-10` shows as "first seen"
  and "last seen". `SeenMovesWithReports` says what does hold.
* A session may expire and be pruned between `ValidSession` and `TouchSession`
  (`web.go:110-116`); the UPDATE finds no row, which is not noticed, and the page
  is served with new cookies that have no session behind them.
* A reader of the issue list can miss an issue after all: when a late report
  takes the date of its issue back, it moves behind issues that come forward in
  turn; in the list of resolved issues, when one is reopened; and in a search that
  has found an issue by its title, when a report of that issue brings another one:
  the issue drops out, or counts fewer reports, and those behind it come forward.
  `IssuesNotSkipped` is false without any of these conditions. A count that
  was read before a commit (`store/issues.go:55`) may leave out the link to the
  last page of the list that was read after it.
* The limiter with a large burst (section 5).
* "Invalid input is rendered escaped as-is" (`highlight.go:121`): a raw report that
  is no JSON is cut into pieces and coloured, too. Its text is kept
  (`RawShownWhole`). Of a stack trace, the indentation of the frames is lost
  (`highlight.go:108`), which `TitleMatchesPage` allows for.
* A page with a new key reads the app again by its id (`web/apps.go:91`); if the app
  has been deleted meanwhile and another created, the page shows that one's name
  over a key that opens nothing. `KeyPagesAreTrue` speaks of apps that are there.
  The counts below the name are read one by one and may be another app's in the
  same way.
* A key is shown once, on the page that answers its making, and is in force from the
  commit on (`web/apps.go:45,136`). When a read of that page fails, its answer is
  lost or the server is restarted before it is out (`web/apps.go:54,140`), the app
  has a key that nobody knows: a new one is there without one that works, one whose
  key was rotated is cut off from its phones, until the admin rotates again.
  `KeysAreKnown` says that nothing but such a request's own end does this.
* A form of an old page acts on the id, whoever has it now: the deletion of an issue
  that is gone deletes the one that has its rowid. `FormsHitWhatTheyShow` exempts
  just these pages.
* The restore of README.md:124-126 does not mention the WAL. After a stop that was
  not clean (a kill, `log.Fatal`, a transaction that runs at the deadline, docker's
  own ten seconds, a backup that is cut off) `faulthub.db-wal` lies beside the
  database and is applied to the file that replaces it. `ReportsSurvive` exempts it.

## 7. What is not modelled

* `auth` (argon2id), `keygen` (random keys and SHA-256): cryptography. A key or a
  token never repeats and its hash identifies it.
* `realip`: a function of headers. `RateLimit` takes a client for its address.
* `config`: parsing of numbers and durations. Its bounds (rates at least 1) are
  the assumptions of `RateLimit`; the choice of the password is in `EnvFile`.
* Power loss: with `synchronous=NORMAL` the last commits may go. A crash here is
  one of the process, which loses nothing that was committed.
* Decoding: what `encoding/json` makes of a body, the conversions of its fields
  (`toInt`, `stringify`), thread details, nesting limits; formatting of dates.
* Of the reads, `DistinctValues` and the parsing of query strings; a page number near
  the largest integer, which no page links to, overflows `(page-1)*perPage`.
* Templates, scripts, charts.

## 8. Plan

Done, in this order: the tables and the store, the ingest server, the limiter,
transactions between processes, sessions, opening, backup, set-password, seed, the
issue pages; the life of the server with restores, the admin's pages, the
dashboard, the text of reports; theorems for the store, the ingest server, the
pages and their numbers, the limiter, transactions, seeds, the admin's tabs,
sessions, the database file, the scan and its numbers, set-password, titles.

Left to TLC: liveness (section 5).
