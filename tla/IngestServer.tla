---------------------------- MODULE IngestServer ----------------------------
(***************************************************************************)
(* The server process with its store, the phones that send crash reports   *)
(* and the admin.  A request to POST /api/v1/crash-report (internal/ingest *)
(* ServeHTTP) runs on a goroutine of its own and takes the store's one     *)
(* connection twice: to find the app of the API key, and, after the body   *)
(* has been read, for the transaction that stores the report.  Everything  *)
(* else may happen in between, and the process may die.                    *)
(*                                                                         *)
(* A phone (ACRA) sends its report over and over until it has seen a 2xx,  *)
(* over one or more connections: an answer may be lost, and the phone may  *)
(* give up waiting for one and send again while the first attempt is still *)
(* being handled.                                                          *)
(***************************************************************************)
EXTENDS CrashStore

CONSTANTS
    Conns,          \* connections
    Owner,          \* the report that is sent over a connection
    KeyOf,          \* the API key built into the app that crashed
    HashOf,         \* the report's stack trace
    NoApp,          \* a handler has not found its app
    MaxTime,        \* bound: seconds the clock runs
    MaxAdminOps,    \* bound: operations of the admin
    MaxFaults       \* bound: refusals, failures, lost answers and crashes

ASSUME IngestServerAssumption ==
    /\ Owner \in [Conns -> Rids]
    /\ KeyOf \in [Rids -> Keys]
    /\ HashOf \in [Rids -> Hashes]
    /\ Times = 0..MaxTime
    /\ MaxTime \in Nat /\ MaxAdminOps \in Nat /\ MaxFaults \in Nat

VARIABLES
    handler,    \* the goroutine that serves each connection
    acked,      \* reports whose phone has seen a 2xx: it sends no more
    gone,       \* reports that the admin has deleted (history)
    clock,      \* seconds
    adminOps,   \* bounded by MaxAdminOps
    faults      \* bounded by MaxFaults

vars == <<db, issued, handler, acked, gone, clock, adminOps, faults>>

-----------------------------------------------------------------------------
(* Handlers *)

\* What ServeHTTP holds on to: how far it is, the app it has found, the
\* received_at it has stamped, the status code it answers.
Handler == [pc   : {"idle", "auth", "body", "store", "answer"},
            app  : AppRow \cup {NoApp},
            at   : Times,
            code : {0, 200, 201, 401, 429, 500}]

Frame(pc, app, at, code) == [pc |-> pc, app |-> app, at |-> at, code |-> code]

Idle == Frame("idle", NoApp, 0, 0)

Accepted(code) == code \in {200, 201}

Goto(c, frame) == handler' = [handler EXCEPT ![c] = frame]

Answering(c, code) == Goto(c, Frame("answer", NoApp, 0, code))

Init ==
    /\ StoreInit
    /\ handler = [c \in Conns |-> Idle]
    /\ acked = {}
    /\ gone = {}
    /\ clock = 0
    /\ adminOps = 0
    /\ faults = 0

Fault == faults < MaxFaults /\ faults' = faults + 1

\* The phone has a key, still has the report, and sends it.
Sends(c) ==
    /\ handler[c].pc = "idle"
    /\ Owner[c] \notin acked
    /\ KeyOf[Owner[c]] \in issued

\* The rate limiter lets the request through, the media type is right.
Arrive(c) ==
    /\ Sends(c)
    /\ Goto(c, Frame("auth", NoApp, 0, 0))
    /\ UNCHANGED <<db, issued, acked, gone, clock, adminOps, faults>>

\* The rate limiter does not.
Refuse(c) ==
    /\ Sends(c)
    /\ Fault
    /\ Answering(c, 429)
    /\ UNCHANGED <<db, issued, acked, gone, clock, adminOps>>

\* GetAppByKeyHash: the handler keeps the row that it has read.
Authenticate(c) ==
    LET found == AppsByKey(db, KeyOf[Owner[c]]) IN
    /\ handler[c].pc = "auth"
    /\ IF found = {}
       THEN Answering(c, 401)
       ELSE Goto(c, Frame("body", CHOOSE a \in found : TRUE, 0, 0))
    /\ UNCHANGED <<db, issued, acked, gone, clock, adminOps, faults>>

\* The body has come in, which may take as long as the phone likes; the
\* report is stamped with the time before it waits for the connection.
ReadBody(c) ==
    /\ handler[c].pc = "body"
    /\ Goto(c, Frame("store", handler[c].app, clock, 0))
    /\ UNCHANGED <<db, issued, acked, gone, clock, adminOps, faults>>

\* Mutant of StoreReport: a duplicate is an error.
StoreReportOnce(c) ==
    LET h == handler[c]  rid == Owner[c] IN
    /\ h.pc = "store"
    /\ \/ /\ Ingest(rid, h.app.id, HashOf[rid], h.at)
          /\ Answering(c, 201)
       \/ /\ Stored(db, rid) \/ ~AppExists(db, h.app.id)
          /\ Answering(c, 500)
          /\ UNCHANGED storeVars
    /\ UNCHANGED <<acked, gone, clock, adminOps, faults>>

\* IngestReport on the id of the app that was read before: a duplicate
\* changes nothing, and the foreign key refuses an app that is gone.
StoreReport(c) ==
    LET h == handler[c]  rid == Owner[c] IN
    /\ h.pc = "store"
    /\ \/ /\ Ingest(rid, h.app.id, HashOf[rid], h.at)
          /\ Answering(c, 201)
       \/ /\ Stored(db, rid)
          /\ Answering(c, 200)
          /\ UNCHANGED storeVars
       \/ /\ ~Stored(db, rid) /\ ~AppExists(db, h.app.id)
          /\ Answering(c, 500)
          /\ UNCHANGED storeVars
    /\ UNCHANGED <<acked, gone, clock, adminOps, faults>>

\* Mutant of Fail: the error of the commit is dropped.
FailUnnoticed(c) ==
    /\ handler[c].pc = "store"
    /\ Fault
    /\ Answering(c, 201)
    /\ UNCHANGED <<db, issued, acked, gone, clock, adminOps>>

\* A read of the body, a query or the transaction fails; the transaction is
\* rolled back.  (A failed read answers 400 or 413: the phone makes no
\* difference between them and a 500.)
Fail(c) ==
    /\ handler[c].pc \in {"auth", "body", "store"}
    /\ Fault
    /\ Answering(c, 500)
    /\ UNCHANGED <<db, issued, acked, gone, clock, adminOps>>

\* The answer reaches the phone.
Answer(c) ==
    /\ handler[c].pc = "answer"
    /\ acked' = IF Accepted(handler[c].code) THEN acked \cup {Owner[c]} ELSE acked
    /\ Goto(c, Idle)
    /\ UNCHANGED <<db, issued, gone, clock, adminOps, faults>>

\* The answer is lost, or the phone has stopped waiting for it.
LoseAnswer(c) ==
    /\ handler[c].pc = "answer"
    /\ Fault
    /\ Goto(c, Idle)
    /\ UNCHANGED <<db, issued, acked, gone, clock, adminOps>>

\* The process dies and starts again: committed transactions are in the WAL,
\* the handlers are not.
Crash ==
    /\ \E c \in Conns : handler[c].pc # "idle"
    /\ Fault
    /\ handler' = [c \in Conns |-> Idle]
    /\ UNCHANGED <<db, issued, acked, gone, clock, adminOps>>

Tick ==
    /\ clock < MaxTime
    /\ clock' = clock + 1
    /\ UNCHANGED <<db, issued, handler, acked, gone, adminOps, faults>>

-----------------------------------------------------------------------------
(* The admin, one handler of internal/web each.  Each changes the store in *)
(* one statement, whose WHERE decides whether the row is there: the ids    *)
(* come from a page that may be out of date.                               *)

RidsOf(reports) == {r.id : r \in reports}

AdminOp ==
    /\ adminOps < MaxAdminOps
    /\ adminOps' = adminOps + 1
    /\ gone' = gone \cup (RidsOf(db.reports) \ RidsOf(db'.reports))
    /\ UNCHANGED <<handler, acked, clock, faults>>

submitCreateApp(name, key) == Create(name, key) /\ AdminOp

submitRotateKey(app, key) == Rotate(app, key) /\ AdminOp

submitDeleteApp(app) == AppExists(db, app) /\ RemoveApp(app) /\ AdminOp

submitIssueStatus(app, issue, status) == MarkIssue(app, issue, status) /\ AdminOp

submitDeleteIssue(app, issue) == RemoveIssue(app, issue) /\ AdminOp

submitDeleteReport(app, rid) == RemoveReport(app, rid) /\ AdminOp

Admin ==
    \/ \E name \in Names, key \in Keys : submitCreateApp(name, key)
    \/ \E app \in Rowids, key \in Keys : submitRotateKey(app, key)
    \/ \E app \in Rowids : submitDeleteApp(app)
    \/ \E app, issue \in Rowids, status \in Statuses : submitIssueStatus(app, issue, status)
    \/ \E app, issue \in Rowids : submitDeleteIssue(app, issue)
    \/ \E app \in Rowids, rid \in Rids : submitDeleteReport(app, rid)

-----------------------------------------------------------------------------
Serve(c) == Authenticate(c) \/ ReadBody(c) \/ StoreReport(c) \/ Answer(c)

Next ==
    \/ \E c \in Conns : Arrive(c) \/ Refuse(c) \/ Serve(c) \/ Fail(c) \/ LoseAnswer(c)
    \/ Crash
    \/ Tick
    \/ Admin

Spec == Init /\ [][Next]_vars

\* A goroutine that can run runs, the connection pool is first come first
\* served, and a phone keeps trying on each of its connections.  Nothing is
\* assumed of the admin, the clock or the faults.
Fairness == \A c \in Conns : WF_vars(Arrive(c)) /\ WF_vars(Serve(c))

FairSpec == Spec /\ Fairness

-----------------------------------------------------------------------------
\* The type of the state; a handler that has got past the look-up of the key
\* holds an app.
TypeOK ==
    /\ StoreTypeOK
    /\ handler \in [Conns -> Handler]
    /\ \A c \in Conns : handler[c].pc \in {"body", "store"} => handler[c].app \in AppRow
    /\ acked \subseteq Rids
    /\ gone \subseteq Rids
    /\ clock \in Times
    /\ adminOps \in 0..MaxAdminOps
    /\ faults \in 0..MaxFaults

\* No report is lost once the server has said 2xx: from the commit on, while
\* the answer is under way and after the phone has thrown its copy away, the
\* report is in the store, unless the admin has deleted it.  A crash, a lost
\* answer, a retry on another connection or the deletion of the app between
\* the two uses of the connection make no exception.
AcceptedIsStored ==
    \A rid \in Rids :
        \/ Stored(db, rid) \/ rid \in gone
        \/ /\ rid \notin acked
           /\ \A c \in Conns :
                 Owner[c] = rid /\ handler[c].pc = "answer" => ~Accepted(handler[c].code)

\* However many attempts are under way at once, one of them creates the
\* report ("exactly one insert expected", ingest_test.go:147): the others are
\* answered 200, unless the report was deleted in the meantime.
CreatedOnce ==
    \A c, d \in Conns :
        /\ c # d /\ Owner[c] = Owner[d]
        /\ handler[c].pc = "answer" /\ handler[c].code = 201
        /\ handler[d].pc = "answer" /\ handler[d].code = 201
        => Owner[c] \in gone

\* Once a phone's key opens an app for good, the report is accepted, whatever
\* has gone wrong before: duplicates, lost answers and crashes cost attempts,
\* and never the report.
KeyWorks(rid) == rid \in Rids /\ AppsByKey(db, KeyOf[rid]) # {}

ReportsAreDelivered ==
    \A rid \in {Owner[c] : c \in Conns} : <>[]KeyWorks(rid) => <>(rid \in acked)

-----------------------------------------------------------------------------
(* What the documentation promises and the code does not keep *)

\* "Per-app API keys" (README.md:14): a report is filed under the app whose
\* key came with it.  The handler files it under that app's id, which may by
\* then belong to another app.
FiledUnderItsApp ==
    [][\A c \in Conns :
          /\ handler[c].pc = "store"
          /\ handler'[c].pc = "answer" /\ handler'[c].code = 201
          => \E a \in db.apps : a.id = handler[c].app.id /\ a.name = handler[c].app.name]_vars

=============================================================================
