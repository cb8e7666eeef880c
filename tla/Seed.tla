-------------------------------- MODULE Seed --------------------------------
(***************************************************************************)
(* "faulthub seed" (cmd/faulthub/seed.go) on a store that the server, its  *)
(* admin and another "seed" use at the same time.  Each of its calls of    *)
(* the store is atomic (WalIngest shows that); it may die between two, and *)
(* be run again.                                                           *)
(*                                                                         *)
(* A demo app is created unless ListApps, at the start, has shown its name,*)
(* and then gets a fixed number of reports, whose ids are made of the app's*)
(* id and a number.  A report that fails, whatever the error, is passed     *)
(* over.                                                                   *)
(***************************************************************************)
EXTENDS CrashStore, FiniteSets, Sequences

CONSTANTS
    Seeds,      \* processes that run the command
    Demo,       \* the demo apps, in order
    PerApp,     \* reports for each: 90
    SeedId,     \* the id of a report: "seed-<app's id>-<number>", no two the same
    TraceOf,    \* the stack trace of a report, by its number
    MaxCrashes, \* bound: crashes
    MaxErrors,  \* bound: reports that fail although their app is there
    MaxRuns,    \* bound: runs of each process
    MaxOther    \* bound: operations of the admin on apps

ASSUME SeedAssumption ==
    /\ Demo \in Seq(Names)
    /\ PerApp \in Nat \ {0} /\ MaxRuns \in Nat
    /\ SeedId \in [Rowids \X (1..PerApp) -> Rids]
    /\ \A x, y \in Rowids \X (1..PerApp) : SeedId[x] = SeedId[y] => x = y
    /\ TraceOf \in [1..PerApp -> Hashes]
    /\ MaxCrashes \in Nat /\ MaxErrors \in Nat /\ MaxOther \in Nat

VARIABLES
    run,        \* each process
    printed,    \* what has been printed: an app's row and its number of reports
    crashes,    \* bounded by MaxCrashes
    errors,     \* bounded by MaxErrors
    others      \* operations of others, bounded by MaxOther

seedVars == <<db, issued, run, printed, crashes, errors, others>>

-----------------------------------------------------------------------------
(* A run: the names that were there at its start, the demo app it is at, that *)
(* app's row, the next report and the number that went in.                   *)

Ready(runs) == [pc |-> "ready", runs |-> runs]

At(q, d) == [pc |-> "app", runs |-> q.runs, names |-> q.names, at |-> d]

Filling(q, app, i, n) ==
    [pc |-> "fill", runs |-> q.runs, names |-> q.names, at |-> q.at,
     app |-> app, i |-> i, n |-> n]

Go(p, q) == run' = [run EXCEPT ![p] = q]

SeedInit ==
    /\ StoreInit
    /\ run = [p \in Seeds |-> Ready(0)]
    /\ printed = {}
    /\ crashes = 0
    /\ errors = 0
    /\ others = 0

\* runSeed: the database is opened and ListApps read, once.
ListApps(p) ==
    LET q == run[p] IN
    /\ q.pc = "ready"
    /\ q.runs < MaxRuns
    /\ Go(p, [pc |-> "app", runs |-> q.runs + 1, names |-> {a.name : a \in db.apps},
              at |-> 1])
    /\ UNCHANGED <<db, issued, printed, crashes, errors, others>>

\* "already exists, skipping".
Skip(p) ==
    LET q == run[p] IN
    /\ q.pc = "app"
    /\ q.at <= Len(Demo)
    /\ Demo[q.at] \in q.names
    /\ Go(p, At(q, q.at + 1))
    /\ UNCHANGED <<db, issued, printed, crashes, errors, others>>

\* Mutant of CreateDemo: an app of that name is filled, whoever has made it.
CreateDemoOrAdopt(p) ==
    LET q == run[p]  name == Demo[q.at] IN
    /\ q.pc = "app"
    /\ q.at <= Len(Demo)
    /\ name \notin q.names
    /\ \/ \E key \in Keys :
             /\ Create(name, key)
             /\ \E app \in db'.apps \ db.apps : Go(p, Filling(q, app, 1, 0))
       \/ /\ \E app \in db.apps : app.name = name /\ Go(p, Filling(q, app, 1, 0))
          /\ UNCHANGED storeVars
    /\ UNCHANGED <<printed, crashes, errors, others>>

\* CreateApp: a name that has been taken since ends the run.
CreateDemo(p) ==
    LET q == run[p]  name == Demo[q.at] IN
    /\ q.pc = "app"
    /\ q.at <= Len(Demo)
    /\ name \notin q.names
    /\ \/ \E key \in Keys :
             /\ Create(name, key)
             /\ \E app \in db'.apps \ db.apps : Go(p, Filling(q, app, 1, 0))
       \/ /\ NameTaken(db, name)
          /\ Go(p, Ready(q.runs))
          /\ UNCHANGED storeVars
    /\ UNCHANGED <<printed, crashes, errors, others>>

\* Mutant of SeedReport: an error that is passed over is counted.
SeedReportCountsErrors(p) ==
    LET q == run[p]  rid == SeedId[<<q.app.id, q.i>>] IN
    /\ q.pc = "fill"
    /\ q.i <= PerApp
    /\ Go(p, Filling(q, q.app, q.i + 1, q.n + 1))
    /\ \/ /\ \E at \in Times : Ingest(rid, q.app.id, TraceOf[q.i], at)
          /\ UNCHANGED errors
       \/ /\ Stored(db, rid) \/ ~AppExists(db, q.app.id)
          /\ UNCHANGED <<storeVars, errors>>
       \/ /\ errors < MaxErrors
          /\ errors' = errors + 1
          /\ UNCHANGED storeVars
    /\ UNCHANGED <<printed, crashes, others>>

\* IngestReport: a duplicate is no error, and is counted; any error is passed
\* over, be it that the app is gone, or that the snapshot is no longer the
\* newest, the lock is not had in time, or the disk fails.
SeedReport(p) ==
    LET q == run[p]  rid == SeedId[<<q.app.id, q.i>>] IN
    /\ q.pc = "fill"
    /\ q.i <= PerApp
    /\ \/ /\ \E at \in Times : Ingest(rid, q.app.id, TraceOf[q.i], at)
          /\ Go(p, Filling(q, q.app, q.i + 1, q.n + 1))
          /\ UNCHANGED errors
       \/ /\ Stored(db, rid)
          /\ Go(p, Filling(q, q.app, q.i + 1, q.n + 1))
          /\ UNCHANGED <<storeVars, errors>>
       \/ /\ ~Stored(db, rid) /\ ~AppExists(db, q.app.id)
          /\ Go(p, Filling(q, q.app, q.i + 1, q.n))
          /\ UNCHANGED <<storeVars, errors>>
       \/ /\ errors < MaxErrors
          /\ errors' = errors + 1
          /\ Go(p, Filling(q, q.app, q.i + 1, q.n))
          /\ UNCHANGED storeVars
    /\ UNCHANGED <<printed, crashes, others>>

\* "created ...: n reports".
PrintCount(p) ==
    LET q == run[p] IN
    /\ q.pc = "fill"
    /\ q.i > PerApp
    /\ printed' = printed \cup {[app |-> q.app, n |-> q.n]}
    /\ Go(p, At(q, q.at + 1))
    /\ UNCHANGED <<db, issued, crashes, errors, others>>

Finish(p) ==
    LET q == run[p] IN
    /\ q.pc = "app"
    /\ q.at > Len(Demo)
    /\ Go(p, Ready(q.runs))
    /\ UNCHANGED <<db, issued, printed, crashes, errors, others>>

\* The process dies; or a call that is not passed over fails, and ends the run.
Die(p) ==
    /\ run[p].pc # "ready"
    /\ crashes < MaxCrashes
    /\ crashes' = crashes + 1
    /\ Go(p, Ready(run[p].runs))
    /\ UNCHANGED <<db, issued, printed, errors, others>>

\* The admin, on the server, creates an app or deletes one.
Admin ==
    /\ others < MaxOther
    /\ others' = others + 1
    /\ \/ \E name \in Names, key \in Keys : Create(name, key)
       \/ \E app \in Rowids : AppExists(db, app) /\ RemoveApp(app)
    /\ UNCHANGED <<run, printed, crashes, errors>>

Step(p) ==
    ListApps(p) \/ Skip(p) \/ CreateDemo(p) \/ SeedReport(p) \/ PrintCount(p) \/ Finish(p)

SeedNext == (\E p \in Seeds : Step(p) \/ Die(p)) \/ Admin

SeedSpec == SeedInit /\ [][SeedNext]_seedVars

-----------------------------------------------------------------------------
ReportsOf(app) == {r \in db.reports : r.app = app.id}

\* What is printed is true.  While nobody else has touched the store, an app that
\* was printed is there and has as many reports as was said, all of them the
\* command's, whichever ones failed.  The admin may delete it under the run,
\* and its id be given to another run's app, to which the first run goes on to
\* add: then, too, an app that was printed and is still there has no fewer than was
\* said, although what was stored already is counted.
PrintedIsStored ==
    \A p \in printed :
        /\ p.app \in db.apps => p.n <= Cardinality(ReportsOf(p.app))
        /\ others = 0 =>
              /\ p.app \in db.apps
              /\ p.n = Cardinality(ReportsOf(p.app))
              /\ \A r \in ReportsOf(p.app) :
                    \E i \in 1..PerApp : r.id = SeedId[<<p.app.id, i>>]

\* A run adds reports to no app but the one it has made itself, be it over the
\* name of another run.  (That other app is left with what it has got: see the
\* README for the run that died half way.)
OwnAppsOnly ==
    [][\A p \in Seeds :
          run[p].pc = "fill" /\ run'[p] # run[p] /\ others = 0
             => \A r \in db'.reports \ db.reports :
                   /\ run[p].app \in db.apps
                   /\ r.app = run[p].app.id
                   /\ \A s \in Seeds \ {p} : run[s].pc = "fill" => run[s].app # run[p].app]_seedVars

=============================================================================
