-------------------------- MODULE StoreUsersProofs --------------------------
(***************************************************************************)
(* What is proved of the three users of the store, for any number of each: *)
(*                                                                         *)
(*   - the processes with their transactions on the shared file            *)
(*     (WalIngest): a process that holds the write lock has a snapshot     *)
(*     that nobody has replaced, so what it commits is an atomic           *)
(*     IngestReport on the committed state;                                *)
(*   - the "seed" command (Seed): the reports of an app that it has made   *)
(*     are those that its own process has stored, under names of its own,  *)
(*     and their number is what it has counted less the duplicates;        *)
(*   - the admin's tabs (WebAdmin): an app has an origin of its own, its   *)
(*     key is the newest of that origin, and a page of the app, however    *)
(*     old, still has its id.                                              *)
(*                                                                         *)
(* The processes implement the atomic store (CrashStore); the steps of the *)
(* other two are made of its operations, which brings them the types and   *)
(* the integrity of the tables.                                            *)
(***************************************************************************)
EXTENDS WalIngest, Seed, WebAdmin, CrashStoreProofs, FiniteSetTheorems

(* The processes *)

HasSnap(p) == tx[p].pc \in {"upsert", "insert", "commit"}

Writing(p) == tx[p].pc \in {"insert", "commit"}

\* A snapshot is as old as its version, and the report was not in it.
SnapshotInv(p) ==
    HasSnap(p) =>
        /\ tx[p].ver <= ver
        /\ tx[p].ver = ver => tx[p].snap = db
        /\ ~Stored(tx[p].snap, tx[p].args.id)
        /\ tx[p].pc = "upsert" => tx[p].work = tx[p].snap

\* The write lock belongs to the one process that has made changes; its
\* snapshot is the newest state, and its changes are those of IngestReport.
WriterInv(p) ==
    LET t == tx[p]  a == t.args IN
    /\ Writing(p) <=> writer = p
    /\ Writing(p) =>
          /\ t.ver = ver
          /\ AppExists(t.snap, a.app)
          /\ HasIssueRoom(t.snap, a.app, a.hash)
    /\ t.pc = "insert" =>
          t.work = [t.snap EXCEPT !.issues = UpsertIssue(@, a.id, a.app, a.hash, a.at)]
    /\ t.pc = "commit" =>
          t.work = IngestReport(t.snap, a.id, a.app, a.hash, a.at)

WalInv ==
    /\ TypeOK
    /\ Integrity
    /\ \A p \in Procs : SnapshotInv(p) /\ WriterInv(p)

-----------------------------------------------------------------------------
\* The shape of a call in each of its stages.
LEMMA TxShapes ==
    ASSUME TypeOK, NEW p \in Procs
    PROVE  /\ tx[p].pc = "select" => tx[p] \in [pc : {"select"}, args : Args]
           /\ HasSnap(p) => tx[p] \in [pc : {"upsert", "insert", "commit"}, args : Args,
                                       snap : Db, ver : Nat, work : Db]
BY DEF TypeOK, Tx, HasSnap, Results

\* A step of the server processes is a step of the store, or leaves it alone.
LEMMA StepsAreStoreSteps ==
    ASSUME WalInv, [Next]_vars
    PROVE  [StoreNext]_storeVars
<1>1. ASSUME NEW p \in Procs, Commit(p) PROVE StoreNext
  <2> DEFINE a == tx[p].args
  <2>1. a \in Args /\ tx[p].snap = db /\ tx[p].work = IngestReport(db, a.id, a.app, a.hash, a.at)
    BY <1>1, TxShapes DEF Commit, WalInv, SnapshotInv, WriterInv, HasSnap, Writing
  <2>2. /\ ~Stored(db, a.id) /\ AppExists(db, a.app) /\ HasIssueRoom(db, a.app, a.hash)
    BY <1>1, <2>1 DEF Commit, WalInv, SnapshotInv, WriterInv, HasSnap, Writing
  <2>3. /\ a.id \in Rids /\ a.app \in Rowids /\ a.hash \in Hashes /\ a.at \in Times
    BY <2>1 DEF Args
  <2>4. Ingest(a.id, a.app, a.hash, a.at)
    BY <1>1, <2>1, <2>2 DEF Commit, Ingest
  <2> QED
    BY <2>3, <2>4 DEF StoreNext
<1>2. ASSUME NEW p \in Procs, Statement(p) PROVE StoreNext
  BY <1>2 DEF Statement, StoreNext
<1> QED
  BY <1>1, <1>2 DEF Next, Begin, Advance, Select, Upsert, UpsertFails, Insert, Crash,
                    vars, storeVars

LEMMA SchemaCarriesOver ==
    ASSUME WalInv, [Next]_vars
    PROVE  StoreTypeOK' /\ Integrity'
BY StepsAreStoreSteps, StepKeeps DEF WalInv, TypeOK

\* What the upsert makes of a typed database is typed.
LEMMA UpsertTyped ==
    ASSUME NEW d \in Db, NEW a \in Args, HasIssueRoom(d, a.app, a.hash)
    PROVE  /\ [d EXCEPT !.issues = UpsertIssue(@, a.id, a.app, a.hash, a.at)] \in Db
           /\ UpsertedId(d.issues, a.app, a.hash) \in Rowids
<1> DEFINE Up(i) == IF Conflicts(i, a.app, a.hash) THEN Reopened(i, a.id, a.at) ELSE i
<1>1. d.issues \subseteq IssueRow
      /\ a.id \in Rids /\ a.app \in Rowids /\ a.hash \in Hashes /\ a.at \in Times
  BY DEF Db, Args
<1>2. CASE \E i \in d.issues : Conflicts(i, a.app, a.hash)
  <2>1. UpsertIssue(d.issues, a.id, a.app, a.hash, a.at) = {Up(i) : i \in d.issues}
    BY <1>2 DEF UpsertIssue
  <2>2. \A i \in d.issues : Up(i) \in IssueRow
    BY <1>1 DEF IssueRow, Reopened, Statuses
  <2>3. UpsertedId(d.issues, a.app, a.hash) \in Rowids
    BY <1>1, <1>2 DEF UpsertedId, IssueRow
  <2> HIDE DEF Up
  <2> QED
    BY <2>1, <2>2, <2>3 DEF Db
<1>3. CASE ~ \E i \in d.issues : Conflicts(i, a.app, a.hash)
  <2>1. HasRoom(d.issues) /\ \A i \in d.issues : i.id \in Rowids
    BY <1>1, <1>3 DEF HasIssueRoom, IssueRow
  <2>2. NextRowid(d.issues) \in Rowids
    BY <2>1, NextRowidIsFresh
  <2>3. UpsertIssue(d.issues, a.id, a.app, a.hash, a.at) \in SUBSET IssueRow
    BY <1>1, <1>3, <2>2 DEF UpsertIssue, IssueRow, Statuses
  <2> QED
    BY <1>3, <2>2, <2>3 DEF UpsertedId, Db
<1> QED
  BY <1>2, <1>3

\* A step of one call leaves the others where they are.
LEMMA OthersStay ==
    ASSUME TypeOK, NEW p \in Procs, NEW t, Become(p, t)
    PROVE  /\ tx'[p] = t
           /\ \A q \in Procs \ {p} : tx'[q] = tx[q]
           /\ t \in Tx => tx' \in [Procs -> Tx]
BY DEF Become, TypeOK

LEMMA TypesKeep ==
    ASSUME WalInv, [Next]_vars
    PROVE  TypeOK'
<1>1. TypeOK /\ StoreTypeOK'
  BY SchemaCarriesOver DEF WalInv
<1> DEFINE Scalars == /\ ver \in Nat
                      /\ writer \in Procs \cup {NoProc}
                      /\ calls \in 0..MaxCalls
<1>2. Scalars
  BY <1>1 DEF TypeOK
<1>3. Scalars'
  <2>1. CASE UNCHANGED vars
    BY <1>2, <2>1 DEF vars
  <2>2. ASSUME NEW p \in Procs, Call, UNCHANGED writer, ver' \in {ver, ver + 1}
        PROVE  Scalars'
    BY <1>2, <2>2, WalIngestAssumption DEF Call
  <2>3. ASSUME NEW p \in Procs, UNCHANGED calls, ver' \in {ver, ver + 1},
               writer' \in {writer, p, NoProc}
        PROVE  Scalars'
    BY <1>2, <2>3
  <2> HIDE DEF Scalars
  <2>4. ASSUME NEW p \in Procs, NEW args \in Args, Begin(p, args) PROVE Scalars'
    BY <2>2, <2>4 DEF Begin
  <2>5. ASSUME NEW p \in Procs, Statement(p) PROVE Scalars'
    BY <2>2, <2>5 DEF Statement
  <2>6. ASSUME NEW p \in Procs, Advance(p) \/ Crash(p) PROVE Scalars'
    BY <2>3, <2>6 DEF Advance, Select, Upsert, UpsertFails, Insert, Commit, Crash
  <2> QED
    BY <2>1, <2>4, <2>5, <2>6 DEF Next
<1>4. \A result \in Results : Returned(result) \in Tx
  BY DEF Returned, Tx
<1>5. tx' \in [Procs -> Tx]
  <2>1. ASSUME NEW p \in Procs, NEW args \in Args, Begin(p, args)
        PROVE  tx' \in [Procs -> Tx]
    <3>1. Begun(args) \in Tx
      BY DEF Begun, Tx
    <3> QED
      BY <1>1, <2>1, <3>1, OthersStay DEF Begin
  <2>2. ASSUME NEW p \in Procs, Select(p) PROVE tx' \in [Procs -> Tx]
    <3>1. HasRead(tx[p], db, ver) \in Tx
      BY <1>1, <2>2, TxShapes DEF Select, HasRead, Tx, Db, TypeOK, StoreTypeOK
    <3> QED
      BY <1>1, <1>4, <2>2, <3>1, OthersStay DEF Select, Results
  <2>3. ASSUME NEW p \in Procs, Upsert(p) PROVE tx' \in [Procs -> Tx]
    <3> DEFINE t == tx[p]
               a == t.args
               d == [t.work EXCEPT !.issues = UpsertIssue(@, a.id, a.app, a.hash, a.at)]
    <3>1. CASE AppExists(t.work, a.app)
      <4>1. t.work \in Db /\ a \in Args /\ t.snap \in Db /\ t.ver \in Nat
        BY <1>1, <2>3, TxShapes DEF Upsert, HasSnap
      <4>2. d \in Db
        BY <2>3, <3>1, <4>1, UpsertTyped DEF Upsert
      <4>3. Wrote(t, "insert", d) \in Tx
        BY <4>1, <4>2 DEF Wrote, Tx
      <4> QED
        BY <1>1, <2>3, <3>1, <4>3, OthersStay DEF Upsert
    <3>2. CASE ~AppExists(t.work, a.app)
      BY <1>1, <1>4, <2>3, <3>2, OthersStay DEF Upsert, Results
    <3> QED
      BY <3>1, <3>2
  <2>4. ASSUME NEW p \in Procs, Insert(p) PROVE tx' \in [Procs -> Tx]
    <3> DEFINE t == tx[p]
               a == t.args
               row == [id |-> a.id, app |-> a.app,
                       issue |-> UpsertedId(t.snap.issues, a.app, a.hash),
                       hash |-> a.hash, at |-> a.at]
               d == [t.work EXCEPT !.reports = @ \cup {row}]
    <3>1. t.work \in Db /\ a \in Args /\ t.snap \in Db /\ t.ver \in Nat
      BY <1>1, <2>4, TxShapes DEF Insert, HasSnap
    <3>2. UpsertedId(t.snap.issues, a.app, a.hash) \in Rowids
      BY <2>4, <3>1, UpsertTyped DEF Insert, WalInv, WriterInv, Writing
    <3>3. row \in ReportRow
      BY <3>1, <3>2 DEF ReportRow, Args
    <3>4. d \in Db
      BY <3>1, <3>3 DEF Db
    <3>5. Wrote(t, "commit", d) \in Tx
      BY <3>1, <3>4 DEF Wrote, Tx
    <3> QED
      BY <1>1, <1>4, <2>4, <3>5, OthersStay DEF Insert, Results
  <2>5. ASSUME NEW p \in Procs, UpsertFails(p) \/ Commit(p) \/ Crash(p)
        PROVE  tx' \in [Procs -> Tx]
    BY <1>1, <1>4, <2>5, OthersStay DEF UpsertFails, Commit, Crash, Results
  <2>6. CASE UNCHANGED tx
    BY <1>1, <2>6 DEF TypeOK
  <2> QED
    BY <2>1, <2>2, <2>3, <2>4, <2>5, <2>6 DEF Next, Advance, Statement, vars
<1> QED
  BY <1>1, <1>3, <1>5 DEF TypeOK

\* What a step of another process may do to the call of p: nothing to the call
\* itself; and it commits only when p has not begun to write.
LEMMA OtherProcesses ==
    ASSUME WalInv, NEW p \in Procs, UNCHANGED tx[p],
           writer' = p <=> writer = p,
           UNCHANGED <<db, ver>> \/ (ver' = ver + 1 /\ writer # p)
    PROVE  SnapshotInv(p)' /\ WriterInv(p)'
<1>1. SnapshotInv(p) /\ WriterInv(p) /\ ver \in Nat /\ (HasSnap(p) => tx[p].ver \in Nat)
  BY TxShapes DEF WalInv, TypeOK
<1>2. CASE UNCHANGED <<db, ver>>
  BY <1>1, <1>2 DEF SnapshotInv, WriterInv, HasSnap, Writing
<1>3. CASE ver' = ver + 1 /\ writer # p
  <2>1. ~Writing(p)
    BY <1>1, <1>3 DEF WriterInv
  <2>2. WriterInv(p)'
    BY <1>1, <2>1 DEF WriterInv, Writing
  <2>3. SnapshotInv(p)'
    BY <1>1, <1>3 DEF SnapshotInv, HasSnap
  <2> QED
    BY <2>2, <2>3
<1> QED
  BY <1>2, <1>3

LEMMA OtherStep ==
    ASSUME WalInv, NEW p \in Procs, NEW q \in Procs \ {p},
           \/ \E args \in Args : Begin(q, args)
           \/ Advance(q) \/ Crash(q) \/ Statement(q)
    PROVE  SnapshotInv(p)' /\ WriterInv(p)'
<1>1. TypeOK /\ p # NoProc /\ q # NoProc /\ p # q /\ (Writing(q) => writer = q)
  BY WalIngestAssumption DEF WalInv, WriterInv
<1>2. UNCHANGED tx[p]
  BY <1>1, OthersStay DEF Begin, Advance, Select, Upsert, UpsertFails, Insert, Commit, Crash,
                          Statement
<1>3. writer' = p <=> writer = p
  BY <1>1 DEF Begin, Advance, Select, Upsert, UpsertFails, Insert, Commit, Crash, Statement,
              Writing
<1>4. UNCHANGED <<db, ver>> \/ (ver' = ver + 1 /\ writer # p)
  BY <1>1 DEF Begin, Advance, Select, Upsert, UpsertFails, Insert, Commit, Crash, Statement,
              Writing
<1> QED
  BY <1>2, <1>3, <1>4, OtherProcesses

\* The steps of p itself.
LEMMA OwnStep ==
    ASSUME WalInv, NEW p \in Procs,
           \/ \E args \in Args : Begin(p, args)
           \/ Advance(p) \/ Crash(p) \/ Statement(p)
    PROVE  SnapshotInv(p)' /\ WriterInv(p)'
<1> DEFINE t == tx[p]
           a == t.args
<1>1. /\ TypeOK /\ SnapshotInv(p) /\ WriterInv(p)
      /\ p # NoProc /\ ver \in Nat
      /\ db \in Db
  BY WalIngestAssumption DEF WalInv, TypeOK, StoreTypeOK, Db
<1>2. ASSUME tx'[p].pc \in Results \cup {"select"}, writer' # p
      PROVE  SnapshotInv(p)' /\ WriterInv(p)'
  BY <1>2 DEF SnapshotInv, WriterInv, HasSnap, Writing, Results
<1>3. \A result \in Results : Returned(result).pc = result
  BY DEF Returned
<1>4. ASSUME NEW args \in Args, Begin(p, args) PROVE SnapshotInv(p)' /\ WriterInv(p)'
  <2>1. tx'[p].pc = "select" /\ writer' # p
    BY <1>1, <1>4, OthersStay DEF Begin, Begun, InTx, WriterInv, Writing
  <2> QED
    BY <1>2, <2>1
<1>5. CASE Select(p)
  <2>1. writer' # p
    BY <1>1, <1>5 DEF Select, WriterInv, Writing
  <2>2. CASE Stored(db, a.id)
    BY <1>1, <1>2, <1>3, <1>5, <2>1, <2>2, OthersStay DEF Select, Results
  <2>3. CASE ~Stored(db, a.id)
    <3>1. tx'[p] = HasRead(t, db, ver) /\ UNCHANGED <<db, ver>>
      BY <1>1, <1>5, <2>3, OthersStay DEF Select
    <3> QED
      BY <1>1, <2>1, <2>3, <3>1 DEF HasRead, SnapshotInv, WriterInv, HasSnap, Writing
  <2> QED
    BY <2>2, <2>3
<1>6. CASE Upsert(p)
  <2> DEFINE d == [t.work EXCEPT !.issues = UpsertIssue(@, a.id, a.app, a.hash, a.at)]
  <2>1. t.pc = "upsert" /\ HasSnap(p) /\ t.work = t.snap /\ t.ver = ver
        /\ ~Stored(t.snap, a.id) /\ t.snap = db
    BY <1>1, <1>6 DEF Upsert, SnapshotInv, HasSnap
  <2>2. CASE ~AppExists(t.work, a.app)
    <3>1. Become(p, Returned("error")) /\ UNCHANGED writer /\ writer = NoProc
      BY <1>6, <2>2 DEF Upsert
    <3>2. tx'[p] = Returned("error")
      BY <1>1, <3>1, OthersStay
    <3>3. tx'[p].pc \in Results \cup {"select"} /\ writer' # p
      BY <1>1, <1>3, <3>1, <3>2 DEF Results
    <3> QED
      BY <1>2, <3>3, Zenon
  <2>3. CASE AppExists(t.work, a.app)
    <3>1. tx'[p] = Wrote(t, "insert", d) /\ writer' = p /\ UNCHANGED <<db, ver>>
          /\ HasIssueRoom(t.work, a.app, a.hash)
      BY <1>1, <1>6, <2>3, OthersStay DEF Upsert
    <3>2. /\ tx'[p].pc = "insert" /\ tx'[p].args = a /\ tx'[p].snap = t.snap
          /\ tx'[p].ver = t.ver /\ tx'[p].work = d
      BY <3>1 DEF Wrote
    <3>3. SnapshotInv(p)'
      BY <1>1, <2>1, <3>1, <3>2 DEF SnapshotInv, HasSnap
    <3>4. WriterInv(p)'
      <4> HIDE DEF d
      <4>1. Writing(p)' /\ writer' = p
        BY <3>1, <3>2 DEF Writing
      <4>2. tx'[p].ver = ver' /\ AppExists(tx'[p].snap, tx'[p].args.app)
            /\ HasIssueRoom(tx'[p].snap, tx'[p].args.app, tx'[p].args.hash)
        BY <2>1, <2>3, <3>1, <3>2
      <4>3. tx'[p].pc # "commit"
        BY <3>2
      <4>4. tx'[p].work = [tx'[p].snap EXCEPT !.issues =
                              UpsertIssue(@, tx'[p].args.id, tx'[p].args.app,
                                          tx'[p].args.hash, tx'[p].args.at)]
        BY <2>1, <3>2 DEF d
      <4> QED
        BY <4>1, <4>2, <4>3, <4>4 DEF WriterInv
    <3> QED
      BY <3>3, <3>4
  <2> QED
    BY <2>2, <2>3
<1>7. CASE UpsertFails(p)
  <2>1. tx'[p].pc = "error" /\ writer' # p
    <3>1. t.pc = "upsert" /\ Become(p, Returned("error")) /\ UNCHANGED writer
      BY <1>7 DEF UpsertFails
    <3>2. tx'[p] = Returned("error")
      BY <1>1, <3>1, OthersStay
    <3>3. writer # p
      BY <1>1, <3>1 DEF WriterInv, Writing
    <3> QED
      BY <1>3, <3>1, <3>2, <3>3 DEF Results
  <2> QED
    BY <1>2, <2>1 DEF Results
<1>8. CASE Insert(p)
  <2>1. t.pc = "insert" /\ HasSnap(p) /\ writer = p /\ t.ver = ver
        /\ ~Stored(t.snap, a.id) /\ t.snap = db
        /\ AppExists(t.snap, a.app) /\ HasIssueRoom(t.snap, a.app, a.hash)
        /\ t.work = [t.snap EXCEPT !.issues = UpsertIssue(@, a.id, a.app, a.hash, a.at)]
    BY <1>1, <1>8 DEF Insert, SnapshotInv, WriterInv, HasSnap, Writing
  <2> DEFINE row == [id |-> a.id, app |-> a.app,
                     issue |-> UpsertedId(t.snap.issues, a.app, a.hash),
                     hash |-> a.hash, at |-> a.at]
             d == [t.work EXCEPT !.reports = @ \cup {row}]
  <2>2. ~Stored(t.work, a.id)
    BY <1>1, <2>1 DEF Stored, Db
  <2>3. tx'[p] = Wrote(t, "commit", d) /\ UNCHANGED <<db, ver, writer>>
    BY <1>1, <1>8, <2>2, OthersStay DEF Insert
  <2>4. d = IngestReport(t.snap, a.id, a.app, a.hash, a.at)
    BY <1>1, <2>1 DEF IngestReport, Db
  <2> HIDE DEF d
  <2>5. /\ tx'[p].pc = "commit" /\ tx'[p].args = a /\ tx'[p].snap = t.snap
        /\ tx'[p].ver = t.ver /\ tx'[p].work = d
    BY <2>3 DEF Wrote
  <2> QED
    BY <1>1, <2>1, <2>3, <2>4, <2>5 DEF SnapshotInv, WriterInv, HasSnap, Writing
<1>9. CASE Commit(p)
  BY <1>1, <1>2, <1>3, <1>9, OthersStay DEF Commit, Results
<1>10. CASE Crash(p)
  BY <1>1, <1>2, <1>3, <1>10, OthersStay DEF Crash, Results
<1>11. CASE Statement(p)
  <2>1. UNCHANGED tx /\ writer' # p /\ ~HasSnap(p)
    BY <1>1, <1>11 DEF Statement, InTx, HasSnap
  <2> QED
    BY <2>1 DEF SnapshotInv, WriterInv, HasSnap, Writing
<1> QED
  BY <1>4, <1>5, <1>6, <1>7, <1>8, <1>9, <1>10, <1>11 DEF Advance

LEMMA WalInvStep ==
    ASSUME WalInv, [Next]_vars
    PROVE  WalInv'
<1>1. TypeOK' /\ Integrity'
  BY TypesKeep, SchemaCarriesOver
<1>2. ASSUME NEW p \in Procs PROVE SnapshotInv(p)' /\ WriterInv(p)'
  <2>1. CASE UNCHANGED vars
    BY <2>1 DEF vars, WalInv, SnapshotInv, WriterInv, HasSnap, Writing
  <2>2. CASE Next
    BY <2>2, OwnStep, OtherStep DEF Next
  <2> QED
    BY <2>1, <2>2
<1> QED
  BY <1>1, <1>2 DEF WalInv

LEMMA WalInvInit ==
    ASSUME Init
    PROVE  WalInv
<1>1. StoreTypeOK /\ Integrity
  BY InitEstablishes DEF Init
<1>2. TypeOK
  BY <1>1, WalIngestAssumption DEF Init, TypeOK, Tx, Returned, Results
<1>3. \A p \in Procs : SnapshotInv(p) /\ WriterInv(p)
  BY WalIngestAssumption DEF Init, Returned, SnapshotInv, WriterInv, HasSnap, Writing
<1> QED
  BY <1>1, <1>2, <1>3 DEF WalInv

-----------------------------------------------------------------------------
\* The calls and the lock are typed.
THEOREM ProcessesAreTyped == Spec => []TypeOK
<1>1. WalInv /\ [Next]_vars => WalInv'
  BY WalInvStep
<1>2. WalInv => TypeOK
  BY DEF WalInv
<1> QED
  BY WalInvInit, <1>1, <1>2, PTL DEF Spec

\* Transactions of any number of processes on one file amount to atomic
\* operations: there is no lost update, no dirty read and no half a report.
THEOREM TransactionsAreAtomic == Spec => ImplementsCrashStore
<1>1. Init => StoreInit
  BY DEF Init
<1>2. WalInv /\ [Next]_vars => WalInv' /\ [StoreNext]_storeVars
  BY WalInvStep, StepsAreStoreSteps
<1> QED
  BY WalInvInit, <1>1, <1>2, PTL DEF Spec, ImplementsCrashStore, StoreSpec

-----------------------------------------------------------------------------
\* A step of a call that ends it is one of Advance, or a crash.
LEMMA CallsEnd ==
    ASSUME WalInv, [Next]_vars, NEW p \in Procs, InTx(p), ~InTx(p)'
    PROVE  Advance(p) \/ Crash(p)
<1>1. TypeOK
  BY DEF WalInv
<1>2. tx'[p] # tx[p] /\ ~UNCHANGED vars
  BY DEF InTx, vars
<1>3. PICK q \in Procs :
         \/ \E args \in Args : Begin(q, args)
         \/ Advance(q) \/ Crash(q) \/ Statement(q)
  BY <1>2 DEF Next
<1>4. q = p
  BY <1>1, <1>2, <1>3, OthersStay
     DEF Begin, Advance, Select, Upsert, UpsertFails, Insert, Commit, Crash, Statement
<1> QED
  BY <1>3, <1>4 DEF Begin, Statement

\* A call that reports a report inserted or a duplicate tells the truth, and one
\* that reports anything else has changed nothing, whatever the other processes
\* have done since it began.
THEOREM ReturnsAreTrue == Spec => ResultsAreTrue
<1>1. ASSUME WalInv, [Next]_vars, NEW p \in Procs, InTx(p), ~InTx(p)'
      PROVE  /\ tx'[p].pc = "inserted" =>
                   ~Stored(db, tx[p].args.id) /\ Stored(db', tx[p].args.id)
             /\ tx'[p].pc = "duplicate" => Stored(db, tx[p].args.id)
             /\ tx'[p].pc # "inserted" => db' = db
  <2> DEFINE t == tx[p]
             a == t.args
  <2>1. /\ TypeOK /\ SnapshotInv(p) /\ WriterInv(p) /\ db \in Db
    BY <1>1 DEF WalInv, TypeOK, StoreTypeOK, Db
  <2>2. \A result \in Results : Returned(result).pc = result
    BY DEF Returned
  <2>3. CASE Select(p)
    <3>1. CASE Stored(db, a.id)
      BY <2>1, <2>2, <2>3, <3>1, OthersStay DEF Select, Results
    <3>2. CASE ~Stored(db, a.id)
      BY <1>1, <2>1, <2>3, <3>2, OthersStay DEF Select, HasRead, InTx
    <3> QED
      BY <3>1, <3>2
  <2>4. CASE Upsert(p)
    <3>1. CASE AppExists(t.work, a.app)
      <4>1. tx'[p].pc = "insert"
        BY <2>1, <2>4, <3>1, OthersStay DEF Upsert, Wrote
      <4> QED
        BY <1>1, <4>1 DEF InTx
    <3>2. CASE ~AppExists(t.work, a.app)
      BY <2>1, <2>2, <2>4, <3>2, OthersStay DEF Upsert, Results
    <3> QED
      BY <3>1, <3>2
  <2>5. CASE UpsertFails(p)
    BY <2>1, <2>2, <2>5, OthersStay DEF UpsertFails, Results
  <2>6. CASE Insert(p)
    <3>1. t.pc = "insert" /\ HasSnap(p) /\ ~Stored(t.snap, a.id)
          /\ t.work = [t.snap EXCEPT !.issues = UpsertIssue(@, a.id, a.app, a.hash, a.at)]
          /\ t.snap \in Db
      BY <2>1, <2>6, TxShapes DEF Insert, SnapshotInv, WriterInv, HasSnap
    <3>2. ~Stored(t.work, a.id)
      BY <3>1 DEF Stored, Db
    <3>3. tx'[p].pc = "commit"
      BY <2>1, <2>6, <3>2, OthersStay DEF Insert, Wrote
    <3> QED
      BY <1>1, <3>3 DEF InTx
  <2>7. CASE Commit(p)
    <3>1. /\ HasSnap(p) /\ ~Stored(t.snap, a.id) /\ t.snap = db
          /\ t.work = IngestReport(t.snap, a.id, a.app, a.hash, a.at)
      BY <2>1, <2>7 DEF Commit, SnapshotInv, WriterInv, HasSnap, Writing
    <3>2. db' = IngestReport(db, a.id, a.app, a.hash, a.at)
      BY <2>7, <3>1 DEF Commit
    <3>3. Stored(db', a.id)
      <4> DEFINE row == [id |-> a.id, app |-> a.app,
                         issue |-> UpsertedId(db.issues, a.app, a.hash),
                         hash |-> a.hash, at |-> a.at]
      <4>1. db' = [apps |-> db.apps, issues |-> UpsertIssue(db.issues, a.id, a.app, a.hash, a.at),
                   reports |-> db.reports \cup {row}]
        BY <2>1, <3>2 DEF IngestReport, Db
      <4>2. row \in db'.reports /\ row.id = a.id
        BY <4>1
      <4> QED
        BY <4>2 DEF Stored
    <3>4. tx'[p].pc = "inserted"
      BY <2>1, <2>2, <2>7, OthersStay DEF Commit, Results
    <3> QED
      BY <3>1, <3>3, <3>4
  <2>8. CASE Crash(p)
    BY <2>1, <2>2, <2>8, OthersStay DEF Crash, Results
  <2> QED
    BY <1>1, <2>3, <2>4, <2>5, <2>6, <2>7, <2>8, CallsEnd DEF Advance
<1>2. WalInv /\ [Next]_vars =>
        [\A p \in Procs :
          InTx(p) /\ ~InTx(p)' =>
             /\ tx'[p].pc = "inserted" =>
                   ~Stored(db, tx[p].args.id) /\ Stored(db', tx[p].args.id)
             /\ tx'[p].pc = "duplicate" => Stored(db, tx[p].args.id)
             /\ tx'[p].pc # "inserted" => db' = db]_vars
  BY <1>1
<1>3. WalInv /\ [Next]_vars => WalInv'
  BY WalInvStep
<1> QED
  BY WalInvInit, <1>2, <1>3, PTL DEF Spec, ResultsAreTrue

-----------------------------------------------------------------------------
(* What CallsReturn rests on *)

\* How far a call is: before its SELECT, its two INSERTs, its commit; over.
Stage(pc) ==
    CASE pc = "select" -> 1 [] pc = "upsert" -> 2 [] pc = "insert" -> 3 [] pc = "commit" -> 4
      [] OTHER -> 5

\* The write lock is held by a call that waits for nobody, and is free when that
\* call is over; and a call goes forward with each of its steps, whatever the
\* others do: it ends after four at most.
CallsGetOn ==
    /\ [](\A p \in Procs : writer = p <=> tx[p].pc \in {"insert", "commit"})
    /\ [][\A p \in Procs : InTx(p) =>
             tx'[p] = tx[p] \/ Stage(tx'[p].pc) > Stage(tx[p].pc)]_vars

LEMMA CallsGoForward ==
    ASSUME WalInv, [Next]_vars, NEW p \in Procs, InTx(p), tx'[p] # tx[p]
    PROVE  Stage(tx'[p].pc) > Stage(tx[p].pc)
<1>1. CASE ~InTx(p)'
  BY <1>1 DEF InTx, Stage
<1>2. CASE InTx(p)'
  <2>1. TypeOK /\ ~UNCHANGED vars
    BY DEF WalInv, vars
  <2>2. PICK q \in Procs :
           \/ \E args \in Args : Begin(q, args)
           \/ Advance(q) \/ Crash(q) \/ Statement(q)
    BY <2>1 DEF Next
  <2>3. q = p
    BY <2>1, <2>2, OthersStay
       DEF Begin, Advance, Select, Upsert, UpsertFails, Insert, Commit, Crash, Statement
  <2>4. \A result \in Results : Returned(result).pc \in Results
    BY DEF Returned
  <2>5. Select(p) \/ Upsert(p) \/ UpsertFails(p) \/ Insert(p) \/ Commit(p) \/ Crash(p)
    BY <2>2, <2>3 DEF Begin, Statement, Advance
  <2>6. ~UpsertFails(p) /\ ~Commit(p) /\ ~Crash(p)
    <3>1. ASSUME NEW result \in Results, Become(p, Returned(result)) PROVE FALSE
      BY <1>2, <2>1, <2>4, <3>1, OthersStay DEF InTx, Results
    <3> QED
      BY <3>1 DEF UpsertFails, Commit, Crash, Results
  <2>7. CASE Select(p)
    <3>1. tx[p].pc = "select" /\ tx'[p].pc \in {"duplicate", "upsert"}
      BY <2>1, <2>7, OthersStay DEF Select, Returned, HasRead
    <3> QED
      BY <3>1 DEF Stage
  <2>8. CASE Upsert(p)
    <3>1. tx[p].pc = "upsert" /\ tx'[p].pc \in {"error", "insert"}
      BY <2>1, <2>8, OthersStay DEF Upsert, Returned, Wrote
    <3> QED
      BY <3>1 DEF Stage
  <2>9. CASE Insert(p)
    <3>1. tx[p].pc = "insert" /\ tx'[p].pc \in {"duplicate", "commit"}
      BY <2>1, <2>9, OthersStay DEF Insert, Returned, Wrote
    <3> QED
      BY <3>1 DEF Stage
  <2> QED
    BY <2>5, <2>6, <2>7, <2>8, <2>9
<1> QED
  BY <1>1, <1>2

\* For any number of processes: nobody waits for a lock whose holder waits, and no
\* step of another takes a call back.
THEOREM CallsGoOn == Spec => CallsGetOn
<1>1. WalInv => \A p \in Procs : writer = p <=> tx[p].pc \in {"insert", "commit"}
  BY DEF WalInv, WriterInv, Writing
<1>2. WalInv /\ [Next]_vars =>
         [\A p \in Procs : InTx(p) =>
             tx'[p] = tx[p] \/ Stage(tx'[p].pc) > Stage(tx[p].pc)]_vars
  BY CallsGoForward
<1>3. WalInv /\ [Next]_vars => WalInv'
  BY WalInvStep
<1> QED
  BY WalInvInit, <1>1, <1>2, <1>3, PTL DEF Spec, CallsGetOn

-----------------------------------------------------------------------------
(* The seed command *)

SeedRun ==
    [pc : {"ready"}, runs : Nat]
        \cup [pc : {"app"}, runs : Nat, names : SUBSET Names, at : Nat \ {0}]
        \cup [pc : {"fill"}, runs : Nat, names : SUBSET Names, at : Nat \ {0},
              app : AppRow, i : 1..(PerApp + 1), n : Nat]

SeedTypeOK ==
    /\ StoreTypeOK
    /\ IsFiniteSet(db.reports)
    /\ run \in [Seeds -> SeedRun]
    /\ others \in Nat

Fills(p) == run[p].pc = "fill"

\* Every report is the command's, under the app that its id names.
OnlySeeded == \A r \in db.reports : \E j \in 1..PerApp : r.id = SeedId[<<r.app, j>>]

\* An app's reports, and which of the command's first k for it are among them.
Under(reports, app) == {r \in reports : r.app = app.id}

Numbers(reports, app, k) ==
    {j \in 1..k : \E r \in Under(reports, app) : r.id = SeedId[<<app.id, j>>]}

HasOnly(reports, app, k) ==
    \A r \in Under(reports, app) : \E j \in 1..k : r.id = SeedId[<<app.id, j>>]

\* What was counted for an app, up to its k-th report, is stored if the app is
\* still there.  An app that is gone does not come back: its key has been used.
Counted(d, keys, app, n, k) ==
    /\ app \in AppRow /\ app.key \in keys /\ n \in Nat /\ k \in Nat
    /\ app \in d.apps => n <= Cardinality(Numbers(d.reports, app, k))

CountsInv ==
    /\ \A p \in Seeds : Fills(p) => Counted(db, issued, run[p].app, run[p].n, run[p].i - 1)
    /\ \A e \in printed : Counted(db, issued, e.app, e.n, PerApp)

\* A process fills an app that is there, and the reports of the app are those
\* that it has stored; nobody else fills it.
FillingInv(p) ==
    Fills(p) =>
        /\ run[p].app \in db.apps
        /\ run[p].n = Cardinality(Under(db.reports, run[p].app))
        /\ HasOnly(db.reports, run[p].app, run[p].i - 1)
        /\ \A s \in Seeds \ {p} : Fills(s) => run[s].app # run[p].app

\* An app that is printed is there with its reports, and nobody fills it.
PrintedInv(e) ==
    /\ e.app \in db.apps
    /\ e.n = Cardinality(Under(db.reports, e.app))
    /\ \A s \in Seeds : Fills(s) => run[s].app # e.app

\* As long as nobody else has touched the store.
AloneInv ==
    others = 0 =>
        /\ \A p \in Seeds : FillingInv(p)
        /\ \A e \in printed : PrintedInv(e)

SeedInv == SeedTypeOK /\ Integrity /\ OnlySeeded /\ CountsInv /\ AloneInv

LEMMA RunShapes ==
    ASSUME SeedTypeOK, NEW p \in Seeds
    PROVE  /\ run[p].runs \in Nat
           /\ run[p].pc = "app" => run[p].names \subseteq Names /\ run[p].at \in Nat \ {0}
           /\ Fills(p) => run[p] \in [pc : {"fill"}, runs : Nat, names : SUBSET Names,
                                      at : Nat \ {0}, app : AppRow, i : 1..(PerApp + 1), n : Nat]
BY DEF SeedTypeOK, SeedRun, Fills

\* A step of one process leaves the others where they are.
LEMMA RunsStay ==
    ASSUME SeedTypeOK, NEW p \in Seeds, NEW q, Go(p, q)
    PROVE  /\ run'[p] = q
           /\ \A s \in Seeds \ {p} : run'[s] = run[s]
           /\ q \in SeedRun => run' \in [Seeds -> SeedRun]
BY DEF Go, SeedTypeOK

\* What the INSERT of an app leaves: one more app, of an id that is not in use,
\* with a key that was never used.
LEMMA CreateEffect ==
    ASSUME StoreTypeOK, NEW name \in Names, NEW key \in Keys, Create(name, key)
    PROVE  \E row \in AppRow :
              /\ db'.apps = db.apps \cup {row}
              /\ row.name = name /\ row.key = key
              /\ key \notin issued /\ issued' = issued \cup {key}
              /\ \A a \in db.apps : a.id # row.id
              /\ db'.issues = db.issues /\ db'.reports = db.reports
<1> DEFINE row == [id |-> NextRowid(db.apps), name |-> name, key |-> key]
<1>1. db'.apps = db.apps \cup {row} /\ db'.issues = db.issues /\ db'.reports = db.reports
  BY DEF Create, CreateApp, StoreTypeOK
<1>2. row \in AppRow /\ \A a \in db.apps : a.id # row.id
  BY NextRowidIsFresh DEF Create, StoreTypeOK, AppRow
<1>3. row.name = name /\ row.key = key
  OBVIOUS
<1>4. key \notin issued /\ issued' = issued \cup {key}
  BY DEF Create
<1> HIDE DEF row
<1> QED
  BY <1>1, <1>2, <1>3, <1>4

\* Which of the store's operations the command and the admin beside it use.
LEMMA SeedTouches ==
    ASSUME SeedTypeOK, [SeedNext]_seedVars
    PROVE  \/ UNCHANGED storeVars
           \/ \E name \in Names, key \in Keys : Create(name, key)
           \/ \E app \in Rowids : RemoveApp(app)
           \/ \E rid \in Rids, app \in Rowids, hash \in Hashes, at \in Times :
                 Ingest(rid, app, hash, at)
<1>1. ASSUME NEW p \in Seeds, CreateDemo(p)
      PROVE  UNCHANGED storeVars \/ \E name \in Names, key \in Keys : Create(name, key)
  <2>1. run[p].at \in 1..Len(Demo)
    BY <1>1, RunShapes, SeedAssumption DEF CreateDemo
  <2>2. Demo[run[p].at] \in Names
    BY <2>1, SeedAssumption
  <2> QED
    BY <1>1, <2>2 DEF CreateDemo
<1>2. ASSUME NEW p \in Seeds, SeedReport(p)
      PROVE  \/ UNCHANGED storeVars
             \/ \E rid \in Rids, app \in Rowids, hash \in Hashes, at \in Times :
                   Ingest(rid, app, hash, at)
  <2>1. run[p].app.id \in Rowids /\ run[p].i \in 1..PerApp
    BY <1>2, RunShapes, SeedAssumption DEF SeedReport, Fills, AppRow
  <2>2. /\ SeedId[<<run[p].app.id, run[p].i>>] \in Rids
        /\ TraceOf[run[p].i] \in Hashes
    BY <2>1, SeedAssumption
  <2> QED
    BY <1>2, <2>1, <2>2 DEF SeedReport
<1>3. ASSUME Admin
      PROVE  \/ \E name \in Names, key \in Keys : Create(name, key)
             \/ \E app \in Rowids : RemoveApp(app)
  BY <1>3 DEF Admin
<1> QED
  BY <1>1, <1>2, <1>3 DEF SeedNext, Step, ListApps, Skip, PrintCount, Finish, Die,
                          seedVars, storeVars

LEMMA SeedStepsAreStoreSteps ==
    ASSUME SeedTypeOK, [SeedNext]_seedVars
    PROVE  [StoreNext]_storeVars
BY SeedTouches DEF StoreNext

\* A report goes only with its app, and an app that was there once is there only
\* if it has been there since.
LEMMA ReportsStayWithApp ==
    ASSUME SeedTypeOK, Integrity, [SeedNext]_seedVars, NEW app, app.key \in issued
    PROVE  /\ app.key \in issued'
           /\ app \in db'.apps => /\ app \in db.apps
                                  /\ Under(db.reports, app) \subseteq Under(db'.reports, app)
<1>1. CASE UNCHANGED storeVars
  BY <1>1 DEF storeVars
<1>2. CASE \E name \in Names, key \in Keys : Create(name, key)
  <2>1. PICK name \in Names, key \in Keys : Create(name, key)
    BY <1>2
  <2>2. PICK row \in AppRow : /\ db'.apps = db.apps \cup {row} /\ row.key = key
                              /\ key \notin issued /\ issued' = issued \cup {key}
                              /\ db'.reports = db.reports
    BY <2>1, CreateEffect DEF SeedTypeOK
  <2> QED
    BY <2>2
<1>3. CASE \E id \in Rowids : RemoveApp(id)
  <2>1. PICK id \in Rowids : RemoveApp(id)
    BY <1>3
  <2> DEFINE gone == {i.id : i \in {j \in db.issues : j.app = id}}
  <2>2. /\ db'.apps = {a \in db.apps : a.id # id} /\ issued' = issued
        /\ db'.reports = {r \in db.reports : r.app # id /\ r.issue \notin gone}
    BY <2>1 DEF RemoveApp, DeleteApp
  <2>3. ASSUME app.id # id, NEW r \in db.reports, r.app = app.id
        PROVE  r.issue \notin gone
    <3>1. PICK i \in db.issues : i.id = r.issue /\ i.app = r.app
      BY DEF Integrity, ReportsHaveIssues
    <3>2. \A j \in db.issues : j.id = i.id => j = i
      BY DEF Integrity, UniqueIds, Unique
    <3> QED
      BY <2>3, <3>1, <3>2
  <2> HIDE DEF gone
  <2> QED
    BY <2>2, <2>3 DEF Under
<1>4. CASE \E rid \in Rids, id \in Rowids, hash \in Hashes, at \in Times :
              Ingest(rid, id, hash, at)
  <2>1. PICK rid \in Rids, id \in Rowids, hash \in Hashes, at \in Times :
                Ingest(rid, id, hash, at)
    BY <1>4
  <2>2. db'.apps = db.apps /\ db.reports \subseteq db'.reports
    BY <2>1, IngestEffect DEF SeedTypeOK
  <2>3. issued' = issued
    BY <2>1 DEF Ingest
  <2> QED
    BY <2>2, <2>3 DEF Under
<1> QED
  BY <1>1, <1>2, <1>3, <1>4, SeedTouches

LEMMA SeedTypesKeep ==
    ASSUME SeedTypeOK, Integrity, [SeedNext]_seedVars
    PROVE  SeedTypeOK' /\ Integrity'
<1>1. StoreTypeOK' /\ Integrity'
  BY SeedStepsAreStoreSteps, StepKeeps DEF SeedTypeOK
<1>2. others' \in Nat
  <2>1. others' = others \/ others' = others + 1
    BY DEF SeedNext, Step, Die, Admin, seedVars, ListApps, Skip, CreateDemo, SeedReport,
           PrintCount, Finish
  <2> QED
    BY <2>1 DEF SeedTypeOK
<1>4. IsFiniteSet(db'.reports)
  <2>1. ASSUME NEW rid \in Rids, NEW app \in Rowids, NEW hash \in Hashes, NEW at \in Times,
               Ingest(rid, app, hash, at)
        PROVE  IsFiniteSet(db'.reports)
    <3>1. PICK row : db'.reports = db.reports \cup {row}
      BY <2>1, IngestEffect DEF SeedTypeOK
    <3> QED
      BY <3>1, FS_AddElement DEF SeedTypeOK
  <2>2. ASSUME db'.reports \subseteq db.reports
        PROVE  IsFiniteSet(db'.reports)
    BY <2>2, FS_Subset DEF SeedTypeOK
  <2>3. ASSUME NEW name \in Names, NEW key \in Keys, Create(name, key)
        PROVE  db'.reports = db.reports
    BY <2>3, CreateEffect DEF SeedTypeOK
  <2>4. ASSUME NEW app \in Rowids, RemoveApp(app)
        PROVE  db'.reports \subseteq db.reports
    BY <2>4 DEF RemoveApp, DeleteApp
  <2>5. UNCHANGED storeVars => db'.reports = db.reports
    BY DEF storeVars
  <2> QED
    BY <2>1, <2>2, <2>3, <2>4, <2>5, SeedTouches
<1>3. run' \in [Seeds -> SeedRun]
  <2>1. ASSUME NEW p \in Seeds PROVE Ready(run[p].runs) \in SeedRun
    BY <2>1, RunShapes DEF Ready, SeedRun
  <2>2. ASSUME NEW p \in Seeds, ListApps(p) PROVE run' \in [Seeds -> SeedRun]
    <3> DEFINE q == [pc |-> "app", runs |-> run[p].runs + 1,
                     names |-> {a.name : a \in db.apps}, at |-> 1]
    <3>1. {a.name : a \in db.apps} \subseteq Names
      BY DEF SeedTypeOK, StoreTypeOK, AppRow
    <3>2. q \in SeedRun
      BY <3>1, RunShapes DEF SeedRun
    <3>3. Go(p, q)
      BY <2>2 DEF ListApps
    <3> QED
      BY <3>2, <3>3, RunsStay
  <2>3. ASSUME NEW p \in Seeds, Skip(p) PROVE run' \in [Seeds -> SeedRun]
    <3>1. At(run[p], run[p].at + 1) \in SeedRun
      BY <2>3, RunShapes DEF Skip, At, SeedRun
    <3> QED
      BY <2>3, <3>1, RunsStay DEF Skip
  <2>4. ASSUME NEW p \in Seeds, CreateDemo(p) PROVE run' \in [Seeds -> SeedRun]
    <3>1. \A app \in db'.apps : Filling(run[p], app, 1, 0) \in SeedRun
      <4>1. db'.apps \subseteq AppRow /\ 1 \in 1..(PerApp + 1)
        BY <1>1, SeedAssumption DEF StoreTypeOK
      <4> QED
        BY <2>4, <4>1, RunShapes DEF CreateDemo, Filling, SeedRun
    <3> QED
      BY <2>1, <2>4, <3>1, RunsStay DEF CreateDemo
  <2>5. ASSUME NEW p \in Seeds, SeedReport(p) PROVE run' \in [Seeds -> SeedRun]
    <3> DEFINE q == run[p]
    <3>1. /\ q.app \in AppRow /\ q.i + 1 \in 1..(PerApp + 1) /\ q.n \in Nat
          /\ q.runs \in Nat /\ q.names \subseteq Names /\ q.at \in Nat \ {0}
      BY <2>5, RunShapes, SeedAssumption DEF SeedReport, Fills
    <3>2. /\ Filling(q, q.app, q.i + 1, q.n + 1) \in SeedRun
          /\ Filling(q, q.app, q.i + 1, q.n) \in SeedRun
      BY <3>1 DEF Filling, SeedRun
    <3> QED
      BY <2>5, <3>2, RunsStay DEF SeedReport
  <2>6. ASSUME NEW p \in Seeds, PrintCount(p) PROVE run' \in [Seeds -> SeedRun]
    <3>1. At(run[p], run[p].at + 1) \in SeedRun
      BY <2>6, RunShapes DEF PrintCount, At, SeedRun, Fills
    <3> QED
      BY <2>6, <3>1, RunsStay DEF PrintCount
  <2>7. ASSUME NEW p \in Seeds, Finish(p) \/ Die(p) PROVE run' \in [Seeds -> SeedRun]
    BY <2>1, <2>7, RunsStay DEF Finish, Die
  <2>8. CASE UNCHANGED run
    BY <2>8 DEF SeedTypeOK
  <2> QED
    BY <2>2, <2>3, <2>4, <2>5, <2>6, <2>7, <2>8 DEF SeedNext, Step, Admin, seedVars
<1> QED
  BY <1>1, <1>2, <1>3, <1>4 DEF SeedTypeOK

\* The id of a report tells the app's id and the number.
LEMMA SeedIdTells ==
    \A a, b \in Rowids, i, j \in 1..PerApp :
        SeedId[<<a, i>>] = SeedId[<<b, j>>] => a = b /\ i = j
<1> SUFFICES ASSUME NEW a \in Rowids, NEW b \in Rowids, NEW i \in 1..PerApp, NEW j \in 1..PerApp,
                    SeedId[<<a, i>>] = SeedId[<<b, j>>]
             PROVE  a = b /\ i = j
  OBVIOUS
<1>1. <<a, i>> \in Rowids \X (1..PerApp) /\ <<b, j>> \in Rowids \X (1..PerApp)
  OBVIOUS
<1>2. <<a, i>> = <<b, j>>
  BY <1>1, SeedAssumption
<1> QED
  BY <1>2

\* A number whose report is stored, whoever stored it, is a number of the app that
\* has the id now.
LEMMA StoredIsNumber ==
    ASSUME SeedInv, NEW app \in AppRow, NEW i \in 1..PerApp,
           Stored(db, SeedId[<<app.id, i>>])
    PROVE  i \in Numbers(db.reports, app, i)
<1>1. PICK r \in db.reports : r.id = SeedId[<<app.id, i>>]
  BY DEF Stored
<1>2. PICK j \in 1..PerApp : r.id = SeedId[<<r.app, j>>]
  BY DEF SeedInv, OnlySeeded
<1>3. r.app \in Rowids /\ app.id \in Rowids
  BY DEF SeedInv, SeedTypeOK, StoreTypeOK, ReportRow, AppRow
<1>4. SeedId[<<r.app, j>>] = SeedId[<<app.id, i>>]
  BY <1>1, <1>2
<1>5. r.app = app.id
  BY <1>3, <1>4, SeedIdTells, Zenon
<1> QED
  BY <1>1, <1>5 DEF Numbers, Under

\* Numbers are finitely many, and no more than the reports they stand for.
LEMMA NumbersAreReports ==
    ASSUME NEW reports, IsFiniteSet(reports), NEW app \in AppRow, NEW k \in Nat, k <= PerApp
    PROVE  /\ IsFiniteSet(Numbers(reports, app, k))
           /\ Cardinality(Numbers(reports, app, k)) \in Nat
           /\ Cardinality(Under(reports, app)) \in Nat
           /\ Cardinality(Numbers(reports, app, k)) <= Cardinality(Under(reports, app))
<1> DEFINE S == Numbers(reports, app, k)
           T == Under(reports, app)
           f == [j \in S |-> CHOOSE r \in T : r.id = SeedId[<<app.id, j>>]]
<1>1. IsFiniteSet(T)
  <2>1. T \subseteq reports
    BY DEF Under
  <2> QED
    BY <2>1, FS_Subset
<1>2. \A j \in S : f[j] \in T /\ f[j].id = SeedId[<<app.id, j>>]
  BY DEF Numbers
<1>3. S \subseteq 1..PerApp /\ app.id \in Rowids
  BY SeedAssumption DEF Numbers, AppRow
<1>4. ASSUME NEW i \in S, NEW j \in S, f[i] = f[j]
      PROVE  i = j
  <2> HIDE DEF f, S
  <2>1. SeedId[<<app.id, i>>] = SeedId[<<app.id, j>>]
    BY <1>2, <1>4
  <2>2. i \in 1..PerApp /\ j \in 1..PerApp
    BY <1>3
  <2> QED
    BY <1>3, <2>1, <2>2, SeedIdTells, Zenon
<1>5. f \in Injection(S, T)
  <2>1. f \in [S -> T]
    BY <1>2
  <2>2. DOMAIN f = S
    OBVIOUS
  <2> HIDE DEF f, S, T
  <2> QED
    BY <1>4, <2>1, <2>2 DEF Injection, IsInjective
<1> HIDE DEF f, S, T
<1>6. IsFiniteSet(S) /\ Cardinality(S) <= Cardinality(T)
  BY <1>1, <1>5, FS_Injection
<1> QED
  BY <1>1, <1>6, FS_CardinalityType DEF S, T

\* What is counted stays so, and the count may go on to a later number.
LEMMA CountedStays ==
    ASSUME SeedTypeOK, Integrity, [SeedNext]_seedVars, NEW app, NEW n, NEW k,
           Counted(db, issued, app, n, k),
           NEW m \in Nat, k <= m
    PROVE  Counted(db', issued', app, n, m)
<1>1. app.key \in issued'
  BY ReportsStayWithApp DEF Counted
<1>2. ASSUME app \in db'.apps
      PROVE  n <= Cardinality(Numbers(db'.reports, app, m))
  <2> DEFINE S == Numbers(db.reports, app, k)
             T == Numbers(db'.reports, app, m)
  <2>1. /\ app \in db.apps
        /\ Under(db.reports, app) \subseteq Under(db'.reports, app)
    BY <1>2, ReportsStayWithApp DEF Counted
  <2>2. S \subseteq T
    BY <2>1 DEF Numbers, Counted
  <2>3. IsFiniteSet(T)
    <3>1. T \subseteq 1..m /\ IsFiniteSet(1..m)
      BY FS_Interval DEF Numbers
    <3> QED
      BY <3>1, FS_Subset
  <2>4. n <= Cardinality(S) /\ n \in Nat
    BY <2>1 DEF Counted
  <2> HIDE DEF S, T
  <2>5. /\ IsFiniteSet(S) /\ Cardinality(S) <= Cardinality(T)
        /\ Cardinality(S) \in Nat /\ Cardinality(T) \in Nat
    BY <2>2, <2>3, FS_Subset, FS_CardinalityType
  <2>6. n <= Cardinality(T)
    BY <2>4, <2>5
  <2> QED
    BY <2>6 DEF T
<1> QED
  BY <1>1, <1>2 DEF Counted

\* One more number that is stored may be counted.
LEMMA CountedGrows ==
    ASSUME SeedTypeOK, Integrity, [SeedNext]_seedVars, NEW app, NEW n, NEW k,
           Counted(db, issued, app, n, k),
           k + 1 \in Numbers(db'.reports, app, k + 1)
    PROVE  Counted(db', issued', app, n + 1, k + 1)
<1>1. app \in AppRow /\ app.key \in issued' /\ n \in Nat /\ k \in Nat
  BY ReportsStayWithApp DEF Counted
<1>2. ASSUME app \in db'.apps
      PROVE  n + 1 <= Cardinality(Numbers(db'.reports, app, k + 1))
  <2> DEFINE S == Numbers(db.reports, app, k)
             T == Numbers(db'.reports, app, k + 1)
             x == k + 1
  <2>1. /\ app \in db.apps
        /\ Under(db.reports, app) \subseteq Under(db'.reports, app)
    BY <1>2, ReportsStayWithApp DEF Counted
  <2>2. S \cup {x} \subseteq T /\ x \notin S
    BY <1>1, <2>1 DEF Numbers
  <2>3. IsFiniteSet(S) /\ IsFiniteSet(T)
    <3>1. S \subseteq 1..k /\ T \subseteq 1..(k + 1)
      BY DEF Numbers
    <3>2. IsFiniteSet(1..k) /\ IsFiniteSet(1..(k + 1))
      BY <1>1, FS_Interval
    <3> HIDE DEF S, T
    <3> QED
      BY <3>1, <3>2, FS_Subset
  <2>4. n <= Cardinality(S)
    BY <2>1 DEF Counted
  <2> HIDE DEF S, T, x
  <2>5. IsFiniteSet(S \cup {x}) /\ Cardinality(S \cup {x}) = Cardinality(S) + 1
    BY <2>2, <2>3, FS_AddElement
  <2>6. Cardinality(S \cup {x}) <= Cardinality(T)
    BY <2>2, <2>3, FS_Subset
  <2>7. Cardinality(S) \in Nat /\ Cardinality(T) \in Nat
    BY <2>3, FS_CardinalityType
  <2>8. n + 1 <= Cardinality(T)
    BY <1>1, <2>4, <2>5, <2>6, <2>7
  <2> QED
    BY <2>8 DEF T
<1> QED
  BY <1>1, <1>2 DEF Counted

\* A process that goes on, and one that is let alone, has what it counted.
LEMMA CountGoesOn ==
    ASSUME SeedInv, [SeedNext]_seedVars, NEW s \in Seeds, Fills(s), run'[s].app = run[s].app,
           run'[s].n = run[s].n, run'[s].i \in {run[s].i, run[s].i + 1}
    PROVE  Counted(db', issued', run'[s].app, run'[s].n, run'[s].i - 1)
<1>1. SeedTypeOK /\ Integrity /\ Counted(db, issued, run[s].app, run[s].n, run[s].i - 1)
  BY DEF SeedInv, CountsInv
<1>2. /\ run[s].i - 1 \in Nat
      /\ run'[s].i - 1 \in Nat /\ run[s].i - 1 <= run'[s].i - 1
  <2>1. run[s].i \in 1..(PerApp + 1)
    BY <1>1, RunShapes
  <2> QED
    BY <2>1, SeedAssumption
<1>3. Counted(db', issued', run[s].app, run[s].n, run'[s].i - 1)
  BY <1>1, <1>2, CountedStays
<1> QED
  BY <1>3

\* A report that is counted is stored.
LEMMA ReportIsCounted ==
    ASSUME SeedInv, [SeedNext]_seedVars, NEW p \in Seeds, SeedReport(p)
    PROVE  Counted(db', issued', run'[p].app, run'[p].n, run'[p].i - 1)
<1> DEFINE q == run[p]
           rid == SeedId[<<q.app.id, q.i>>]
<1>1. SeedTypeOK /\ Integrity /\ Fills(p)
  BY DEF SeedInv, SeedReport, Fills
<1>2. /\ q.app \in AppRow /\ q.i \in 1..PerApp /\ q.n \in Nat
      /\ Counted(db, issued, q.app, q.n, q.i - 1)
  BY <1>1, RunShapes, SeedAssumption DEF SeedReport, SeedInv, CountsInv
<1>3. CASE Go(p, Filling(q, q.app, q.i + 1, q.n))
  <2>1. run'[p].app = q.app /\ run'[p].n = q.n /\ run'[p].i = q.i + 1
    BY <1>1, <1>3, RunsStay DEF Filling
  <2> QED
    BY <1>1, <2>1, CountGoesOn
<1>4. ASSUME Go(p, Filling(q, q.app, q.i + 1, q.n + 1)), q.i \in Numbers(db'.reports, q.app, q.i)
      PROVE  Counted(db', issued', run'[p].app, run'[p].n, run'[p].i - 1)
  <2>1. run'[p].app = q.app /\ run'[p].n = q.n + 1 /\ run'[p].i = q.i + 1
    BY <1>1, <1>4, RunsStay DEF Filling
  <2>2. (q.i - 1) + 1 = q.i /\ (q.i + 1) - 1 = q.i
    BY <1>2
  <2>3. Counted(db', issued', q.app, q.n + 1, q.i)
    <3> HIDE DEF q
    <3> QED
      BY <1>1, <1>2, <1>4, <2>2, CountedGrows
  <2> QED
    BY <2>1, <2>2, <2>3
<1>5. CASE /\ \E at \in Times : Ingest(rid, q.app.id, TraceOf[q.i], at)
           /\ Go(p, Filling(q, q.app, q.i + 1, q.n + 1))
  <2>1. rid \in Rids /\ TraceOf[q.i] \in Hashes /\ q.app.id \in Rowids
    <3>1. q.app.id \in Rowids
      BY <1>2 DEF AppRow
    <3> QED
      BY <1>2, <3>1, SeedAssumption
  <2>2. PICK row : db'.reports = db.reports \cup {row} /\ row.id = rid /\ row.app = q.app.id
    BY <1>1, <1>5, <2>1, IngestEffect DEF SeedTypeOK
  <2>3. q.i \in Numbers(db'.reports, q.app, q.i)
    BY <1>2, <2>2 DEF Numbers, Under
  <2> QED
    BY <1>4, <1>5, <2>3
<1>6. CASE /\ Stored(db, rid)
           /\ Go(p, Filling(q, q.app, q.i + 1, q.n + 1))
           /\ UNCHANGED storeVars
  <2>1. q.i \in Numbers(db.reports, q.app, q.i)
    BY <1>2, <1>6, StoredIsNumber
  <2>2. db' = db
    BY <1>6 DEF storeVars
  <2> QED
    BY <1>4, <1>6, <2>1, <2>2
<1> QED
  BY <1>3, <1>5, <1>6 DEF SeedReport

\* Every step keeps what was counted, whatever the admin does.
LEMMA CountsKeep ==
    ASSUME SeedInv, [SeedNext]_seedVars
    PROVE  CountsInv'
<1>1. SeedTypeOK /\ Integrity /\ CountsInv /\ PerApp \in Nat
  BY SeedAssumption DEF SeedInv
<1>2. \A e \in printed : Counted(db', issued', e.app, e.n, PerApp)
  BY <1>1, CountedStays DEF CountsInv
<1>3. \A s \in Seeds : Fills(s) /\ run'[s] = run[s] =>
                           Counted(db', issued', run'[s].app, run'[s].n, run'[s].i - 1)
  BY CountGoesOn
<1>4. ASSUME printed' = printed,
             \A s \in Seeds : Fills(s)' =>
                Counted(db', issued', run'[s].app, run'[s].n, run'[s].i - 1)
      PROVE  CountsInv'
  BY <1>2, <1>4 DEF CountsInv
<1>5. CASE \E p \in Seeds : ListApps(p) \/ Skip(p) \/ Finish(p) \/ Die(p)
  <2>1. PICK p \in Seeds : ListApps(p) \/ Skip(p) \/ Finish(p) \/ Die(p)
    BY <1>5
  <2>2. /\ run'[p].pc # "fill" /\ printed' = printed
        /\ \A s \in Seeds \ {p} : run'[s] = run[s]
    BY <1>1, <2>1, RunsStay DEF ListApps, Skip, Finish, Die, Ready, At
  <2> QED
    BY <1>3, <1>4, <2>2 DEF Fills
<1>6. CASE \E p \in Seeds : CreateDemo(p)
  <2>1. PICK p \in Seeds : CreateDemo(p)
    BY <1>6
  <2>2. printed' = printed
    BY <2>1 DEF CreateDemo
  <2>3. CASE Go(p, Ready(run[p].runs))
    <3>1. run'[p].pc # "fill" /\ \A s \in Seeds \ {p} : run'[s] = run[s]
      BY <1>1, <2>3, RunsStay DEF Ready
    <3> QED
      BY <1>3, <1>4, <2>2, <3>1 DEF Fills
  <2>4. CASE \E app \in db'.apps \ db.apps : Go(p, Filling(run[p], app, 1, 0))
    <3>1. PICK app \in db'.apps : Go(p, Filling(run[p], app, 1, 0))
      BY <2>4
    <3>2. /\ run'[p].app = app /\ run'[p].n = 0 /\ run'[p].i - 1 = 0
          /\ \A s \in Seeds \ {p} : run'[s] = run[s]
      BY <1>1, <3>1, RunsStay DEF Filling
    <3>3. app \in AppRow /\ app.key \in issued'
      BY <1>1, SeedTypesKeep DEF SeedTypeOK, StoreTypeOK, Integrity, UniqueKeys
    <3>4. Cardinality(Numbers(db'.reports, app, 0)) = 0
      <4>1. Numbers(db'.reports, app, 0) = {}
        BY DEF Numbers
      <4> QED
        BY <4>1, FS_EmptySet
    <3>5. Counted(db', issued', app, 0, 0)
      BY <3>3, <3>4 DEF Counted
    <3> QED
      BY <1>3, <1>4, <2>2, <3>2, <3>5 DEF Fills
  <2> QED
    BY <2>1, <2>3, <2>4 DEF CreateDemo
<1>7. CASE \E p \in Seeds : SeedReport(p)
  <2>1. PICK p \in Seeds : SeedReport(p)
    BY <1>7
  <2>2. printed' = printed /\ \A s \in Seeds \ {p} : run'[s] = run[s]
    BY <1>1, <2>1, RunsStay DEF SeedReport
  <2>3. Counted(db', issued', run'[p].app, run'[p].n, run'[p].i - 1)
    BY <2>1, ReportIsCounted
  <2> QED
    BY <1>3, <1>4, <2>2, <2>3 DEF Fills
<1>8. CASE \E p \in Seeds : PrintCount(p)
  <2>1. PICK p \in Seeds : PrintCount(p)
    BY <1>8
  <2> DEFINE new == [app |-> run[p].app, n |-> run[p].n]
  <2>2. /\ run'[p].pc # "fill" /\ printed' = printed \cup {new}
        /\ UNCHANGED <<db, issued>> /\ Fills(p)
        /\ \A s \in Seeds \ {p} : run'[s] = run[s]
    BY <1>1, <2>1, RunsStay DEF PrintCount, At, Fills
  <2>3. run[p].i - 1 = PerApp
    BY <1>1, <2>1, <2>2, RunShapes DEF PrintCount
  <2>4. Counted(db', issued', new.app, new.n, PerApp)
    BY <1>1, <2>2, <2>3 DEF CountsInv
  <2> HIDE DEF new
  <2> QED
    BY <1>2, <1>3, <2>2, <2>4 DEF CountsInv, Fills
<1>9. CASE Admin \/ UNCHANGED seedVars
  <2>1. run' = run /\ printed' = printed
    BY <1>9 DEF Admin, seedVars
  <2> QED
    BY <1>3, <1>4, <2>1 DEF Fills
<1> QED
  BY <1>5, <1>6, <1>7, <1>8, <1>9 DEF SeedNext, Step

\* As before a step, every report is the command's afterwards.
LEMMA SeededKeeps ==
    ASSUME SeedInv, [SeedNext]_seedVars
    PROVE  OnlySeeded'
<1>1. CASE \E p \in Seeds : SeedReport(p)
  <2>1. PICK p \in Seeds : SeedReport(p)
    BY <1>1
  <2> DEFINE q == run[p]
  <2>2. q.app.id \in Rowids /\ q.i \in 1..PerApp
    BY <2>1, RunShapes, SeedAssumption DEF SeedReport, SeedInv, Fills, AppRow
  <2>3. SeedId[<<q.app.id, q.i>>] \in Rids /\ TraceOf[q.i] \in Hashes
    BY <2>2, SeedAssumption
  <2>4. \/ UNCHANGED storeVars
        \/ \E row : /\ db'.reports = db.reports \cup {row}
                    /\ row.id = SeedId[<<q.app.id, q.i>>] /\ row.app = q.app.id
    <3>1. \/ UNCHANGED storeVars
          \/ \E at \in Times :
                Ingest(SeedId[<<q.app.id, q.i>>], q.app.id, TraceOf[q.i], at)
      BY <2>1 DEF SeedReport
    <3> HIDE DEF q
    <3> QED
      BY <2>2, <2>3, <3>1, IngestEffect DEF SeedInv, SeedTypeOK
  <2> QED
    BY <2>2, <2>4 DEF OnlySeeded, SeedInv, storeVars
<1>2. CASE ~ \E p \in Seeds : SeedReport(p)
  <2>1. \/ UNCHANGED storeVars
        \/ \E p \in Seeds : CreateDemo(p)
        \/ Admin
    BY <1>2 DEF SeedNext, Step, ListApps, Skip, PrintCount, Finish, Die, seedVars, storeVars
  <2>2. ASSUME NEW p \in Seeds, CreateDemo(p)
        PROVE  db'.reports = db.reports
    <3>1. run[p].at \in 1..Len(Demo)
      BY <2>2, RunShapes, SeedAssumption DEF CreateDemo, SeedInv
    <3>2. Demo[run[p].at] \in Names
      BY <3>1, SeedAssumption
    <3> QED
      BY <2>2, <3>2, CreateEffect DEF CreateDemo, SeedInv, SeedTypeOK, storeVars
  <2>3. Admin => db'.reports \subseteq db.reports
    BY CreateEffect DEF Admin, RemoveApp, DeleteApp, SeedInv, SeedTypeOK
  <2>4. db'.reports \subseteq db.reports
    BY <2>1, <2>2, <2>3 DEF storeVars
  <2> QED
    BY <2>4 DEF OnlySeeded, SeedInv
<1> QED
  BY <1>1, <1>2

\* A number that a filling process has not come to yet is not stored.
LEMMA NextReportIsNew ==
    ASSUME SeedInv, others = 0, NEW p \in Seeds, Fills(p), run[p].i \in 1..PerApp
    PROVE  ~Stored(db, SeedId[<<run[p].app.id, run[p].i>>]) /\ AppExists(db, run[p].app.id)
<1> DEFINE q == run[p]
<1>1. /\ q.app \in db.apps /\ HasOnly(db.reports, q.app, q.i - 1) /\ q.app \in AppRow
  BY RunShapes DEF SeedInv, AloneInv, FillingInv, Fills
<1>2. AppExists(db, q.app.id)
  BY <1>1 DEF AppExists
<1>3. ASSUME Stored(db, SeedId[<<q.app.id, q.i>>]) PROVE FALSE
  <2>1. q.i \in Numbers(db.reports, q.app, q.i)
    BY <1>1, <1>3, StoredIsNumber
  <2>2. PICK r \in Under(db.reports, q.app) : r.id = SeedId[<<q.app.id, q.i>>]
    BY <2>1 DEF Numbers
  <2>3. PICK j \in 1..(q.i - 1) : r.id = SeedId[<<q.app.id, j>>]
    BY <1>1, <2>2 DEF HasOnly
  <2>4. j \in 1..PerApp /\ j # q.i /\ q.app.id \in Rowids
    BY <1>1, <2>3, SeedAssumption DEF AppRow
  <2>5. SeedId[<<q.app.id, q.i>>] = SeedId[<<q.app.id, j>>]
    BY <2>2, <2>3
  <2>6. q.i \in 1..PerApp
    OBVIOUS
  <2> HIDE DEF q
  <2>7. q.i = j
    BY <2>4, <2>5, <2>6, SeedIdTells
  <2> QED
    BY <2>4, <2>7
<1> QED
  BY <1>2, <1>3

\* A step that stores nothing, and after which nobody fills what it did not.
LEMMA NobodyBegins ==
    ASSUME SeedInv, others = 0, UNCHANGED <<db, printed>>,
           \A s \in Seeds : Fills(s)' => Fills(s) /\ run'[s] = run[s]
    PROVE  (\A p \in Seeds : FillingInv(p)') /\ (\A e \in printed' : PrintedInv(e)')
<1>1. (\A p \in Seeds : FillingInv(p)) /\ \A e \in printed : PrintedInv(e)
  BY DEF SeedInv, AloneInv
<1>2. ASSUME NEW p \in Seeds PROVE FillingInv(p)'
  BY <1>1 DEF FillingInv, Fills
<1>3. ASSUME NEW e \in printed' PROVE PrintedInv(e)'
  BY <1>1 DEF PrintedInv, Fills
<1> QED
  BY <1>2, <1>3

LEMMA PrintCountKeeps ==
    ASSUME SeedInv, others = 0, NEW p \in Seeds, PrintCount(p)
    PROVE  (\A s \in Seeds : FillingInv(s)') /\ (\A e \in printed' : PrintedInv(e)')
<1> DEFINE new == [app |-> run[p].app, n |-> run[p].n]
<1>1. (\A s \in Seeds : FillingInv(s)) /\ \A e \in printed : PrintedInv(e)
  BY DEF SeedInv, AloneInv
<1>2. /\ \A s \in Seeds : Fills(s)' => Fills(s) /\ run'[s] = run[s] /\ s # p
      /\ UNCHANGED db /\ printed' = printed \cup {new}
  BY RunsStay DEF PrintCount, Fills, At, SeedInv
<1>3. ASSUME NEW s \in Seeds PROVE FillingInv(s)'
  BY <1>1, <1>2 DEF FillingInv, Fills
<1>4. ASSUME NEW e \in printed PROVE PrintedInv(e)'
  BY <1>1, <1>2 DEF PrintedInv, Fills
<1>5. ASSUME NEW e, e = new PROVE PrintedInv(e)'
  <2>1. Fills(p) /\ e.app = run[p].app /\ e.n = run[p].n
    BY <1>5 DEF PrintCount, Fills
  <2>2. /\ run[p].app \in db.apps /\ run[p].n = Cardinality(Under(db.reports, run[p].app))
        /\ \A s \in Seeds \ {p} : Fills(s) => run[s].app # run[p].app
    BY <1>1, <2>1 DEF FillingInv
  <2> QED
    BY <1>2, <2>1, <2>2 DEF PrintedInv, Fills
<1> QED
  BY <1>2, <1>3, <1>4, <1>5

LEMMA CreateDemoKeeps ==
    ASSUME SeedInv, others = 0, NEW p \in Seeds, NEW name \in Names, NEW key \in Keys,
           Create(name, key),
           \E app \in db'.apps \ db.apps : Go(p, Filling(run[p], app, 1, 0)),
           UNCHANGED printed
    PROVE  (\A s \in Seeds : FillingInv(s)') /\ (\A e \in printed' : PrintedInv(e)')
<1>1. (\A s \in Seeds : FillingInv(s)) /\ \A e \in printed : PrintedInv(e)
  BY DEF SeedInv, AloneInv
<1>2. PICK row \in AppRow :
         /\ db'.apps = db.apps \cup {row} /\ db'.reports = db.reports
         /\ \A a \in db.apps : a.id # row.id
  BY CreateEffect DEF SeedInv, SeedTypeOK
<1>3. Go(p, Filling(run[p], row, 1, 0))
  BY <1>2
<1>4. /\ run'[p].pc = "fill" /\ run'[p].app = row /\ run'[p].i = 1 /\ run'[p].n = 0
      /\ \A s \in Seeds \ {p} : run'[s] = run[s]
  BY <1>3, RunsStay DEF Filling, SeedInv
<1>5. row \notin db.apps
  BY <1>2
<1>6. Under(db'.reports, row) = {}
  <2>1. \A r \in db.reports : \E a \in db.apps : a.id = r.app
    BY DEF SeedInv, Integrity, ReportsHaveIssues, IssuesHaveApps, AppExists
  <2> QED
    BY <1>2, <2>1 DEF Under
<1>7. ASSUME NEW s \in Seeds PROVE FillingInv(s)'
  <2>1. CASE s = p
    <3>1. /\ run'[p].n = Cardinality(Under(db'.reports, run'[p].app))
          /\ HasOnly(db'.reports, run'[p].app, run'[p].i - 1)
      BY <1>4, <1>6, FS_EmptySet DEF HasOnly
    <3>2. \A u \in Seeds \ {p} : Fills(u)' => run'[u].app # run'[p].app
      BY <1>1, <1>4, <1>5 DEF FillingInv, Fills
    <3> QED
      BY <1>2, <1>4, <2>1, <3>1, <3>2 DEF FillingInv
  <2>2. CASE s # p
    BY <1>1, <1>2, <1>4, <1>5, <2>2 DEF FillingInv, Fills
  <2> QED
    BY <2>1, <2>2
<1>8. ASSUME NEW e \in printed' PROVE PrintedInv(e)'
  BY <1>1, <1>2, <1>4, <1>5 DEF PrintedInv, Fills
<1> QED
  BY <1>7, <1>8

LEMMA SeedReportKeeps ==
    ASSUME SeedInv, others = 0, NEW p \in Seeds, SeedReport(p)
    PROVE  (\A s \in Seeds : FillingInv(s)') /\ (\A e \in printed' : PrintedInv(e)')
<1> DEFINE q == run[p]
           rid == SeedId[<<q.app.id, q.i>>]
           failed == run'[p].n = q.n /\ UNCHANGED db
           wrote(row) == /\ run'[p].n = q.n + 1
                         /\ db'.reports = db.reports \cup {row} /\ db'.apps = db.apps
                         /\ row.id = rid /\ row.app = q.app.id /\ row \notin db.reports
<1>1. (\A s \in Seeds : FillingInv(s)) /\ \A e \in printed : PrintedInv(e)
  BY DEF SeedInv, AloneInv
<1>2. /\ Fills(p) /\ q.i \in 1..PerApp /\ q.app \in AppRow /\ q.app.id \in Rowids
      /\ q.app \in db.apps /\ q.n = Cardinality(Under(db.reports, q.app))
      /\ HasOnly(db.reports, q.app, q.i - 1)
  BY <1>1, RunShapes, SeedAssumption DEF SeedReport, Fills, SeedInv, FillingInv, AppRow
<1>3. ~Stored(db, rid) /\ AppExists(db, q.app.id)
  BY <1>2, NextReportIsNew
<1>4. /\ run'[p].pc = "fill" /\ run'[p].app = q.app /\ run'[p].i = q.i + 1
      /\ UNCHANGED printed
      /\ \A s \in Seeds \ {p} : run'[s] = run[s]
  BY RunsStay DEF SeedReport, Filling, SeedInv
<1>5. failed \/ \E row : wrote(row)
  <2>1. CASE /\ \E at \in Times : Ingest(rid, q.app.id, TraceOf[q.i], at)
             /\ Go(p, Filling(q, q.app, q.i + 1, q.n + 1))
    <3>1. rid \in Rids /\ TraceOf[q.i] \in Hashes
      BY <1>2, SeedAssumption
    <3>2. PICK row : /\ db'.reports = db.reports \cup {row} /\ db'.apps = db.apps
                     /\ row.id = rid /\ row.app = q.app.id
      BY <1>2, <2>1, <3>1, IngestEffect DEF SeedInv, SeedTypeOK
    <3>3. run'[p].n = q.n + 1
      BY <2>1, RunsStay DEF Filling, SeedInv
    <3>4. row \notin db.reports
      BY <1>3, <3>2 DEF Stored
    <3> QED
      BY <3>2, <3>3, <3>4
  <2>2. CASE Go(p, Filling(q, q.app, q.i + 1, q.n)) /\ UNCHANGED storeVars
    <3>1. run'[p].n = q.n
      BY <2>2, RunsStay DEF Filling, SeedInv
    <3> QED
      BY <2>2, <3>1 DEF storeVars
  <2> QED
    BY <1>3, <2>1, <2>2 DEF SeedReport
<1> HIDE DEF failed, wrote
<1>6. /\ db'.apps = db.apps
      /\ run'[p].n = Cardinality(Under(db'.reports, q.app))
      /\ HasOnly(db'.reports, q.app, q.i)
      /\ \A a \in db.apps \ {q.app} : Under(db'.reports, a) = Under(db.reports, a)
  <2>1. CASE failed
    <3>1. db' = db /\ run'[p].n = q.n
      BY <2>1 DEF failed
    <3>2. HasOnly(db.reports, q.app, q.i)
      BY <1>2 DEF HasOnly
    <3> QED
      BY <1>2, <3>1, <3>2
  <2>2. CASE \E row : wrote(row)
    <3>1. PICK row : wrote(row)
      BY <2>2
    <3>2. /\ run'[p].n = q.n + 1
          /\ db'.reports = db.reports \cup {row} /\ db'.apps = db.apps
          /\ row.id = rid /\ row.app = q.app.id /\ row \notin db.reports
      BY <3>1 DEF wrote
    <3>3. Under(db'.reports, q.app) = Under(db.reports, q.app) \cup {row}
      BY <3>2 DEF Under
    <3>4. IsFiniteSet(Under(db.reports, q.app)) /\ row \notin Under(db.reports, q.app)
      <4>1. Under(db.reports, q.app) \subseteq db.reports
        BY DEF Under
      <4> QED
        BY <3>2, <4>1, FS_Subset DEF SeedInv, SeedTypeOK
    <3>5. run'[p].n = Cardinality(Under(db'.reports, q.app))
      <4> HIDE DEF q
      <4>1. Cardinality(Under(db.reports, q.app) \cup {row})
               = Cardinality(Under(db.reports, q.app)) + 1
        BY <3>4, FS_AddElement
      <4> QED
        BY <1>2, <3>2, <3>3, <4>1
    <3>6. HasOnly(db'.reports, q.app, q.i)
      <4>1. q.i \in 1..q.i /\ \A j \in 1..(q.i - 1) : j \in 1..q.i
        BY <1>2
      <4>2. \A r \in Under(db.reports, q.app) :
               \E j \in 1..q.i : r.id = SeedId[<<q.app.id, j>>]
        BY <1>2, <4>1 DEF HasOnly
      <4>3. row.id = SeedId[<<q.app.id, q.i>>]
        BY <3>2
      <4> QED
        BY <3>3, <4>1, <4>2, <4>3 DEF HasOnly
    <3>7. \A a \in db.apps \ {q.app} : a.id # row.app
      BY <1>2, <3>2 DEF SeedInv, Integrity, UniqueIds, Unique
    <3>8. \A a \in db.apps \ {q.app} : Under(db'.reports, a) = Under(db.reports, a)
      BY <3>2, <3>7 DEF Under
    <3> QED
      BY <3>2, <3>5, <3>6, <3>8
  <2> QED
    BY <1>5, <2>1, <2>2
<1>7. \A u \in Seeds : Fills(u)' => Fills(u) /\ run'[u].app = run[u].app
  BY <1>2, <1>4 DEF Fills
<1>8. ASSUME NEW s \in Seeds PROVE FillingInv(s)'
  <2>1. CASE s = p
    <3>1. (q.i + 1) - 1 = q.i
      BY <1>2
    <3>2. /\ run'[p].app \in db'.apps
          /\ run'[p].n = Cardinality(Under(db'.reports, run'[p].app))
          /\ HasOnly(db'.reports, run'[p].app, run'[p].i - 1)
      BY <1>2, <1>4, <1>6, <3>1
    <3>3. \A u \in Seeds \ {p} : Fills(u)' => run'[u].app # run'[p].app
      BY <1>1, <1>2, <1>4, <1>7 DEF FillingInv
    <3> QED
      BY <2>1, <3>2, <3>3 DEF FillingInv
  <2>2. CASE s # p
    <3>1. Fills(s) => run[s].app \in db.apps \ {q.app}
      BY <1>1, <1>2, <2>2 DEF FillingInv
    <3>2. run'[s] = run[s]
      BY <1>4, <2>2
    <3> QED
      BY <1>1, <1>6, <1>7, <3>1, <3>2 DEF FillingInv, HasOnly, Fills
  <2> QED
    BY <2>1, <2>2
<1>9. ASSUME NEW e \in printed' PROVE PrintedInv(e)'
  <2>1. e \in printed /\ PrintedInv(e)
    BY <1>1, <1>4
  <2>2. e.app \in db.apps \ {q.app}
    BY <1>2, <2>1 DEF PrintedInv
  <2> QED
    BY <1>6, <1>7, <2>1, <2>2 DEF PrintedInv
<1> QED
  BY <1>8, <1>9

LEMMA SeedInvStep ==
    ASSUME SeedInv, [SeedNext]_seedVars
    PROVE  SeedInv'
<1>1. SeedTypeOK' /\ Integrity' /\ OnlySeeded' /\ CountsInv'
  BY SeedTypesKeep, SeededKeeps, CountsKeep DEF SeedInv
<1>2. SUFFICES ASSUME others' = 0
               PROVE  (\A s \in Seeds : FillingInv(s)') /\ (\A e \in printed' : PrintedInv(e)')
  BY <1>1 DEF SeedInv, AloneInv
<1>3. others = 0 /\ ~Admin
  <2>1. others \in Nat /\ (Admin => others' = others + 1)
    BY DEF SeedInv, SeedTypeOK, Admin
  <2>2. ~Admin
    BY <1>2, <2>1
  <2>3. UNCHANGED others
    BY <2>2 DEF SeedNext, Step, Die, seedVars, ListApps, Skip, CreateDemo, SeedReport,
                PrintCount, Finish
  <2> QED
    BY <1>2, <2>2, <2>3
<1>4. ASSUME NEW p \in Seeds, UNCHANGED <<db, printed>>,
             ListApps(p) \/ Skip(p) \/ Finish(p) \/ Die(p)
      PROVE  \A s \in Seeds : Fills(s)' => Fills(s) /\ run'[s] = run[s]
  <2>1. run'[p].pc # "fill" /\ \A s \in Seeds \ {p} : run'[s] = run[s]
    BY <1>4, RunsStay DEF ListApps, Skip, Finish, Die, Ready, At, SeedInv
  <2> QED
    BY <2>1 DEF Fills
<1>5. ASSUME NEW p \in Seeds, ListApps(p) \/ Skip(p) \/ Finish(p) \/ Die(p)
      PROVE  UNCHANGED <<db, printed>>
  BY <1>5 DEF ListApps, Skip, Finish, Die
<1>6. CASE \E p \in Seeds : ListApps(p) \/ Skip(p) \/ Finish(p) \/ Die(p)
  BY <1>3, <1>4, <1>5, <1>6, NobodyBegins
<1>7. ASSUME NEW p \in Seeds, CreateDemo(p)
      PROVE  (\A s \in Seeds : FillingInv(s)') /\ (\A e \in printed' : PrintedInv(e)')
  <2>1. Demo[run[p].at] \in Names
    <3>1. run[p].at \in 1..Len(Demo)
      BY <1>7, RunShapes, SeedAssumption DEF CreateDemo, SeedInv
    <3> QED
      BY <3>1, SeedAssumption
  <2>2. CASE \E key \in Keys :
                /\ Create(Demo[run[p].at], key)
                /\ \E app \in db'.apps \ db.apps : Go(p, Filling(run[p], app, 1, 0))
    BY <1>3, <1>7, <2>1, <2>2, CreateDemoKeeps DEF CreateDemo
  <2>3. CASE Go(p, Ready(run[p].runs)) /\ UNCHANGED storeVars
    <3>1. run'[p].pc # "fill" /\ \A s \in Seeds \ {p} : run'[s] = run[s]
      BY <2>3, RunsStay DEF Ready, SeedInv
    <3>2. UNCHANGED <<db, printed>>
      BY <1>7, <2>3 DEF CreateDemo, storeVars
    <3> QED
      BY <1>3, <3>1, <3>2, NobodyBegins DEF Fills
  <2> QED
    BY <1>7, <2>2, <2>3 DEF CreateDemo
<1>8. CASE UNCHANGED seedVars
  BY <1>3, <1>8, NobodyBegins DEF seedVars, Fills
<1> QED
  BY <1>3, <1>6, <1>7, <1>8, PrintCountKeeps, SeedReportKeeps DEF SeedNext, Step

LEMMA SeedInvInit ==
    ASSUME SeedInit
    PROVE  SeedInv
<1>1. StoreTypeOK /\ Integrity
  BY InitEstablishes DEF SeedInit
<1>2. SeedTypeOK
  BY <1>1, FS_EmptySet DEF SeedInit, SeedTypeOK, SeedRun, Ready, StoreInit, EmptyDb
<1>3. OnlySeeded /\ CountsInv /\ AloneInv
  BY DEF SeedInit, AloneInv, OnlySeeded, CountsInv, FillingInv, Fills, Ready, StoreInit, EmptyDb
<1> QED
  BY <1>1, <1>2, <1>3 DEF SeedInv

\* What the command prints is true, for good: of its own doing while it is alone,
\* and as a lower bound of what an app that is still there has, whatever apps
\* the admin creates and deletes meanwhile.
THEOREM PrintedCountsAreTrue == SeedSpec => []PrintedIsStored
<1>1. SeedInv => PrintedIsStored
  <2> SUFFICES ASSUME SeedInv, NEW e \in printed
               PROVE  /\ e.app \in db.apps => e.n <= Cardinality(ReportsOf(e.app))
                      /\ others = 0 =>
                            /\ e.app \in db.apps
                            /\ e.n = Cardinality(ReportsOf(e.app))
                            /\ \A r \in ReportsOf(e.app) :
                                  \E i \in 1..PerApp : r.id = SeedId[<<e.app.id, i>>]
    BY DEF PrintedIsStored
  <2>1. ReportsOf(e.app) = Under(db.reports, e.app)
    BY DEF ReportsOf, Under
  <2>2. Counted(db, issued, e.app, e.n, PerApp) /\ IsFiniteSet(db.reports) /\ PerApp \in Nat
    BY SeedAssumption DEF SeedInv, CountsInv, SeedTypeOK
  <2>3. ASSUME e.app \in db.apps PROVE e.n <= Cardinality(Under(db.reports, e.app))
    <3> DEFINE S == Numbers(db.reports, e.app, PerApp)
               T == Under(db.reports, e.app)
    <3>1. e.n <= Cardinality(S) /\ e.n \in Nat /\ e.app \in AppRow
      BY <2>2, <2>3 DEF Counted
    <3>2. /\ Cardinality(S) \in Nat /\ Cardinality(T) \in Nat
          /\ Cardinality(S) <= Cardinality(T)
      BY <2>2, <3>1, NumbersAreReports
    <3> HIDE DEF S, T
    <3>3. e.n <= Cardinality(T)
      BY <3>1, <3>2
    <3> QED
      BY <3>3 DEF T
  <2>4. others = 0 => /\ e.app \in db.apps
                      /\ e.n = Cardinality(Under(db.reports, e.app))
    BY DEF SeedInv, AloneInv, PrintedInv
  <2>5. \A r \in Under(db.reports, e.app) :
           \E i \in 1..PerApp : r.id = SeedId[<<e.app.id, i>>]
    BY DEF SeedInv, OnlySeeded, Under
  <2> QED
    BY <2>1, <2>3, <2>4, <2>5
<1>2. SeedInv /\ [SeedNext]_seedVars => SeedInv'
  BY SeedInvStep
<1> QED
  BY SeedInvInit, <1>1, <1>2, PTL DEF SeedSpec

\* A run adds reports to no app but the one that it has made itself.
THEOREM RunsKeepToTheirApps == SeedSpec => OwnAppsOnly
<1>1. ASSUME SeedInv, [SeedNext]_seedVars, NEW p \in Seeds,
             run[p].pc = "fill", run'[p] # run[p], others = 0,
             NEW r \in db'.reports \ db.reports
      PROVE  /\ run[p].app \in db.apps
             /\ r.app = run[p].app.id
             /\ \A s \in Seeds \ {p} : run[s].pc = "fill" => run[s].app # run[p].app
  <2>1. FillingInv(p) /\ Fills(p)
    BY <1>1 DEF SeedInv, AloneInv, Fills
  <2>2. SeedReport(p) \/ PrintCount(p) \/ Die(p)
    <3>1. PICK s \in Seeds : Step(s) \/ Die(s)
      BY <1>1 DEF SeedNext, Admin, seedVars
    <3>2. s = p
      BY <1>1, <3>1, RunsStay DEF Step, Die, ListApps, Skip, CreateDemo, SeedReport,
                                  PrintCount, Finish, SeedInv
    <3> QED
      BY <1>1, <3>1, <3>2 DEF Step, ListApps, Skip, CreateDemo, Finish
  <2>3. SeedReport(p)
    BY <1>1, <2>2 DEF PrintCount, Die
  <2>4. \E at \in Times :
           Ingest(SeedId[<<run[p].app.id, run[p].i>>], run[p].app.id, TraceOf[run[p].i], at)
    BY <1>1, <2>3 DEF SeedReport, storeVars
  <2>5. /\ run[p].app.id \in Rowids
        /\ SeedId[<<run[p].app.id, run[p].i>>] \in Rids
        /\ TraceOf[run[p].i] \in Hashes
    <3>1. run[p].app.id \in Rowids /\ run[p].i \in 1..PerApp
      BY <1>1, <2>1, <2>3, RunShapes, SeedAssumption DEF SeedReport, AppRow, SeedInv, Fills
    <3> QED
      BY <3>1, SeedAssumption
  <2>6. r.app = run[p].app.id
    BY <1>1, <2>4, <2>5, IngestEffect DEF SeedInv, SeedTypeOK
  <2> QED
    BY <2>1, <2>6 DEF FillingInv, Fills
<1>2. SeedInv /\ [SeedNext]_seedVars =>
        [\A p \in Seeds :
          run[p].pc = "fill" /\ run'[p] # run[p] /\ others = 0
             => \A r \in db'.reports \ db.reports :
                   /\ run[p].app \in db.apps
                   /\ r.app = run[p].app.id
                   /\ \A s \in Seeds \ {p} : run[s].pc = "fill" => run[s].app # run[p].app]_seedVars
  BY <1>1
<1>3. SeedInv /\ [SeedNext]_seedVars => SeedInv'
  BY SeedInvStep
<1> QED
  BY SeedInvInit, <1>2, <1>3, PTL DEF SeedSpec, OwnAppsOnly

-----------------------------------------------------------------------------
(* The admin's tabs *)

Stages == {"page", "overview", "rotated", "answer", "issue", "redirect", "report",
           "reportIssue", "found"}

SeenIssue == [id : Rowids, hash : Hashes]

TabState == [pc : Stages, app : AppRow \cup {None}, issue : SeenIssue \cup {None},
             rid : Rids \cup {None}, key : Keys \cup {None}]

AdminTypeOK ==
    /\ StoreTypeOK
    /\ IsFiniteSet(issued)
    /\ tab \in [Tabs -> TabState]
    /\ DOMAIN origin = Keys /\ origin = [k \in Keys |-> origin[k]]

\* The origin of a key is a key that was minted, at the latest with it.  An app
\* has an origin of its own, and its key is the newest of that origin.
OriginInv ==
    /\ \A k \in issued : origin[k] \in [first : issued, number : 1..Cardinality(issued)]
    /\ \A a, b \in db.apps : OriginOf(a) = OriginOf(b) => a = b
    /\ \A a \in db.apps, k \in issued :
          origin[k].first = OriginOf(a) => origin[k].number <= origin[a.key].number

\* The app of a page, if it is there, has still the id it had; so has the app
\* that a new key was made for.  A page with a new key is that app's, if the app
\* is there; and a key is only on its way to the page that shows it, or there.
TabInv(t) ==
    LET p == tab[t] IN
    /\ p.app # None =>
          /\ p.app.key \in issued
          /\ \A b \in db.apps : OriginOf(b) = OriginOf(p.app) => b.id = p.app.id
    /\ p.key # None =>
          /\ p.key \in issued
          /\ p.pc \in {"page", "overview", "rotated", "answer"} /\ p.issue = None /\ p.rid = None
    /\ p.pc = "rotated" =>
          /\ p.key # None
          /\ \A b \in db.apps : OriginOf(b) = origin[p.key].first => b.id = p.app.id
    /\ /\ p.pc \in {"page", "answer"} /\ p.key # None /\ p.app # None
       /\ Alive(origin[p.key].first)
       => OriginOf(p.app) = origin[p.key].first
    /\ p.pc = "answer" => p.issue = None

\* The issue of a page is there, with its trace, unless it has been deleted.
ShownIssueInv(t) ==
    tab[t].pc = "page" /\ tab[t].issue # None /\ t \notin old =>
        \E i \in db.issues : i.id = tab[t].issue.id /\ i.hash = tab[t].issue.hash

AdminInv ==
    /\ AdminTypeOK
    /\ Integrity
    /\ OriginInv
    /\ KeysAreKnown
    /\ \A t \in Tabs : TabInv(t) /\ ShownIssueInv(t)

\* The tab t gets the page p, and the others keep theirs.
LEMMA ShowEffect ==
    ASSUME AdminTypeOK, NEW t \in Tabs, NEW p \in TabState, Show(t, p)
    PROVE  /\ tab'[t] = p
           /\ \A u \in Tabs \ {t} : tab'[u] = tab[u]
           /\ tab' \in [Tabs -> TabState]
BY DEF Show, AdminTypeOK

LEMMA PagesTyped ==
    ASSUME NEW app \in AppRow \cup {None}, NEW issue \in SeenIssue \cup {None},
           NEW rid \in Rids \cup {None}, NEW key \in Keys \cup {None}, NEW pc \in Stages
    PROVE  /\ Page(app, issue, rid, key) \in TabState
           /\ [Page(app, issue, rid, key) EXCEPT !.pc = pc]
                 = [pc |-> pc, app |-> app, issue |-> issue, rid |-> rid, key |-> key]
           /\ [Page(app, issue, rid, key) EXCEPT !.pc = pc] \in TabState
<1>1. Page(app, issue, rid, key) \in TabState
  BY DEF Page, TabState, Stages
<1>2. [Page(app, issue, rid, key) EXCEPT !.pc = pc]
        = [pc |-> pc, app |-> app, issue |-> issue, rid |-> rid, key |-> key]
  BY DEF Page
<1>3. [pc |-> pc, app |-> app, issue |-> issue, rid |-> rid, key |-> key] \in TabState
  BY DEF TabState
<1> QED
  BY <1>1, <1>2, <1>3

\* A step of a tab, or of a phone, is a step of the store.
LEMMA AdminStepsAreStoreSteps ==
    ASSUME AdminTypeOK, [AdminNext]_adminVars
    PROVE  [StoreNext]_storeVars
<1>1. ASSUME NEW t \in Tabs, OnApp(t) PROVE tab[t].app.id \in Rowids
  BY <1>1 DEF AdminTypeOK, OnApp, TabState, AppRow
<1>2. /\ \A a \in db.apps : a.id \in Rowids
      /\ \A i \in db.issues : i.id \in Rowids /\ i.app \in Rowids
      /\ \A r \in db.reports : r.id \in Rids /\ r.app \in Rowids
  BY DEF AdminTypeOK, StoreTypeOK, AppRow, IssueRow, ReportRow
<1>3. ASSUME NEW t \in Tabs, Form(t) PROVE [StoreNext]_storeVars
  <2>1. ASSUME NEW name \in Names, NEW key \in Keys, submitCreateApp(t, name, key)
        PROVE  [StoreNext]_storeVars
    BY <2>1 DEF submitCreateApp, StoreNext, storeVars
  <2>2. ASSUME NEW key \in Keys, submitRotateKey(t, key) PROVE [StoreNext]_storeVars
    BY <1>2, <2>2 DEF submitRotateKey, RowOf, StoreNext, storeVars
  <2>3. CASE submitDeleteApp(t)
    BY <1>1, <2>3 DEF submitDeleteApp, StoreNext
  <2>4. ASSUME NEW status \in Statuses, submitIssueStatus(t, status)
        PROVE  [StoreNext]_storeVars
    <3>1. CASE MarkIssue(tab[t].app.id, tab[t].issue.id, status)
      BY <1>2, <3>1 DEF MarkIssue, IssueExists, StoreNext
    <3> QED
      BY <2>4, <3>1 DEF submitIssueStatus
  <2>5. CASE submitDeleteIssue(t)
    <3>1. CASE RemoveIssue(tab[t].app.id, tab[t].issue.id)
      BY <1>2, <3>1 DEF RemoveIssue, IssueExists, StoreNext
    <3> QED
      BY <2>5, <3>1 DEF submitDeleteIssue
  <2>6. CASE submitDeleteReport(t)
    BY <2>6 DEF submitDeleteReport, Reads, storeVars
  <2> QED
    BY <1>3, <2>1, <2>2, <2>3, <2>4, <2>5, <2>6 DEF Form
<1>4. ASSUME NEW t \in Tabs, Link(t) PROVE UNCHANGED storeVars
  <2>1. ASSUME NEW app, pageAppDetail(t, app) PROVE UNCHANGED storeVars
    BY <2>1 DEF pageAppDetail, Reads, storeVars
  <2>2. ASSUME NEW app, pageIssueDetail(t, app) PROVE UNCHANGED storeVars
    BY <2>2 DEF pageIssueDetail, Reads, storeVars
  <2>3. ASSUME NEW app, NEW rid, pageReportDetail(t, app, rid) PROVE UNCHANGED storeVars
    BY <2>3 DEF pageReportDetail, Reads, storeVars
  <2> QED
    BY <1>4, <2>1, <2>2, <2>3 DEF Link
<1>5. ASSUME NEW t \in Tabs, Rest(t) PROVE [StoreNext]_storeVars
  <2>1. CASE RemoveReport(tab[t].app.id, tab[t].rid)
    BY <1>2, <2>1 DEF RemoveReport, ReportExists, StoreNext
  <2> QED
    BY <1>5, <2>1 DEF Rest, AppOverview, renderAppDetail, Answer, Lose, CutOff, GetIssue,
                      Redirected, GetReport, GetIssueOfReport, DeleteFound, Reads, storeVars
<1>6. CASE PhoneSends
  BY <1>6 DEF PhoneSends, StoreNext
<1>7. CASE Restart
  BY <1>7 DEF Restart, CutOff, Reads, storeVars
<1> QED
  BY <1>3, <1>4, <1>5, <1>6, <1>7 DEF AdminNext, adminVars, storeVars

\* What all steps of a tab but those about new keys have in common.
Quiet(t, p) ==
    /\ Show(t, p)
    /\ tab[t].pc \notin {"overview", "rotated", "answer"}
    /\ UNCHANGED <<issued, origin, known, lost>>
    /\ db'.apps \subseteq db.apps
    /\ p.key = None /\ p.pc \notin {"rotated", "answer"}
    /\ p.app \in {None, tab[t].app} \/ (p.app \in db.apps /\ UNCHANGED db)
    /\ p.pc = "page" /\ p.issue # None =>
          /\ UNCHANGED db
          /\ \E i \in db.issues : i.id = p.issue.id /\ i.hash = p.issue.hash

LEMMA PlainIsQuiet ==
    ASSUME NEW t \in Tabs, Show(t, PlainPage), tab[t].pc \notin {"overview", "rotated", "answer"},
           UNCHANGED <<issued, origin, known, lost>>, db'.apps \subseteq db.apps
    PROVE  \E p \in TabState : Quiet(t, p)
<1>1. PlainPage \in TabState
  BY DEF PlainPage, Page, TabState, Stages
<1>2. Quiet(t, PlainPage)
  BY DEF Quiet, PlainPage, Page
<1> QED
  BY <1>1, <1>2

\* The page of a row that has just been read, at some stage.
LEMMA AppPageIsQuiet ==
    ASSUME AdminTypeOK, NEW t \in Tabs, tab[t].pc \notin {"overview", "rotated", "answer"}, Reads,
           UNCHANGED <<known, lost>>, NEW a \in db.apps, NEW rid \in Rids \cup {None},
           NEW pc \in Stages \ {"rotated", "answer"},
           Show(t, [Page(a, None, rid, None) EXCEPT !.pc = pc])
    PROVE  \E p \in TabState : Quiet(t, p)
<1> DEFINE p == [pc |-> pc, app |-> a, issue |-> None, rid |-> rid, key |-> None]
<1>1. a \in AppRow
  BY DEF AdminTypeOK, StoreTypeOK
<1>2. p \in TabState /\ Show(t, p)
  BY <1>1, PagesTyped
<1>3. p.pc = pc /\ p.app = a /\ p.issue = None /\ p.key = None
  OBVIOUS
<1> HIDE DEF p
<1>4. Quiet(t, p)
  BY <1>2, <1>3 DEF Quiet, Reads
<1> QED
  BY <1>2, <1>4

\* The tab goes on to another stage without a new key.
LEMMA SameAppIsQuiet ==
    ASSUME AdminTypeOK, NEW t \in Tabs, tab[t].pc \notin {"overview", "rotated", "answer"},
           UNCHANGED <<issued, origin, known, lost>>, db'.apps \subseteq db.apps,
           NEW p \in TabState, Show(t, p), p.key = None,
           p.pc \notin {"rotated", "answer"}, p.app = tab[t].app,
           p.pc = "page" /\ p.issue # None =>
              /\ UNCHANGED db
              /\ \E i \in db.issues : i.id = p.issue.id /\ i.hash = p.issue.hash
    PROVE  \E q \in TabState : Quiet(t, q)
<1>1. Quiet(t, p)
  BY DEF Quiet
<1> QED
  BY <1>1

LEMMA LinksAreQuiet ==
    ASSUME AdminTypeOK, NEW t \in Tabs, Link(t)
    PROVE  \E p \in TabState : Quiet(t, p)
<1>1. PICK app \in Rowids : \/ pageAppDetail(t, app)
                            \/ pageIssueDetail(t, app)
                            \/ \E rid \in Rids : pageReportDetail(t, app, rid)
  BY DEF Link
<1>2. tab[t].pc = "page" /\ Reads /\ UNCHANGED <<known, lost>>
  BY <1>1 DEF pageAppDetail, pageIssueDetail, pageReportDetail, Request
<1>3. CASE Show(t, PlainPage)
  BY <1>2, <1>3, PlainIsQuiet DEF Reads
<1>4. CASE \E a \in RowOf(app) : Show(t, Page(a, None, None, None))
  <2>1. PICK a \in db.apps : Show(t, Page(a, None, None, None))
    BY <1>4 DEF RowOf
  <2>2. Page(a, None, None, None) = [Page(a, None, None, None) EXCEPT !.pc = "page"]
    BY DEF Page
  <2>3. Show(t, [Page(a, None, None, None) EXCEPT !.pc = "page"])
    BY <2>1, <2>2
  <2>4. "page" \in Stages \ {"rotated", "answer"} /\ None \in Rids \cup {None}
    BY DEF Stages
  <2> QED
    BY <1>2, <2>3, <2>4, AppPageIsQuiet
<1>5. CASE \E a \in RowOf(app) : Show(t, [Page(a, None, None, None) EXCEPT !.pc = "issue"])
  BY <1>2, <1>5, AppPageIsQuiet DEF Stages, RowOf
<1>6. CASE \E rid \in Rids, a \in RowOf(app) :
              Show(t, [Page(a, None, rid, None) EXCEPT !.pc = "report"])
  BY <1>2, <1>6, AppPageIsQuiet DEF Stages, RowOf
<1> QED
  BY <1>1, <1>3, <1>4, <1>5, <1>6 DEF pageAppDetail, pageIssueDetail, pageReportDetail

\* What deletions and changes of status leave of the apps.
LEMMA AppsAfter ==
    ASSUME StoreTypeOK, NEW app, NEW issue, NEW status, NEW rid
    PROVE  /\ RemoveApp(app) => db'.apps = {a \in db.apps : a.id # app}
           /\ MarkIssue(app, issue, status) => db'.apps = db.apps
           /\ RemoveIssue(app, issue) => db'.apps = db.apps
           /\ RemoveReport(app, rid) => db'.apps = db.apps
<1>1. RemoveApp(app) => db'.apps = {a \in db.apps : a.id # app}
  BY DEF RemoveApp, DeleteApp
<1>2. MarkIssue(app, issue, status) => db'.apps = db.apps
  BY DEF StoreTypeOK, MarkIssue, SetIssueStatus
<1>3. RemoveIssue(app, issue) => db'.apps = db.apps
  BY DEF StoreTypeOK, RemoveIssue, DeleteIssue
<1>4. RemoveReport(app, rid) => db'.apps = db.apps
  BY DEF StoreTypeOK, RemoveReport, DeleteReport
<1> QED
  BY <1>1, <1>2, <1>3, <1>4

LEMMA FormsAreQuiet ==
    ASSUME AdminTypeOK, NEW t \in Tabs, TabInv(t),
           \/ submitDeleteApp(t)
           \/ \E status \in Statuses : submitIssueStatus(t, status)
           \/ submitDeleteIssue(t)
           \/ submitDeleteReport(t)
    PROVE  \E p \in TabState : Quiet(t, p)
<1>1. tab[t].pc = "page" /\ StoreTypeOK /\ tab[t] \in TabState
      /\ UNCHANGED <<issued, origin, known, lost>>
  BY DEF submitDeleteApp, submitIssueStatus, submitDeleteIssue, submitDeleteReport, Request,
         AdminTypeOK, RemoveApp, MarkIssue, RemoveIssue, Reads, storeVars
<1>2. CASE submitDeleteApp(t)
  <2> DEFINE p == [pc |-> "overview", app |-> None, issue |-> None, rid |-> None, key |-> None]
  <2>1. p \in TabState /\ p.app = None /\ p.key = None /\ p.pc = "overview"
    BY DEF TabState, Stages
  <2>2. Show(t, p)
    BY <1>2 DEF submitDeleteApp, AppsPage, Page
  <2>3. db'.apps \subseteq db.apps
    BY <1>1, <1>2, AppsAfter DEF submitDeleteApp
  <2> HIDE DEF p
  <2>4. Quiet(t, p)
    BY <1>1, <2>1, <2>2, <2>3 DEF Quiet
  <2> QED
    BY <2>1, <2>4
<1>3. ASSUME NEW status \in Statuses, submitIssueStatus(t, status)
      PROVE  \E p \in TabState : Quiet(t, p)
  <2>1. db'.apps \subseteq db.apps
    BY <1>1, <1>3, AppsAfter DEF submitIssueStatus, storeVars
  <2>2. CASE Goto(t, "redirect")
    <3> DEFINE p == [tab[t] EXCEPT !.pc = "redirect"]
    <3>1. tab[t].key = None
      BY <1>3 DEF submitIssueStatus, OnIssue, TabInv
    <3>2. /\ p \in TabState /\ p.pc = "redirect" /\ p.key = None /\ p.app = tab[t].app
      BY <1>1, <3>1 DEF TabState, Stages
    <3>3. Show(t, p)
      BY <2>2 DEF Goto
    <3> HIDE DEF p
    <3> QED
      BY <1>1, <2>1, <3>2, <3>3, SameAppIsQuiet
  <2> QED
    BY <1>1, <1>3, <2>1, <2>2, PlainIsQuiet DEF submitIssueStatus
<1>4. CASE submitDeleteIssue(t)
  <2>1. db'.apps \subseteq db.apps
    BY <1>1, <1>4, AppsAfter DEF submitDeleteIssue, storeVars
  <2> QED
    BY <1>1, <1>4, <2>1, PlainIsQuiet DEF submitDeleteIssue
<1>5. CASE submitDeleteReport(t)
  <2>1. CASE Show(t, PlainPage)
    BY <1>1, <1>5, <2>1, PlainIsQuiet DEF submitDeleteReport, Reads
  <2>2. ASSUME NEW r \in ReportRowOf(tab[t].app.id, tab[t].rid),
               Show(t, [Page(tab[t].app, ReportOf(r), r.id, None) EXCEPT !.pc = "found"])
        PROVE  \E p \in TabState : Quiet(t, p)
    <3> DEFINE p == [pc |-> "found", app |-> tab[t].app, issue |-> ReportOf(r),
                     rid |-> r.id, key |-> None]
    <3>1. r \in ReportRow
      BY <1>1, <2>2 DEF ReportRowOf, StoreTypeOK
    <3>2. ReportOf(r) \in SeenIssue /\ r.id \in Rids /\ tab[t].app \in AppRow \cup {None}
      BY <1>1, <3>1 DEF ReportOf, SeenIssue, ReportRow, TabState
    <3>3. p \in TabState
      BY <3>2 DEF TabState, Stages
    <3>4. Show(t, p)
      BY <2>2 DEF Page
    <3>5. p.pc = "found" /\ p.key = None /\ p.app = tab[t].app
      OBVIOUS
    <3> HIDE DEF p
    <3> QED
      BY <1>1, <1>5, <3>3, <3>4, <3>5, SameAppIsQuiet DEF submitDeleteReport, Reads
  <2> QED
    BY <1>5, <2>1, <2>2 DEF submitDeleteReport
<1> QED
  BY <1>2, <1>3, <1>4, <1>5

LEMMA ReadsAreQuiet ==
    ASSUME AdminTypeOK, NEW t \in Tabs, TabInv(t),
           \/ \E issue \in Rowids : GetIssue(t, issue)
           \/ Redirected(t) \/ GetReport(t) \/ GetIssueOfReport(t) \/ DeleteFound(t)
    PROVE  \E p \in TabState : Quiet(t, p)
<1>1. /\ tab[t].pc \notin {"page", "overview", "rotated", "answer"}
      /\ StoreTypeOK /\ tab[t] \in TabState
      /\ UNCHANGED <<issued, origin, known, lost>>
  BY DEF GetIssue, Redirected, GetReport, GetIssueOfReport, DeleteFound, AdminTypeOK,
         RemoveReport, Reads, storeVars
<1>2. tab[t].key = None
  BY <1>1 DEF TabInv
<1>3. ASSUME Show(t, PlainPage), Reads PROVE \E p \in TabState : Quiet(t, p)
  BY <1>1, <1>3, PlainIsQuiet DEF Reads
<1>4. \A i \in db.issues : Seen(i) \in SeenIssue
  BY <1>1 DEF Seen, SeenIssue, StoreTypeOK, IssueRow
<1>5. ASSUME NEW issue \in Rowids, GetIssue(t, issue) PROVE \E p \in TabState : Quiet(t, p)
  <2>1. ASSUME NEW i \in IssueRowOf(tab[t].app.id, issue),
               Show(t, Page(tab[t].app, Seen(i), None, None))
        PROVE  \E p \in TabState : Quiet(t, p)
    <3> DEFINE p == Page(tab[t].app, Seen(i), None, None)
    <3>1. i \in db.issues
      BY <2>1 DEF IssueRowOf
    <3>2. /\ p.pc = "page" /\ p.key = None /\ p.app = tab[t].app
          /\ p.issue.id = i.id /\ p.issue.hash = i.hash
      BY DEF Page, Seen
    <3>3. p \in TabState
      BY <1>1, <1>4, <3>1 DEF Page, TabState, Stages
    <3>4. Show(t, p)
      BY <2>1, Zenon
    <3> HIDE DEF p
    <3> QED
      BY <1>1, <1>5, <3>1, <3>2, <3>3, <3>4, SameAppIsQuiet DEF GetIssue, Reads
  <2> QED
    BY <1>3, <1>5, <2>1 DEF GetIssue
<1>6. ASSUME Redirected(t) PROVE \E p \in TabState : Quiet(t, p)
  <2>1. ASSUME NEW a \in RowOf(tab[t].app.id),
               Show(t, [tab[t] EXCEPT !.pc = "issue", !.app = a])
        PROVE  \E p \in TabState : Quiet(t, p)
    <3> DEFINE p == [tab[t] EXCEPT !.pc = "issue", !.app = a]
    <3>1. a \in db.apps /\ a \in AppRow
      BY <1>1, <2>1 DEF RowOf, StoreTypeOK
    <3>2. p \in TabState /\ p.pc = "issue" /\ p.key = None /\ p.app = a
      BY <1>1, <1>2, <3>1 DEF TabState, Stages
    <3>3. Show(t, p) /\ UNCHANGED db
      BY <1>6, <2>1 DEF Redirected, Reads
    <3> HIDE DEF p
    <3>4. Quiet(t, p)
      BY <1>1, <3>1, <3>2, <3>3 DEF Quiet
    <3> QED
      BY <3>2, <3>4
  <2> QED
    BY <1>3, <1>6, <2>1 DEF Redirected
<1>7. ASSUME GetReport(t) PROVE \E p \in TabState : Quiet(t, p)
  <2>1. ASSUME NEW r \in ReportRowOf(tab[t].app.id, tab[t].rid),
               Show(t, [Page(tab[t].app, ReportOf(r), r.id, None) EXCEPT !.pc = "reportIssue"])
        PROVE  \E p \in TabState : Quiet(t, p)
    <3> DEFINE p == [pc |-> "reportIssue", app |-> tab[t].app, issue |-> ReportOf(r),
                     rid |-> r.id, key |-> None]
    <3>1. r \in ReportRow
      BY <1>1, <2>1 DEF ReportRowOf, StoreTypeOK
    <3>2. ReportOf(r) \in SeenIssue /\ r.id \in Rids /\ tab[t].app \in AppRow \cup {None}
      BY <1>1, <3>1 DEF ReportOf, SeenIssue, ReportRow, TabState
    <3>3. p \in TabState
      BY <3>2 DEF TabState, Stages
    <3>4. Show(t, p)
      BY <2>1 DEF Page
    <3>5. p.pc = "reportIssue" /\ p.key = None /\ p.app = tab[t].app
      BY Zenon
    <3> HIDE DEF p
    <3> QED
      BY <1>1, <1>7, <3>3, <3>4, <3>5, SameAppIsQuiet DEF GetReport, Reads
  <2> QED
    BY <1>3, <1>7, <2>1 DEF GetReport
<1>8. ASSUME GetIssueOfReport(t) PROVE \E p \in TabState : Quiet(t, p)
  <2>1. ASSUME NEW i \in IssueRowOf(tab[t].app.id, tab[t].issue.id),
               Show(t, [tab[t] EXCEPT !.pc = "page", !.issue = Seen(i)])
        PROVE  \E p \in TabState : Quiet(t, p)
    <3> DEFINE p == [tab[t] EXCEPT !.pc = "page", !.issue = Seen(i)]
    <3>1. i \in db.issues
      BY <2>1 DEF IssueRowOf
    <3>2. /\ p.pc = "page" /\ p.key = None /\ p.app = tab[t].app /\ p.issue = Seen(i)
          /\ Seen(i).id = i.id /\ Seen(i).hash = i.hash
      BY <1>1, <1>2 DEF TabState, Seen
    <3>3. p \in TabState
      <4>1. Seen(i) \in SeenIssue \cup {None} /\ "page" \in Stages
        BY <1>4, <3>1 DEF Stages
      <4> QED
        BY <1>1, <4>1 DEF TabState
    <3>4. Show(t, p)
      BY <2>1
    <3> HIDE DEF p
    <3> QED
      BY <1>1, <1>8, <3>1, <3>2, <3>3, <3>4, SameAppIsQuiet DEF GetIssueOfReport, Reads
  <2>2. /\ Reads
        /\ \/ Show(t, PlainPage)
           \/ \E i \in IssueRowOf(tab[t].app.id, tab[t].issue.id) :
                 Show(t, [tab[t] EXCEPT !.pc = "page", !.issue = Seen(i)])
    BY <1>8, Zenon DEF GetIssueOfReport
  <2> QED
    BY <1>3, <2>1, <2>2, Zenon
<1>9. ASSUME DeleteFound(t) PROVE \E p \in TabState : Quiet(t, p)
  <2>1. db'.apps \subseteq db.apps
    BY <1>1, <1>9, AppsAfter DEF DeleteFound, storeVars
  <2>2. CASE Show(t, [tab[t] EXCEPT !.pc = "redirect", !.rid = None])
    <3> DEFINE p == [tab[t] EXCEPT !.pc = "redirect", !.rid = None]
    <3>1. p \in TabState /\ p.pc = "redirect" /\ p.key = None /\ p.app = tab[t].app
      BY <1>1, <1>2 DEF TabState, Stages
    <3>2. Show(t, p)
      BY <2>2
    <3> HIDE DEF p
    <3> QED
      BY <1>1, <2>1, <3>1, <3>2, SameAppIsQuiet
  <2> QED
    BY <1>1, <1>9, <2>1, <2>2, PlainIsQuiet DEF DeleteFound
<1> QED
  BY <1>5, <1>6, <1>7, <1>8, <1>9, Zenon

\* What a step may do to the keys and to what they are of: the old ones stay what
\* they are, and an app of an origin that is not new is one that was there, with
\* the same id; so is one with an old key.
Steady ==
    /\ issued \subseteq issued'
    /\ \A k \in issued : origin'[k] = origin[k]
    /\ \A b \in db'.apps : b.key \in issued'
    /\ \A b \in db'.apps : origin'[b.key].first \in issued =>
          \E c \in db.apps : c.id = b.id /\ OriginOf(c) = origin'[b.key].first
    /\ \A b \in db'.apps : b.key \in issued => \E c \in db.apps : c.key = b.key /\ c.id = b.id

\* A change of a key takes the app's row out, and puts one of the same id in.
LEMMA RotateEffect ==
    ASSUME StoreTypeOK, NEW app, NEW key, Rotate(app, key)
    PROVE  /\ \A b \in db'.apps :
                 \/ b \in db.apps /\ b.id # app
                 \/ b.id = app /\ b.key = key
           /\ \A b \in db.apps : b.id # app => b \in db'.apps
           /\ \A b \in db.apps : b.id = app => \E c \in db'.apps : c.id = app /\ c.key = key
           /\ db'.issues = db.issues /\ db'.reports = db.reports
           /\ issued' = issued \cup {key} /\ key \notin issued
<1> DEFINE Rekeyed(a) == IF a.id = app THEN [a EXCEPT !.key = key] ELSE a
<1>1. db'.apps = {Rekeyed(a) : a \in db.apps}
      /\ db'.issues = db.issues /\ db'.reports = db.reports
  BY DEF Rotate, RotateAppKey, StoreTypeOK
<1>2. \A a \in db.apps : IF a.id = app THEN Rekeyed(a).id = app /\ Rekeyed(a).key = key
                                       ELSE Rekeyed(a) = a
  BY DEF StoreTypeOK, AppRow
<1>3. issued' = issued \cup {key} /\ key \notin issued
  BY DEF Rotate
<1> HIDE DEF Rekeyed
<1> QED
  BY <1>1, <1>2, <1>3

\* A new key: the count of keys goes up, and its origin is set.
LEMMA MintEffect ==
    ASSUME AdminTypeOK, OriginInv, NEW key \in Keys, key \notin issued,
           issued' = issued \cup {key}, NEW first,
           origin' = [origin EXCEPT ![key] = Minted(first)]
    PROVE  /\ Cardinality(issued) \in Nat
           /\ Cardinality(issued') = Cardinality(issued) + 1
           /\ IsFiniteSet(issued')
           /\ origin'[key].first = first /\ origin'[key].number = Cardinality(issued')
           /\ first \in issued' => origin'[key] \in [first : issued', number : 1..Cardinality(issued')]
           /\ \A k \in issued : origin'[k] = origin[k]
           /\ \A k \in issued : origin[k] \in [first : issued', number : 1..Cardinality(issued')]
           /\ DOMAIN origin' = Keys /\ origin' = [k \in Keys |-> origin'[k]]
<1>1. IsFiniteSet(issued) /\ Cardinality(issued) \in Nat
  BY FS_CardinalityType DEF AdminTypeOK
<1>2. Cardinality(issued') = Cardinality(issued) + 1 /\ IsFiniteSet(issued')
  BY <1>1, FS_AddElement
<1> DEFINE n == Cardinality(issued')
<1>3. n \in 1..n /\ 1..Cardinality(issued) \subseteq 1..n
  <2>1. \A m \in Nat : m + 1 \in 1..(m + 1) /\ 1..m \subseteq 1..(m + 1)
    OBVIOUS
  <2> QED
    BY <1>1, <1>2, <2>1
<1>4. key \in DOMAIN origin /\ Minted(first) = [first |-> first, number |-> n]
  BY DEF AdminTypeOK, Minted
<1> HIDE DEF n
<1>5. origin'[key] = [first |-> first, number |-> n] /\ \A k \in issued : origin'[k] = origin[k]
  BY <1>4
<1>6. \A k \in issued : origin[k] \in [first : issued', number : 1..n]
  BY <1>3 DEF OriginInv
<1>7. DOMAIN origin' = Keys /\ origin' = [k \in Keys |-> origin'[k]]
  BY DEF AdminTypeOK
<1>8. /\ origin'[key].first = first /\ origin'[key].number = n
      /\ first \in issued' => origin'[key] \in [first : issued', number : 1..n]
  BY <1>3, <1>5
<1> QED
  BY <1>1, <1>2, <1>5, <1>6, <1>7, <1>8 DEF n

LEMMA CreateOrigins ==
    ASSUME AdminInv, Integrity', NEW name \in Names, NEW key \in Keys, Create(name, key),
           origin' = [origin EXCEPT ![key] = Minted(key)]
    PROVE  OriginInv' /\ Steady
<1>1. /\ AdminTypeOK /\ OriginInv /\ StoreTypeOK /\ UniqueKeys
      /\ key \notin issued /\ issued' = issued \cup {key}
  BY DEF AdminInv, AdminTypeOK, Create, Integrity
<1>2. /\ Cardinality(issued) \in Nat /\ Cardinality(issued') = Cardinality(issued) + 1
      /\ origin'[key].first = key /\ origin'[key].number = Cardinality(issued')
      /\ origin'[key] \in [first : issued', number : 1..Cardinality(issued')]
      /\ \A k \in issued : origin'[k] = origin[k]
      /\ \A k \in issued : origin[k] \in [first : issued', number : 1..Cardinality(issued')]
  BY <1>1, MintEffect
<1>3. PICK row \in AppRow : db'.apps = db.apps \cup {row} /\ row.key = key
  BY <1>1, CreateEffect
<1>4. \A a \in db.apps : /\ a.key \in issued /\ a.key # key /\ OriginOf(a)' = OriginOf(a)
                         /\ OriginOf(a) \in issued
  BY <1>1, <1>2 DEF UniqueKeys, OriginInv, OriginOf
<1>5. OriginOf(row)' = key
  BY <1>2, <1>3 DEF OriginOf
<1>6. \A k \in issued' : origin'[k] \in [first : issued', number : 1..Cardinality(issued')]
  BY <1>1, <1>2
<1>7. \A a, b \in db'.apps : OriginOf(a)' = OriginOf(b)' => a = b
  BY <1>1, <1>3, <1>4, <1>5 DEF OriginInv
<1>8. ASSUME NEW a \in db'.apps, NEW k \in issued', origin'[k].first = OriginOf(a)'
      PROVE  origin'[k].number <= origin'[a.key].number
  <2>1. CASE a \in db.apps
    <3>1. k # key
      BY <1>1, <1>2, <1>4, <1>8, <2>1
    <3>2. k \in issued /\ origin[k].first = OriginOf(a)
      BY <1>1, <1>2, <1>4, <1>8, <2>1, <3>1
    <3> QED
      BY <1>1, <1>2, <1>4, <2>1, <3>2 DEF OriginInv
  <2>2. CASE a = row
    <3>1. k \notin issued
      BY <1>1, <1>2, <1>5, <1>8, <2>2 DEF OriginInv
    <3>2. a.key = key /\ k = key
      BY <1>1, <1>3, <2>2, <3>1
    <3> QED
      BY <1>2, <3>2
  <2> QED
    BY <1>3, <2>1, <2>2
<1>9. Steady
  <2>1. \A b \in db'.apps : b.key \in issued'
    BY DEF Integrity, UniqueKeys
  <2>2. \A b \in db'.apps : origin'[b.key].first \in issued \/ b.key \in issued => b \in db.apps
    BY <1>1, <1>2, <1>3
  <2> QED
    BY <1>1, <1>2, <1>4, <2>1, <2>2 DEF Steady, OriginOf
<1> QED
  BY <1>6, <1>7, <1>8, <1>9 DEF OriginInv

LEMMA RotateOrigins ==
    ASSUME AdminInv, Integrity', NEW app \in db.apps, NEW key \in Keys, Rotate(app.id, key),
           origin' = [origin EXCEPT ![key] = Minted(OriginOf(app))]
    PROVE  /\ OriginInv' /\ Steady
           /\ origin'[key].first = OriginOf(app) /\ OriginOf(app) \in issued
<1>1. /\ AdminTypeOK /\ OriginInv /\ StoreTypeOK /\ UniqueKeys /\ UniqueIds
  BY DEF AdminInv, AdminTypeOK, Integrity
<1>2. /\ key \notin issued /\ issued' = issued \cup {key}
      /\ \A b \in db'.apps : b \in db.apps \/ (b.id = app.id /\ b.key = key)
      /\ \A b \in db'.apps : b \in db.apps => b # app
  <2>1. app.key # key
    BY <1>1, RotateEffect DEF UniqueKeys
  <2> QED
    BY <1>1, <2>1, RotateEffect
<1>3. \A a \in db.apps : a.key \in issued /\ OriginOf(a) \in issued
  BY <1>1 DEF UniqueKeys, OriginInv, OriginOf
<1>4. /\ Cardinality(issued) \in Nat /\ Cardinality(issued') = Cardinality(issued) + 1
      /\ origin'[key].first = OriginOf(app) /\ origin'[key].number = Cardinality(issued')
      /\ origin'[key] \in [first : issued', number : 1..Cardinality(issued')]
      /\ \A k \in issued : origin'[k] = origin[k]
      /\ \A k \in issued : origin[k] \in [first : issued', number : 1..Cardinality(issued')]
  BY <1>1, <1>2, <1>3, MintEffect
<1>5. \A a \in db.apps : a.key # key /\ OriginOf(a)' = OriginOf(a)
  BY <1>2, <1>3, <1>4 DEF OriginOf
<1>6. \A b \in db'.apps : b.key = key => OriginOf(b)' = OriginOf(app)
  BY <1>4 DEF OriginOf
<1>7. \A k \in issued' : origin'[k] \in [first : issued', number : 1..Cardinality(issued')]
  BY <1>2, <1>4
<1>8. \A a, b \in db'.apps : OriginOf(a)' = OriginOf(b)' => a = b
  <2>1. \A a, b \in db'.apps : a.id = b.id => a = b
    BY DEF Integrity, UniqueIds, Unique
  <2> QED
    BY <1>1, <1>2, <1>5, <1>6, <2>1 DEF OriginInv
<1>9. ASSUME NEW a \in db'.apps, NEW k \in issued', origin'[k].first = OriginOf(a)'
      PROVE  origin'[k].number <= origin'[a.key].number
  <2>1. CASE a \in db.apps
    <3>1. OriginOf(a)' # OriginOf(app)
      BY <1>1, <1>2, <1>5, <2>1 DEF OriginInv
    <3>2. k \in issued /\ origin[k].first = OriginOf(a)
      BY <1>2, <1>4, <1>5, <1>9, <2>1, <3>1
    <3> QED
      BY <1>1, <1>3, <1>4, <2>1, <3>2 DEF OriginInv
  <2>2. CASE a.key = key
    BY <1>4, <1>7, <2>2
  <2> QED
    BY <1>2, <2>1, <2>2
<1>10. Steady
  <2>1. \A b \in db'.apps : b.key \in issued'
    BY DEF Integrity, UniqueKeys
  <2>2. \A b \in db'.apps : \E c \in db.apps : c.id = b.id /\ OriginOf(c) = origin'[b.key].first
    BY <1>2, <1>3, <1>4 DEF OriginOf
  <2> QED
    BY <1>2, <1>4, <2>1, <2>2 DEF Steady
<1> QED
  BY <1>3, <1>4, <1>7, <1>8, <1>9, <1>10 DEF OriginInv

LEMMA ShrinkOrigins ==
    ASSUME AdminInv, UNCHANGED <<issued, origin>>, db'.apps \subseteq db.apps
    PROVE  OriginInv' /\ Steady
<1>1. OriginInv /\ UniqueKeys
  BY DEF AdminInv, Integrity
<1>2. OriginInv'
  BY <1>1 DEF OriginInv, OriginOf
<1>3. Steady
  BY <1>1 DEF Steady, UniqueKeys, OriginOf
<1> QED
  BY <1>2, <1>3

\* The app of a page keeps its id, if it stays.
LEMMA PageAppStays ==
    ASSUME AdminInv, Steady, NEW t \in Tabs, tab[t].app # None
    PROVE  /\ tab[t].app.key \in issued'
           /\ origin'[tab[t].app.key] = origin[tab[t].app.key]
           /\ \A b \in db'.apps :
                 origin'[b.key].first = origin[tab[t].app.key].first => b.id = tab[t].app.id
<1>1. /\ tab[t].app.key \in issued
      /\ \A b \in db.apps : OriginOf(b) = OriginOf(tab[t].app) => b.id = tab[t].app.id
  BY DEF AdminInv, TabInv
<1>2. origin[tab[t].app.key].first \in issued
  BY <1>1 DEF AdminInv, OriginInv
<1> QED
  BY <1>1, <1>2 DEF Steady, OriginOf

\* What a tab shows stays true while others work.
LEMMA UntouchedTab ==
    ASSUME AdminInv, Steady, NEW u \in Tabs, tab'[u] = tab[u]
    PROVE  TabInv(u)'
<1> DEFINE p == tab[u]
<1>1. TabInv(u) /\ OriginInv
  BY DEF AdminInv
<1>2. p.app # None =>
        /\ p.app.key \in issued'
        /\ \A b \in db'.apps : OriginOf(b)' = origin'[p.app.key].first => b.id = p.app.id
  BY PageAppStays DEF OriginOf
<1>3. p.key # None =>
        /\ p.key \in issued /\ p.key \in issued' /\ origin'[p.key] = origin[p.key]
        /\ origin[p.key].first \in issued
        /\ p.pc \in {"page", "overview", "rotated", "answer"} /\ p.issue = None /\ p.rid = None
  BY <1>1 DEF TabInv, OriginInv, Steady
<1>4. p.pc = "rotated" =>
        /\ p.key # None
        /\ \A b \in db'.apps : OriginOf(b)' = origin'[p.key].first => b.id = p.app.id
  BY <1>1, <1>3 DEF TabInv, Steady, OriginOf
<1>5. /\ p.pc \in {"page", "answer"} /\ p.key # None /\ p.app # None
      /\ Alive(origin[p.key].first)'
      => origin'[p.app.key].first = origin'[p.key].first
  <2>1. ASSUME p.pc \in {"page", "answer"}, p.key # None, p.app # None,
               NEW b \in db'.apps, origin'[b.key].first = origin'[p.key].first
        PROVE  origin'[p.app.key].first = origin'[p.key].first
    <3>1. \E c \in db.apps : OriginOf(c) = origin[p.key].first
      BY <1>3, <2>1 DEF Steady
    <3>2. OriginOf(p.app) = origin[p.key].first
      BY <1>1, <2>1, <3>1 DEF TabInv, Alive
    <3> QED
      BY <1>3, <2>1, <3>2, PageAppStays DEF OriginOf
  <2> QED
    BY <1>3, <2>1 DEF Alive, OriginOf
<1>6. p' = p /\ (p.pc = "answer" => p.issue = None)
  BY <1>1 DEF TabInv
<1> QED
  BY <1>2, <1>3, <1>4, <1>5, <1>6 DEF TabInv, OriginOf

LEMMA QuietTab ==
    ASSUME AdminInv, Steady, NEW t \in Tabs, NEW p \in TabState, Quiet(t, p)
    PROVE  TabInv(t)'
<1>1. tab'[t] = p /\ p.key = None /\ p.pc \notin {"rotated", "answer"}
  BY ShowEffect DEF Quiet, AdminInv
<1>2. p.app # None =>
        /\ p.app.key \in issued'
        /\ \A b \in db'.apps : origin'[b.key].first = origin'[p.app.key].first => b.id = p.app.id
  <2>1. CASE p.app = tab[t].app
    BY <2>1, PageAppStays
  <2>2. CASE p.app \in db.apps /\ UNCHANGED db
    BY <2>2 DEF AdminInv, OriginInv, OriginOf, Steady, Quiet
  <2> QED
    BY <2>1, <2>2 DEF Quiet
<1> QED
  BY <1>1, <1>2 DEF TabInv, OriginOf

\* An issue that others show, and that is not marked old, is the one they saw.
LEMMA ShownStays ==
    ASSUME AdminInv, [StoreNext]_storeVars, NEW t \in Tabs, NEW p, Show(t, p),
           NEW u \in Tabs \ {t}, tab'[u] = tab[u]
    PROVE  ShownIssueInv(u)'
<1>1. SUFFICES ASSUME tab[u].pc = "page", tab[u].issue # None, u \notin old'
               PROVE  \E i \in db'.issues : i.id = tab[u].issue.id /\ i.hash = tab[u].issue.hash
  BY DEF ShownIssueInv
<1>2. u \notin old /\ \E j \in db'.issues : j.id = tab[u].issue.id
  BY <1>1 DEF Show
<1>3. PICK j \in db'.issues : j.id = tab[u].issue.id
  BY <1>2
<1>4. PICK i \in db.issues : i.id = tab[u].issue.id /\ i.hash = tab[u].issue.hash
  BY <1>1, <1>2 DEF AdminInv, ShownIssueInv
<1>5. j.hash = i.hash
  BY <1>3, <1>4, IssueStaysItself DEF AdminInv, AdminTypeOK
<1> QED
  BY <1>3, <1>4, <1>5

\* A key of an app is known, lost or on its way, whatever the tab t does with the
\* key that it has.
LEMMA KnownStays ==
    ASSUME AdminInv, Steady, NEW t \in Tabs, NEW p \in TabState, Show(t, p),
           known \subseteq known', lost \subseteq lost',
           \A b \in db'.apps :
              b.key \notin issued => p.pc \in {"overview", "rotated"} /\ p.key = b.key,
           tab[t].pc \in {"overview", "rotated", "answer"} =>
              \/ tab[t].key \in known' \cup lost'
              \/ p.pc = "answer" /\ p.key = tab[t].key
              \/ \A b \in db'.apps : b.key # tab[t].key
    PROVE  KeysAreKnown'
<1>1. /\ tab'[t] = p /\ \A u \in Tabs \ {t} : tab'[u] = tab[u]
      /\ KeysAreKnown
  BY ShowEffect DEF AdminInv
<1>2. ASSUME NEW b \in db'.apps, b.key \in issued
      PROVE  \/ b.key \in known' \cup lost'
             \/ \E u \in Tabs : /\ tab'[u].pc \in {"overview", "rotated", "answer"}
                              /\ tab'[u].key = b.key
  <2>1. PICK c \in db.apps : c.key = b.key
    BY <1>2 DEF Steady
  <2> QED
    BY <1>1, <1>2, <2>1 DEF KeysAreKnown
<1> QED
  BY <1>1, <1>2 DEF KeysAreKnown

\* The parts put together: what is left for a step is its own tab, and the keys.
LEMMA TabStep ==
    ASSUME AdminInv, StoreTypeOK', Integrity', [StoreNext]_storeVars,
           NEW t \in Tabs, NEW p \in TabState, Show(t, p),
           OriginInv', Steady, KeysAreKnown', TabInv(t)', ShownIssueInv(t)',
           IsFiniteSet(issued'), DOMAIN origin' = Keys, origin' = [k \in Keys |-> origin'[k]]
    PROVE  AdminInv'
<1>1. /\ tab' \in [Tabs -> TabState]
      /\ \A u \in Tabs \ {t} : tab'[u] = tab[u]
  BY ShowEffect DEF AdminInv
<1>2. AdminTypeOK'
  BY <1>1 DEF AdminTypeOK
<1>3. \A u \in Tabs \ {t} : TabInv(u)' /\ ShownIssueInv(u)'
  BY <1>1, UntouchedTab, ShownStays
<1> QED
  BY <1>2, <1>3 DEF AdminInv

LEMMA QuietKeeps ==
    ASSUME AdminInv, StoreTypeOK', Integrity', [StoreNext]_storeVars,
           NEW t \in Tabs, NEW p \in TabState, Quiet(t, p)
    PROVE  AdminInv'
<1>1. /\ Show(t, p) /\ UNCHANGED <<issued, origin, known, lost>> /\ db'.apps \subseteq db.apps
      /\ tab[t].pc \notin {"overview", "rotated", "answer"}
      /\ UniqueKeys /\ AdminTypeOK
  BY DEF Quiet, AdminInv, Integrity
<1>2. OriginInv' /\ Steady
  BY <1>1, ShrinkOrigins
<1>3. KeysAreKnown'
  <2>1. \A b \in db'.apps : b.key \in issued
    BY <1>1 DEF UniqueKeys
  <2> QED
    BY <1>1, <1>2, <2>1, KnownStays
<1>4. ShownIssueInv(t)'
  <2>1. tab'[t] = p
    BY <1>1, ShowEffect
  <2> QED
    BY <2>1 DEF ShownIssueInv, Quiet
<1>5. IsFiniteSet(issued') /\ DOMAIN origin' = Keys /\ origin' = [k \in Keys |-> origin'[k]]
  BY <1>1 DEF AdminTypeOK
<1> QED
  BY <1>1, <1>2, <1>3, <1>4, <1>5, QuietTab, TabStep

\* The list of apps, or its error, with the key of a new app on it.
LEMMA CreateAppKeeps ==
    ASSUME AdminInv, StoreTypeOK', Integrity', [StoreNext]_storeVars, NEW t \in Tabs,
           NEW name \in Names, NEW key \in Keys, submitCreateApp(t, name, key)
    PROVE  AdminInv'
<1>1. tab[t].pc = "page" /\ UNCHANGED <<known, lost>> /\ AdminTypeOK
  BY DEF submitCreateApp, Request, AdminInv
<1>2. ASSUME Create(name, key), origin' = [origin EXCEPT ![key] = Minted(key)],
             Show(t, [AppsPage(key) EXCEPT !.pc = "overview"])
      PROVE  AdminInv'
  <2> DEFINE p == [pc |-> "overview", app |-> None, issue |-> None, rid |-> None, key |-> key]
  <2>1. p \in TabState /\ p.pc = "overview" /\ p.app = None /\ p.issue = None /\ p.rid = None
        /\ p.key = key
    BY DEF TabState, Stages
  <2>2. Show(t, p)
    BY <1>2 DEF AppsPage, Page
  <2> HIDE DEF p
  <2>3. OriginInv' /\ Steady
    BY <1>2, CreateOrigins
  <2>4. /\ key \notin issued /\ issued' = issued \cup {key} /\ tab'[t] = p
        /\ IsFiniteSet(issued') /\ DOMAIN origin' = Keys /\ origin' = [k \in Keys |-> origin'[k]]
    <3>1. key \notin issued /\ issued' = issued \cup {key} /\ tab'[t] = p
      BY <1>1, <1>2, <2>1, <2>2, ShowEffect DEF Create
    <3> QED
      BY <1>1, <1>2, <3>1, MintEffect DEF AdminInv
  <2>5. TabInv(t)' /\ ShownIssueInv(t)'
    BY <2>1, <2>4 DEF TabInv, ShownIssueInv
  <2>6. KeysAreKnown'
    <3>1. \A b \in db'.apps : b.key \notin issued => b.key = key
      BY <2>4 DEF Integrity, UniqueKeys
    <3> QED
      BY <1>1, <2>1, <2>2, <2>3, <3>1, KnownStays
  <2> QED
    BY <2>1, <2>2, <2>3, <2>4, <2>5, <2>6, TabStep
<1>3. ASSUME UNCHANGED <<db, issued, origin>>,
             Show(t, [AppsPage(None) EXCEPT !.pc = "overview"])
      PROVE  AdminInv'
  <2> DEFINE p == [pc |-> "overview", app |-> None, issue |-> None, rid |-> None, key |-> None]
  <2>1. p \in TabState /\ p.pc = "overview" /\ p.app = None /\ p.key = None
    BY DEF TabState, Stages
  <2>2. Show(t, p)
    BY <1>3 DEF AppsPage, Page
  <2> HIDE DEF p
  <2>3. Quiet(t, p)
    BY <1>1, <1>3, <2>1, <2>2 DEF Quiet
  <2> QED
    BY <2>1, <2>3, QuietKeeps
<1> QED
  BY <1>2, <1>3 DEF submitCreateApp

LEMMA RotateKeyKeeps ==
    ASSUME AdminInv, StoreTypeOK', Integrity', [StoreNext]_storeVars, NEW t \in Tabs,
           NEW key \in Keys, submitRotateKey(t, key)
    PROVE  AdminInv'
<1>1. /\ tab[t].pc = "page" /\ UNCHANGED <<known, lost>> /\ AdminTypeOK /\ tab[t] \in TabState
      /\ tab[t].app # None
  BY DEF submitRotateKey, Request, AdminInv, AdminTypeOK, OnApp
<1>2. ASSUME NEW a \in RowOf(tab[t].app.id), Rotate(a.id, key),
             origin' = [origin EXCEPT ![key] = Minted(OriginOf(a))],
             Show(t, [Page(tab[t].app, None, None, key) EXCEPT !.pc = "rotated"])
      PROVE  AdminInv'
  <2> DEFINE p == [pc |-> "rotated", app |-> tab[t].app, issue |-> None, rid |-> None,
                   key |-> key]
  <2>1. p \in TabState /\ p.pc = "rotated" /\ p.app = tab[t].app /\ p.issue = None
        /\ p.rid = None /\ p.key = key
    BY <1>1 DEF TabState, Stages
  <2>2. Show(t, p)
    BY <1>2 DEF Page
  <2> HIDE DEF p
  <2>3. a \in db.apps /\ a.id = tab[t].app.id
    BY <1>2 DEF RowOf
  <2>4. OriginInv' /\ Steady /\ origin'[key].first = OriginOf(a) /\ OriginOf(a) \in issued
    BY <1>2, <2>3, RotateOrigins
  <2>5. /\ key \notin issued /\ issued' = issued \cup {key} /\ tab'[t] = p
        /\ IsFiniteSet(issued') /\ DOMAIN origin' = Keys /\ origin' = [k \in Keys |-> origin'[k]]
    <3>1. key \notin issued /\ issued' = issued \cup {key} /\ tab'[t] = p
      BY <1>1, <1>2, <2>1, <2>2, ShowEffect DEF Rotate
    <3> QED
      BY <1>1, <1>2, <3>1, MintEffect DEF AdminInv
  <2>6. TabInv(t)' /\ ShownIssueInv(t)'
    <3>1. /\ p.app.key \in issued'
          /\ \A b \in db'.apps : origin'[b.key].first = origin'[p.app.key].first => b.id = p.app.id
      BY <1>1, <2>1, <2>4, PageAppStays
    <3>2. ASSUME NEW b \in db'.apps, origin'[b.key].first = origin'[key].first
          PROVE  b.id = p.app.id
      <4>1. PICK c \in db.apps : c.id = b.id /\ OriginOf(c) = OriginOf(a)
        BY <2>4, <3>2 DEF Steady
      <4> QED
        BY <2>1, <2>3, <4>1 DEF AdminInv, OriginInv
    <3>3. p.key \in issued' /\ p.key # None
      BY <2>1, <2>5, WebAdminAssumption
    <3> QED
      BY <2>1, <2>5, <3>1, <3>2, <3>3 DEF TabInv, ShownIssueInv, OriginOf
  <2>7. KeysAreKnown'
    <3>1. \A b \in db'.apps : b.key \notin issued => b.key = key
      BY <2>5 DEF Integrity, UniqueKeys
    <3> QED
      BY <1>1, <2>1, <2>2, <2>4, <3>1, KnownStays
  <2> QED
    BY <2>1, <2>2, <2>4, <2>5, <2>6, <2>7, TabStep
<1>3. ASSUME UNCHANGED <<db, issued, origin>>, Show(t, PlainPage) PROVE AdminInv'
  <2>1. \E p \in TabState : Quiet(t, p)
    BY <1>1, <1>3, PlainIsQuiet
  <2> QED
    BY <2>1, QuietKeeps
<1> QED
  BY <1>2, <1>3 DEF submitRotateKey

\* A page that a read leaves, with or without the new key.
LEMMA ReadKeeps ==
    ASSUME AdminInv, StoreTypeOK', Integrity', NEW t \in Tabs, NEW p \in TabState,
           Show(t, p), Reads, TabInv(t)', p.issue = None,
           known \subseteq known', lost \subseteq lost',
           \/ tab[t].key \in known' \cup lost'
           \/ p.pc = "answer" /\ p.key = tab[t].key
           \/ \A b \in db'.apps : b.key # tab[t].key
    PROVE  AdminInv'
<1>1. /\ UNCHANGED <<db, issued, origin>> /\ UniqueKeys /\ AdminTypeOK /\ UNCHANGED storeVars
  BY DEF Reads, AdminInv, Integrity, storeVars
<1>2. OriginInv' /\ Steady
  BY <1>1, ShrinkOrigins
<1>3. tab'[t] = p
  BY <1>1, ShowEffect
<1>4. KeysAreKnown'
  BY <1>1, <1>2, KnownStays DEF UniqueKeys
<1>5. ShownIssueInv(t)'
  BY <1>3 DEF ShownIssueInv
<1>6. IsFiniteSet(issued') /\ DOMAIN origin' = Keys /\ origin' = [k \in Keys |-> origin'[k]]
  BY <1>1 DEF AdminTypeOK
<1> QED
  BY <1>1, <1>2, <1>4, <1>5, <1>6, TabStep

LEMMA PlainReadKeeps ==
    ASSUME AdminInv, StoreTypeOK', Integrity', NEW t \in Tabs, Show(t, PlainPage), Reads,
           known \subseteq known', lost \subseteq lost',
           \/ tab[t].key \in known' \cup lost'
           \/ \A b \in db'.apps : b.key # tab[t].key
    PROVE  AdminInv'
<1> DEFINE p == PlainPage
<1>1. p \in TabState /\ p.app = None /\ p.issue = None /\ p.key = None /\ p.pc = "page"
  BY DEF PlainPage, Page, TabState, Stages
<1>2. Show(t, p)
  OBVIOUS
<1> HIDE DEF p
<1>3. tab'[t] = p
  BY <1>1, <1>2, ShowEffect DEF AdminInv
<1>4. TabInv(t)'
  BY <1>1, <1>3 DEF TabInv
<1> QED
  BY <1>1, <1>2, <1>4, ReadKeeps

LEMMA AppOverviewKeeps ==
    ASSUME AdminInv, StoreTypeOK', Integrity', NEW t \in Tabs, AppOverview(t)
    PROVE  AdminInv'
<1> DEFINE key == tab[t].key
<1>1. /\ Reads /\ TabInv(t) /\ key \in Keys \cup {None} /\ AdminTypeOK
      /\ UNCHANGED <<db, issued, origin>>
  BY DEF AppOverview, AdminInv, AdminTypeOK, TabState, Reads
<1>2. \A b \in db'.apps : b.key # None
  BY WebAdminAssumption DEF StoreTypeOK, AppRow
<1>3. CASE Show(t, [AppsPage(key) EXCEPT !.pc = "answer"]) /\ UNCHANGED <<known, lost>>
  <2> DEFINE p == [pc |-> "answer", app |-> None, issue |-> None, rid |-> None, key |-> key]
  <2>1. /\ p \in TabState /\ p.app = None /\ p.issue = None /\ p.rid = None /\ p.key = key
        /\ p.pc = "answer"
    BY <1>1 DEF TabState, Stages
  <2>2. Show(t, p)
    BY <1>3 DEF AppsPage, Page
  <2> HIDE DEF p
  <2>3. tab'[t] = p
    BY <1>1, <2>1, <2>2, ShowEffect
  <2>4. TabInv(t)'
    BY <1>1, <2>1, <2>3 DEF TabInv
  <2> QED
    BY <1>1, <1>3, <2>1, <2>2, <2>4, ReadKeeps
<1>4. CASE Show(t, PlainPage) /\ lost' = lost \cup ({key} \ {None}) /\ UNCHANGED known
  <2>1. key \in known' \cup lost' \/ \A b \in db'.apps : b.key # key
    BY <1>2, <1>4
  <2>2. known \subseteq known' /\ lost \subseteq lost'
    BY <1>4
  <2> QED
    BY <1>1, <1>4, <2>1, <2>2, PlainReadKeeps
<1> QED
  BY <1>3, <1>4 DEF AppOverview

LEMMA RenderKeeps ==
    ASSUME AdminInv, StoreTypeOK', Integrity', NEW t \in Tabs, renderAppDetail(t)
    PROVE  AdminInv'
<1> DEFINE key == tab[t].key
           rows == RowOf(tab[t].app.id)
<1>1. /\ Reads /\ TabInv(t) /\ AdminTypeOK /\ OriginInv /\ UniqueIds /\ UniqueKeys
      /\ UNCHANGED <<db, issued, origin>> /\ tab[t].pc = "rotated"
      /\ key \in Keys
  <2>1. tab[t].pc = "rotated" /\ Reads
    BY DEF renderAppDetail
  <2> QED
    BY <2>1 DEF AdminInv, AdminTypeOK, TabState, Reads, Integrity, TabInv
<1>2. /\ key # None /\ key \in issued
      /\ \A b \in db.apps : OriginOf(b) = origin[key].first => b.id = tab[t].app.id
  BY <1>1 DEF TabInv
<1>3. ASSUME NEW a \in rows, Show(t, [tab[t] EXCEPT !.pc = "answer", !.app = a]),
             UNCHANGED <<known, lost>>
      PROVE  AdminInv'
  <2> DEFINE p == [tab[t] EXCEPT !.pc = "answer", !.app = a]
  <2>1. a \in db.apps /\ a.id = tab[t].app.id /\ a \in AppRow
    BY <1>1, <1>3 DEF RowOf, AdminTypeOK, StoreTypeOK
  <2>2. /\ p \in TabState /\ p.app = a /\ p.issue = None /\ p.rid = None /\ p.key = key
        /\ p.pc = "answer"
    <3>1. tab[t] \in TabState /\ tab[t].issue = None /\ tab[t].rid = None
      BY <1>1, <1>2 DEF AdminTypeOK, TabInv
    <3>2. "answer" \in Stages
      BY DEF Stages
    <3> QED
      BY <2>1, <3>1, <3>2 DEF TabState
  <2>3. Show(t, p)
    BY <1>3
  <2> HIDE DEF p
  <2>4. tab'[t] = p
    BY <1>1, <2>2, <2>3, ShowEffect
  <2>5. a.key \in issued /\ \A b \in db.apps : OriginOf(b) = OriginOf(a) => b.id = a.id
    BY <1>1, <2>1 DEF UniqueKeys, OriginInv
  <2>6. Alive(origin[key].first) => OriginOf(a) = origin[key].first
    BY <1>1, <1>2, <2>1 DEF Alive, UniqueIds, Unique
  <2>7. TabInv(t)'
    BY <1>1, <1>2, <2>2, <2>4, <2>5, <2>6 DEF TabInv, OriginOf, Alive
  <2> QED
    BY <1>1, <1>3, <2>2, <2>3, <2>7, ReadKeeps
<1>4. CASE Show(t, PlainPage) /\ rows = {} /\ UNCHANGED <<known, lost>>
  <2>1. \A b \in db.apps : b.key # key
    BY <1>2, <1>4 DEF RowOf, OriginOf
  <2> QED
    BY <1>1, <1>4, <2>1, PlainReadKeeps
<1>5. CASE Show(t, PlainPage) /\ lost' = lost \cup {key} /\ UNCHANGED known
  <2>1. known \subseteq known' /\ lost \subseteq lost' /\ key \in lost'
    BY <1>2, <1>5
  <2> QED
    BY <1>1, <1>5, <2>1, PlainReadKeeps
<1> QED
  BY <1>3, <1>4, <1>5 DEF renderAppDetail

\* The page comes to the browser as it is, and its key is known.
LEMMA AnswerKeeps ==
    ASSUME AdminInv, StoreTypeOK', Integrity', NEW t \in Tabs, Answer(t)
    PROVE  AdminInv'
<1> DEFINE p == [tab[t] EXCEPT !.pc = "page"]
<1>1. /\ Reads /\ TabInv(t) /\ AdminTypeOK /\ OriginInv /\ Steady
      /\ UNCHANGED <<db, issued, origin>> /\ tab[t].pc = "answer"
      /\ tab[t] \in TabState /\ tab[t].issue = None
  <2>1. /\ Reads /\ UNCHANGED <<db, issued, origin>> /\ tab[t].pc = "answer"
    BY DEF Answer, Reads
  <2>2. Steady
    BY <2>1, ShrinkOrigins
  <2> QED
    BY <2>1, <2>2 DEF AdminInv, AdminTypeOK, TabInv
<1>2. /\ p \in TabState /\ p.pc = "page" /\ p.app = tab[t].app /\ p.issue = None
      /\ p.rid = tab[t].rid /\ p.key = tab[t].key
  BY <1>1 DEF TabState, Stages
<1>3. Show(t, p)
  BY DEF Answer, Goto
<1> HIDE DEF p
<1>4. tab'[t] = p
  BY <1>1, <1>2, <1>3, ShowEffect
<1>5. TabInv(t)'
  BY <1>1, <1>2, <1>4 DEF TabInv, OriginOf, Alive
<1>6. \A b \in db'.apps : b.key # None
  BY <1>1, WebAdminAssumption DEF AdminTypeOK, StoreTypeOK, AppRow
<1>7. /\ known \subseteq known' /\ lost \subseteq lost'
      /\ tab[t].key \in known' \/ \A b \in db'.apps : b.key # tab[t].key
  BY <1>6 DEF Answer
<1> QED
  BY <1>1, <1>2, <1>3, <1>5, <1>7, ReadKeeps

\* The requests that are cut off end on plain pages; their keys are lost.
LEMMA CutOffKeeps ==
    ASSUME AdminInv, StoreTypeOK', Integrity', NEW cut \in SUBSET Tabs, CutOff(cut)
    PROVE  AdminInv'
<1>1. /\ UNCHANGED <<db, issued, origin, known>> /\ AdminTypeOK /\ UniqueKeys
      /\ \A t \in cut : tab'[t] = PlainPage
      /\ \A t \in Tabs \ cut : tab'[t] = tab[t] /\ (t \in old' <=> t \in old)
      /\ lost \subseteq lost' /\ \A t \in cut : tab[t].key \in lost' \cup {None}
  BY DEF CutOff, Reads, AdminInv, Integrity
<1>2. OriginInv' /\ Steady
  BY <1>1, ShrinkOrigins
<1>3. /\ PlainPage \in TabState /\ PlainPage.app = None /\ PlainPage.key = None
      /\ PlainPage.pc = "page" /\ PlainPage.issue = None
  BY DEF PlainPage, Page, TabState, Stages
<1>4. AdminTypeOK'
  <2>1. tab' \in [Tabs -> TabState]
    BY <1>1, <1>3 DEF CutOff, AdminTypeOK
  <2> QED
    BY <1>1, <2>1 DEF AdminTypeOK
<1>5. ASSUME NEW t \in cut PROVE TabInv(t)' /\ ShownIssueInv(t)'
  BY <1>1, <1>3 DEF TabInv, ShownIssueInv
<1>6. ASSUME NEW t \in Tabs \ cut PROVE TabInv(t)' /\ ShownIssueInv(t)'
  BY <1>1, <1>2, UntouchedTab DEF AdminInv, ShownIssueInv
<1>7. KeysAreKnown'
  <2>1. \A a \in db.apps : a.key # None
    BY <1>1, WebAdminAssumption DEF AdminTypeOK, StoreTypeOK, AppRow
  <2> QED
    BY <1>1, <2>1 DEF AdminInv, KeysAreKnown
<1> QED
  BY <1>2, <1>4, <1>5, <1>6, <1>7 DEF AdminInv

\* A report takes no issue away: what is shown is still there.
LEMMA PhoneKeeps ==
    ASSUME AdminInv, StoreTypeOK', Integrity', PhoneSends
    PROVE  AdminInv'
<1>1. PICK rid \in Rids, app \in Rowids, hash \in Hashes, at \in Times :
             Ingest(rid, app, hash, at)
  BY DEF PhoneSends
<1>2. /\ UNCHANGED <<tab, old, origin, known, lost, issued>> /\ StoreTypeOK /\ Integrity
      /\ AdminTypeOK /\ UniqueKeys
  BY <1>1 DEF PhoneSends, Ingest, AdminInv, AdminTypeOK, Integrity
<1>3. db'.apps = db.apps /\ db'.issues = UpsertIssue(db.issues, rid, app, hash, at)
  BY <1>1, <1>2, IngestEffect
<1>4. OriginInv' /\ Steady
  BY <1>2, <1>3, ShrinkOrigins
<1>5. [StoreNext]_storeVars
  BY <1>1 DEF StoreNext
<1>6. ASSUME NEW u \in Tabs PROVE TabInv(u)' /\ ShownIssueInv(u)'
  <2>1. TabInv(u)'
    BY <1>2, <1>4, UntouchedTab
  <2>2. ASSUME tab[u].pc = "page", tab[u].issue # None, u \notin old
        PROVE  \E j \in db'.issues : j.id = tab[u].issue.id /\ j.hash = tab[u].issue.hash
    <3>1. PICK i \in db.issues : i.id = tab[u].issue.id /\ i.hash = tab[u].issue.hash
      BY <2>2 DEF AdminInv, ShownIssueInv
    <3>2. PICK j \in db'.issues : j.id = i.id
      BY <1>2, <1>3, <3>1, UpsertEffect
    <3>3. j.hash = i.hash
      BY <1>2, <1>5, <3>1, <3>2, IssueStaysItself
    <3> QED
      BY <3>1, <3>2, <3>3
  <2> QED
    BY <1>2, <2>1, <2>2 DEF ShownIssueInv
<1>7. KeysAreKnown'
  BY <1>2, <1>3 DEF AdminInv, KeysAreKnown
<1>8. AdminTypeOK'
  BY <1>2 DEF AdminTypeOK
<1> QED
  BY <1>4, <1>6, <1>7, <1>8 DEF AdminInv

LEMMA AdminInvStep ==
    ASSUME AdminInv, [AdminNext]_adminVars
    PROVE  AdminInv'
<1>1. AdminTypeOK /\ [StoreNext]_storeVars /\ StoreTypeOK' /\ Integrity'
  BY AdminStepsAreStoreSteps, StepKeeps DEF AdminInv, AdminTypeOK
<1>2. ASSUME NEW t \in Tabs, \E p \in TabState : Quiet(t, p) PROVE AdminInv'
  BY <1>1, <1>2, QuietKeeps
<1>3. ASSUME NEW t \in Tabs, Form(t) PROVE AdminInv'
  <2>1. TabInv(t)
    BY DEF AdminInv
  <2> QED
    BY <1>1, <1>2, <1>3, <2>1, CreateAppKeeps, RotateKeyKeeps, FormsAreQuiet DEF Form
<1>4. ASSUME NEW t \in Tabs, Link(t) PROVE AdminInv'
  BY <1>1, <1>2, <1>4, LinksAreQuiet
<1>5. ASSUME NEW t \in Tabs, Rest(t) PROVE AdminInv'
  <2>1. TabInv(t)
    BY DEF AdminInv
  <2> QED
    BY <1>1, <1>2, <1>5, <2>1, AppOverviewKeeps, RenderKeeps, AnswerKeeps, CutOffKeeps,
       ReadsAreQuiet DEF Rest, Lose
<1>6. CASE UNCHANGED adminVars
  <2>1. UNCHANGED <<db, issued, tab, old, origin, known, lost>>
    BY <1>6 DEF adminVars
  <2>2. OriginInv' /\ Steady
    BY <2>1, ShrinkOrigins
  <2>3. \A u \in Tabs : TabInv(u)' /\ ShownIssueInv(u)'
    BY <2>1, <2>2, UntouchedTab DEF AdminInv, ShownIssueInv
  <2> QED
    BY <1>1, <2>1, <2>2, <2>3 DEF AdminInv, AdminTypeOK, KeysAreKnown
<1>7. CASE Restart
  BY <1>1, <1>7, CutOffKeeps DEF Restart, Out
<1> QED
  BY <1>1, <1>3, <1>4, <1>5, <1>6, <1>7, PhoneKeeps DEF AdminNext

LEMMA AdminInvInit ==
    ASSUME AdminInit
    PROVE  AdminInv
<1>1. StoreTypeOK /\ Integrity /\ db.apps = {} /\ issued = {}
  BY InitEstablishes DEF AdminInit, StoreInit, EmptyDb
<1>2. PlainPage \in TabState /\ PlainPage.app = None /\ PlainPage.key = None
      /\ PlainPage.pc = "page" /\ PlainPage.issue = None
  BY DEF PlainPage, Page, TabState, Stages
<1>3. \A t \in Tabs : tab[t] = PlainPage
  BY DEF AdminInit
<1>4. AdminTypeOK
  BY <1>1, <1>2, FS_EmptySet DEF AdminInit, AdminTypeOK
<1>5. OriginInv /\ KeysAreKnown
  BY <1>1 DEF OriginInv, KeysAreKnown
<1>6. \A t \in Tabs : TabInv(t) /\ ShownIssueInv(t)
  BY <1>2, <1>3 DEF TabInv, ShownIssueInv
<1> QED
  BY <1>1, <1>4, <1>5, <1>6 DEF AdminInv

LEMMA AdminInvHolds == AdminSpec => []AdminInv
<1>1. AdminInv /\ [AdminNext]_adminVars => AdminInv'
  BY AdminInvStep
<1> QED
  BY AdminInvInit, <1>1, PTL DEF AdminSpec

\* No app is left with a key that nobody has been shown, unless the request that
\* made the key has itself lost its page: to a statement that failed, to an answer
\* lost on its way, or to a restart.
THEOREM NoKeyIsForgotten == AdminSpec => []KeysAreKnown
BY AdminInvHolds, PTL DEF AdminInv

\* A page with a new key is the page of the key's app, and that app's older keys
\* open nothing: the key of an app is the newest of its origin, and no two apps
\* have one origin.
THEOREM KeysAreShownTruly == AdminSpec => []KeyPagesAreTrue
<1>1. ASSUME AdminInv, NEW t \in Tabs, tab[t].pc = "page", tab[t].key # None,
             Alive(origin[tab[t].key].first)
      PROVE  /\ tab[t].app # None => OriginOf(tab[t].app) = origin[tab[t].key].first
             /\ \A k \in issued :
                   /\ origin[k].first = origin[tab[t].key].first
                   /\ origin[k].number < origin[tab[t].key].number
                   => AppsByKey(db, k) = {}
  <2>1. TabInv(t) /\ OriginInv /\ tab[t].key \in issued /\ Cardinality(issued) \in Nat
    BY <1>1, FS_CardinalityType DEF AdminInv, TabInv, AdminTypeOK
  <2>2. ASSUME NEW k \in issued, origin[k].first = origin[tab[t].key].first,
               origin[k].number < origin[tab[t].key].number, NEW a \in db.apps, a.key = k
        PROVE  FALSE
    <3>1. origin[tab[t].key].number <= origin[k].number
      BY <2>1, <2>2 DEF OriginInv, OriginOf
    <3>2. origin[tab[t].key].number \in 1..Cardinality(issued)
          /\ origin[k].number \in 1..Cardinality(issued)
      BY <2>1 DEF OriginInv
    <3> QED
      BY <2>1, <2>2, <3>1, <3>2
  <2> QED
    BY <1>1, <2>1, <2>2 DEF TabInv, AppsByKey
<1>2. AdminInv => KeyPagesAreTrue
  BY <1>1 DEF KeyPagesAreTrue
<1> QED
  BY AdminInvHolds, <1>2, PTL

-----------------------------------------------------------------------------
\* A form takes out of the apps, or changes, only the app of the page's id.
LEMMA FormsTakeTheirApp ==
    ASSUME AdminInv, NEW t \in Tabs, Form(t), OnApp(t), NEW a \in db.apps \ db'.apps
    PROVE  a.id = tab[t].app.id
<1>1. AdminTypeOK /\ StoreTypeOK /\ tab[t].issue = None
  BY DEF AdminInv, AdminTypeOK, OnApp
<1>2. ASSUME NEW name \in Names, NEW key \in Keys, submitCreateApp(t, name, key) PROVE FALSE
  BY <1>1, <1>2, CreateEffect DEF submitCreateApp
<1>3. ASSUME NEW key \in Keys, submitRotateKey(t, key) PROVE a.id = tab[t].app.id
  <2>1. PICK c \in db.apps : c.id = tab[t].app.id /\ Rotate(c.id, key)
    BY <1>3 DEF submitRotateKey, RowOf
  <2> QED
    BY <1>1, <2>1, RotateEffect
<1>4. CASE submitDeleteApp(t)
  BY <1>1, <1>4, AppsAfter DEF submitDeleteApp
<1>5. ~OnIssue(t) /\ ~submitDeleteIssue(t)
      /\ \A status \in Statuses : ~submitIssueStatus(t, status)
  BY <1>1 DEF OnIssue, submitDeleteIssue, submitIssueStatus
<1>6. ~submitDeleteReport(t)
  BY DEF submitDeleteReport, Reads
<1> QED
  BY <1>2, <1>3, <1>4, <1>5, <1>6 DEF Form

\* What changes of one status and deletions of one issue leave of the issues.
LEMMA IssuesAfter ==
    ASSUME StoreTypeOK, NEW app, NEW issue, NEW status,
           MarkIssue(app, issue, status) \/ RemoveIssue(app, issue),
           NEW i \in db.issues \ db'.issues
    PROVE  i.id = issue
<1>1. CASE MarkIssue(app, issue, status)
  <2> DEFINE Marked(j) ==
        IF j.id = issue /\ j.app = app THEN [j EXCEPT !.status = status] ELSE j
  <2>1. db'.issues = {Marked(j) : j \in db.issues}
    BY <1>1 DEF MarkIssue, SetIssueStatus, StoreTypeOK
  <2>2. i.id # issue => Marked(i) = i
    OBVIOUS
  <2> HIDE DEF Marked
  <2> QED
    BY <2>1, <2>2
<1>2. CASE RemoveIssue(app, issue)
  BY <1>2 DEF RemoveIssue, DeleteIssue, StoreTypeOK
<1> QED
  BY <1>1, <1>2

\* A form that is on an issue takes out or changes only the issue of its id.
LEMMA FormsTakeTheirIssue ==
    ASSUME AdminInv, NEW t \in Tabs, Form(t), OnIssue(t), NEW i \in db.issues \ db'.issues
    PROVE  i.id = tab[t].issue.id
<1>1. AdminTypeOK /\ StoreTypeOK /\ ~OnApp(t)
  BY DEF AdminInv, AdminTypeOK, OnApp, OnIssue
<1>2. ASSUME NEW name \in Names, NEW key \in Keys, submitCreateApp(t, name, key) PROVE FALSE
  BY <1>1, <1>2, CreateEffect DEF submitCreateApp
<1>3. ~submitDeleteApp(t) /\ \A key \in Keys : ~submitRotateKey(t, key)
  BY <1>1 DEF submitDeleteApp, submitRotateKey
<1>4. ASSUME NEW status \in Statuses, submitIssueStatus(t, status)
      PROVE  i.id = tab[t].issue.id
  <2>1. MarkIssue(tab[t].app.id, tab[t].issue.id, status)
    BY <1>4 DEF submitIssueStatus, storeVars
  <2> QED
    BY <1>1, <2>1, IssuesAfter
<1>5. CASE submitDeleteIssue(t)
  <2>1. \/ MarkIssue(tab[t].app.id, tab[t].issue.id, "open")
        \/ RemoveIssue(tab[t].app.id, tab[t].issue.id)
    BY <1>5 DEF submitDeleteIssue, storeVars
  <2> QED
    BY <1>1, <2>1, IssuesAfter
<1>6. ~submitDeleteReport(t)
  BY DEF submitDeleteReport, Reads
<1> QED
  BY <1>2, <1>3, <1>4, <1>5, <1>6 DEF Form

\* A request of a tab is a step of that tab.
LEMMA WhoseRequest ==
    ASSUME AdminInv, [AdminNext]_adminVars, NEW t \in Tabs, tab'[t] # tab[t], ops' # ops
    PROVE  Form(t) \/ Link(t)
<1>1. ~PhoneSends /\ ~Restart /\ ~UNCHANGED adminVars /\ \A s \in Tabs : ~Rest(s)
  BY DEF PhoneSends, adminVars, Rest, AppOverview, renderAppDetail, Answer, Lose, Restart, CutOff,
         GetIssue, Redirected, GetReport, GetIssueOfReport, DeleteFound
<1>2. PICK s \in Tabs : Form(s) \/ Link(s)
  BY <1>1 DEF AdminNext
<1>3. \E p : Show(s, p)
  BY <1>2, Zenon DEF Form, Link, submitCreateApp, submitRotateKey, submitDeleteApp, submitIssueStatus,
                     submitDeleteIssue, submitDeleteReport, pageAppDetail, pageIssueDetail,
                     pageReportDetail, Goto
<1>4. s = t
  BY <1>3 DEF Show, AdminInv, AdminTypeOK
<1> QED
  BY <1>2, <1>4

\* A form changes what its page has shown, or something that has taken its place
\* since: an app of another origin has the id only when the page's app is gone,
\* and an issue of another trace only when the page's issue is.
THEOREM FormsHitTheirTarget == AdminSpec => FormsHitWhatTheyShow
<1>1. ASSUME AdminInv, [AdminNext]_adminVars, NEW t \in Tabs,
             tab'[t] # tab[t], tab[t].pc = "page", ops' # ops
      PROVE  /\ OnApp(t) /\ Alive(OriginOf(tab[t].app)) =>
                   \A a \in db.apps \ db'.apps : OriginOf(a) = OriginOf(tab[t].app)
             /\ OnIssue(t) /\ t \notin old =>
                   \A i \in db.issues \ db'.issues : i.hash = tab[t].issue.hash
  <2>1. Form(t) \/ Link(t)
    BY <1>1, WhoseRequest
  <2>2. Link(t) => UNCHANGED db
    BY DEF Link, pageAppDetail, pageIssueDetail, pageReportDetail, Reads
  <2>3. /\ TabInv(t) /\ ShownIssueInv(t)
        /\ \A a, b \in db.apps : a.id = b.id => a = b
        /\ \A i, j \in db.issues : i.id = j.id => i = j
    BY <1>1 DEF AdminInv, Integrity, UniqueIds, Unique
  <2>4. ASSUME Form(t), OnApp(t), Alive(OriginOf(tab[t].app)), NEW a \in db.apps \ db'.apps
        PROVE  OriginOf(a) = OriginOf(tab[t].app)
    <3>1. a.id = tab[t].app.id
      BY <1>1, <2>4, FormsTakeTheirApp
    <3>2. PICK b \in db.apps : OriginOf(b) = OriginOf(tab[t].app)
      BY <2>4 DEF Alive
    <3>3. b.id = tab[t].app.id
      BY <2>3, <2>4, <3>2 DEF TabInv, OnApp
    <3> QED
      BY <2>3, <3>1, <3>2, <3>3
  <2>5. ASSUME Form(t), OnIssue(t), t \notin old, NEW i \in db.issues \ db'.issues
        PROVE  i.hash = tab[t].issue.hash
    <3>1. i.id = tab[t].issue.id
      BY <1>1, <2>5, FormsTakeTheirIssue
    <3> QED
      BY <1>1, <2>3, <2>5, <3>1 DEF ShownIssueInv, OnIssue
  <2> QED
    BY <2>1, <2>2, <2>4, <2>5
<1>2. AdminInv /\ [AdminNext]_adminVars =>
        [\A t \in Tabs :
          tab'[t] # tab[t] /\ tab[t].pc = "page" /\ ops' # ops =>
             /\ OnApp(t) /\ Alive(OriginOf(tab[t].app)) =>
                   \A a \in db.apps \ db'.apps : OriginOf(a) = OriginOf(tab[t].app)
             /\ OnIssue(t) /\ t \notin old =>
                   \A i \in db.issues \ db'.issues :
                      i.hash = tab[t].issue.hash]_adminVars
  BY <1>1
<1> QED
  BY AdminInvHolds, <1>2, PTL DEF AdminSpec, FormsHitWhatTheyShow

=============================================================================
