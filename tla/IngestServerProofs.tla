------------------------- MODULE IngestServerProofs -------------------------
(***************************************************************************)
(* For any number of phones, reports, connections and admin operations:    *)
(* the server keeps the schema of its store, no accepted report is lost,   *)
(* and concurrent attempts create a report once.                           *)
(*                                                                         *)
(* A step of the server is a step of the store or leaves it alone; the     *)
(* schema proved in CrashStoreProofs carries over, and with it the type of *)
(* what the handlers hold.  AcceptedIsStored is inductive on top of that,  *)
(* and CreatedOnce on top of AcceptedIsStored: a second attempt can only   *)
(* create a report whose first answer is still under way if the report has *)
(* been deleted in between.                                                *)
(***************************************************************************)
EXTENDS IngestServer, CrashStoreProofs

\* The inductive invariant.
IngestInv ==
    /\ TypeOK
    /\ Integrity
    /\ AcceptedIsStored
    /\ CreatedOnce

\* A handler's record after each of its changes.
LEMMA FrameTypes ==
    /\ Idle \in Handler
    /\ Frame("auth", NoApp, 0, 0) \in Handler
    /\ \A app \in AppRow : Frame("body", app, 0, 0) \in Handler
    /\ \A app \in AppRow, at \in Times : Frame("store", app, at, 0) \in Handler
    /\ \A code \in {200, 201, 401, 429, 500} : Frame("answer", NoApp, 0, code) \in Handler
<1>1. 0 \in Times
  BY IngestServerAssumption
<1> QED
  BY <1>1 DEF Handler, Frame, Idle

\* A step of the server is a step of the store, or leaves it alone.
LEMMA StepsAreStoreSteps ==
    ASSUME TypeOK, [Next]_vars
    PROVE  [StoreNext]_storeVars
<1>1. ASSUME NEW c \in Conns, StoreReport(c)
      PROVE  StoreNext \/ UNCHANGED storeVars
  <2>1. Owner[c] \in Rids /\ HashOf[Owner[c]] \in Hashes
    BY IngestServerAssumption
  <2>2. handler[c].app.id \in Rowids /\ handler[c].at \in Times
    BY <1>1 DEF StoreReport, TypeOK, Handler, AppRow
  <2> QED
    BY <1>1, <2>1, <2>2 DEF StoreReport, StoreNext
<1>2. ASSUME Admin PROVE StoreNext
  BY <1>2 DEF Admin, StoreNext, submitCreateApp, submitRotateKey, submitDeleteApp,
              submitIssueStatus, submitDeleteIssue, submitDeleteReport
<1> QED
  BY <1>1, <1>2 DEF Next, Serve, Arrive, Refuse, Authenticate, ReadBody, Fail, Answer,
                    LoseAnswer, Crash, Tick, vars, storeVars

\* Every step keeps the tables typed and the schema: CrashStoreProofs.
LEMMA SchemaCarriesOver ==
    ASSUME TypeOK, Integrity, [Next]_vars
    PROVE  StoreTypeOK' /\ Integrity'
BY StepsAreStoreSteps, StepKeeps DEF TypeOK

\* Every step keeps the type of the handlers and of the rest.
LEMMA TypesKeep ==
    ASSUME TypeOK, Integrity, [Next]_vars
    PROVE  TypeOK'
<1> DEFINE Held(h) == h.pc \in {"body", "store"} => h.app \in AppRow
           HandlersTyped == /\ handler \in [Conns -> Handler]
                            /\ \A d \in Conns : Held(handler[d])
<1>1. ASSUME NEW c \in Conns, NEW frame \in Handler, Held(frame), Goto(c, frame)
      PROVE  HandlersTyped'
  BY <1>1 DEF Goto, TypeOK
<1>2. ASSUME NEW c \in Conns, NEW code \in {200, 201, 401, 429, 500}, Answering(c, code)
      PROVE  HandlersTyped'
  BY <1>1, <1>2, FrameTypes DEF Answering, Frame
<1>3. HandlersTyped'
  <2>1. ASSUME NEW c \in Conns, Arrive(c) PROVE HandlersTyped'
    BY <2>1, <1>1, FrameTypes DEF Arrive, Frame
  <2>2. ASSUME NEW c \in Conns, Authenticate(c) PROVE HandlersTyped'
    <3> DEFINE found == AppsByKey(db, KeyOf[Owner[c]])
    <3>1. CASE found = {}
      BY <2>2, <3>1, <1>2 DEF Authenticate
    <3>2. CASE found # {}
      <4>1. (CHOOSE a \in found : TRUE) \in AppRow
        BY <3>2 DEF AppsByKey, TypeOK, StoreTypeOK
      <4> QED
        BY <2>2, <3>2, <4>1, <1>1, FrameTypes DEF Authenticate, Frame
    <3> QED
      BY <3>1, <3>2
  <2>3. ASSUME NEW c \in Conns, ReadBody(c) PROVE HandlersTyped'
    <3>1. handler[c].app \in AppRow /\ clock \in Times
      BY <2>3 DEF ReadBody, TypeOK
    <3> QED
      BY <2>3, <3>1, <1>1, FrameTypes DEF ReadBody, Frame
  <2>4. ASSUME NEW c \in Conns, Refuse(c) \/ StoreReport(c) \/ Fail(c) PROVE HandlersTyped'
    BY <2>4, <1>2 DEF Refuse, StoreReport, Fail
  <2>5. ASSUME NEW c \in Conns, Answer(c) \/ LoseAnswer(c) PROVE HandlersTyped'
    BY <2>5, <1>1, FrameTypes DEF Answer, LoseAnswer, Idle, Frame
  <2>6. CASE Crash
    BY <2>6, FrameTypes DEF Crash, Idle, Frame
  <2>7. CASE Tick \/ Admin \/ UNCHANGED vars
    <3>1. UNCHANGED handler
      BY <2>7 DEF Tick, Admin, vars, AdminOp, submitCreateApp, submitRotateKey,
                  submitDeleteApp, submitIssueStatus, submitDeleteIssue, submitDeleteReport
    <3> QED
      BY <3>1 DEF TypeOK
  <2> QED
    BY <2>1, <2>2, <2>3, <2>4, <2>5, <2>6, <2>7 DEF Next, Serve
<1>4. acked' \subseteq Rids /\ gone' \subseteq Rids
  <2>1. CASE \E c \in Conns : Answer(c)
    BY <2>1, IngestServerAssumption DEF Answer, TypeOK
  <2>2. CASE Admin
    <3>1. acked' = acked /\ gone' = gone \cup (RidsOf(db.reports) \ RidsOf(db'.reports))
      BY <2>2 DEF Admin, AdminOp, submitCreateApp, submitRotateKey,
                  submitDeleteApp, submitIssueStatus, submitDeleteIssue, submitDeleteReport
    <3>2. RidsOf(db.reports) \subseteq Rids
      BY DEF RidsOf, TypeOK, StoreTypeOK, ReportRow
    <3> QED
      BY <3>1, <3>2 DEF TypeOK
  <2> QED
    BY <2>1, <2>2 DEF Next, Serve, Arrive, Refuse, Authenticate, ReadBody, StoreReport, Fail,
                      LoseAnswer, Crash, Tick, vars, TypeOK
<1>5. clock' \in Times /\ adminOps' \in 0..MaxAdminOps /\ faults' \in 0..MaxFaults
  <2>1. CASE Admin
    BY <2>1, IngestServerAssumption
       DEF Admin, AdminOp, TypeOK, submitCreateApp, submitRotateKey,
           submitDeleteApp, submitIssueStatus, submitDeleteIssue, submitDeleteReport
  <2> QED
    BY <2>1, IngestServerAssumption
       DEF Next, Serve, Arrive, Refuse, Authenticate, ReadBody, StoreReport, Fail, Fault,
           Answer, LoseAnswer, Crash, Tick, vars, TypeOK
<1> QED
  BY <1>3, <1>4, <1>5, SchemaCarriesOver DEF TypeOK

-----------------------------------------------------------------------------
(* No accepted report is lost *)

\* What the phones are promised: the report is in the store, or the admin has
\* deleted it.
Kept(rid) == Stored(db, rid) \/ rid \in gone

AcceptedBy(c) == handler[c].pc = "answer" /\ Accepted(handler[c].code)

\* A report leaves the store only into gone, and stays there.
LEMMA KeptStaysKept ==
    ASSUME TypeOK, [Next]_vars, NEW rid, Kept(rid)
    PROVE  Kept(rid)'
<1>1. CASE Admin
  <2>1. gone' = gone \cup (RidsOf(db.reports) \ RidsOf(db'.reports))
    BY <1>1 DEF Admin, AdminOp, submitCreateApp, submitRotateKey,
                submitDeleteApp, submitIssueStatus, submitDeleteIssue, submitDeleteReport
  <2>2. Stored(db, rid) <=> rid \in RidsOf(db.reports)
    BY DEF Stored, RidsOf
  <2>3. Stored(db', rid) <=> rid \in RidsOf(db'.reports)
    BY DEF Stored, RidsOf
  <2> QED
    BY <2>1, <2>2, <2>3 DEF Kept
<1>2. ASSUME NEW c \in Conns, StoreReport(c) PROVE Kept(rid)'
  <2>1. gone' = gone /\ db.reports \subseteq db'.reports
    BY <1>2 DEF StoreReport, Ingest, IngestReport, storeVars, TypeOK, StoreTypeOK
  <2> QED
    BY <2>1 DEF Kept, Stored
<1> QED
  BY <1>1, <1>2 DEF Kept, Next, Serve, Arrive, Refuse, Authenticate, ReadBody, Fail, Answer,
                    LoseAnswer, Crash, Tick, vars

\* A handler comes to answer 2xx only by IngestReport, which leaves the report
\* stored; it answers 201 only if the report was not there before, and no
\* other handler moves.
LEMMA AcceptanceIsByCommit ==
    ASSUME TypeOK, [Next]_vars, NEW c \in Conns, AcceptedBy(c)',
           handler'[c] # handler[c]
    PROVE  /\ Stored(db', Owner[c])
           /\ handler'[c].code = 201 => ~Stored(db, Owner[c])
           /\ \A d \in Conns \ {c} : handler'[d] = handler[d]
<1>1. PICK d \in Conns : \/ Arrive(d) \/ Refuse(d) \/ Serve(d) \/ Fail(d) \/ LoseAnswer(d)
                        \/ Crash
  BY DEF Next, Tick, vars, Admin, AdminOp, submitCreateApp, submitRotateKey,
         submitDeleteApp, submitIssueStatus, submitDeleteIssue, submitDeleteReport
<1>2. ~Crash
  BY DEF Crash, Idle, Frame, AcceptedBy
<1>3. ASSUME NEW frame, Goto(d, frame)
      PROVE  c = d /\ handler'[c] = frame /\ \A e \in Conns \ {c} : handler'[e] = handler[e]
  BY <1>3 DEF Goto, TypeOK
<1>4. ~Arrive(d) /\ ~Answer(d) /\ ~LoseAnswer(d) /\ ~ReadBody(d)
  BY <1>3 DEF Arrive, Answer, LoseAnswer, ReadBody, Idle, Frame, AcceptedBy
<1>5. ~Refuse(d) /\ ~Fail(d) /\ ~Authenticate(d)
  BY <1>3 DEF Refuse, Fail, Authenticate, Answering, Frame, AcceptedBy, Accepted
<1>6. StoreReport(d)
  BY <1>1, <1>2, <1>4, <1>5 DEF Serve
<1>7. CASE /\ Ingest(Owner[d], handler[d].app.id, HashOf[Owner[d]], handler[d].at)
           /\ Answering(d, 201)
  <2>1. c = d /\ \A e \in Conns \ {c} : handler'[e] = handler[e]
    BY <1>3, <1>7 DEF Answering
  <2>2. ~Stored(db, Owner[d]) /\ Stored(db', Owner[d])
    <3> DEFINE row == [id |-> Owner[d], app |-> handler[d].app.id,
                       issue |-> UpsertedId(db.issues, handler[d].app.id, HashOf[Owner[d]]),
                       hash |-> HashOf[Owner[d]], at |-> handler[d].at]
    <3>1. ~Stored(db, Owner[d]) /\ row \in db'.reports
      BY <1>7 DEF Ingest, IngestReport, TypeOK, StoreTypeOK
    <3>2. row.id = Owner[d]
      OBVIOUS
    <3> QED
      BY <3>1, <3>2 DEF Stored
  <2> QED
    BY <2>1, <2>2
<1>8. CASE Stored(db, Owner[d]) /\ Answering(d, 200) /\ UNCHANGED storeVars
  <2>1. c = d /\ handler'[c].code = 200 /\ \A e \in Conns \ {c} : handler'[e] = handler[e]
    BY <1>3, <1>8 DEF Answering, Frame
  <2> QED
    BY <1>8, <2>1 DEF storeVars
<1>9. ~Answering(d, 500)
  BY <1>3 DEF Answering, Frame, AcceptedBy, Accepted
<1> QED
  BY <1>6, <1>7, <1>8, <1>9 DEF StoreReport

\* One step keeps AcceptedIsStored.
LEMMA AcceptedStaysStored ==
    ASSUME TypeOK, AcceptedIsStored, [Next]_vars
    PROVE  AcceptedIsStored'
<1>1. ASSUME NEW rid \in Rids, rid \in acked' PROVE Kept(rid)'
  <2>1. CASE rid \in acked
    BY <2>1, KeptStaysKept DEF AcceptedIsStored, Kept
  <2>2. CASE rid \notin acked
    <3>1. PICK c \in Conns : Answer(c) /\ Accepted(handler[c].code) /\ Owner[c] = rid
      BY <1>1, <2>2 DEF Next, Serve, Arrive, Refuse, Authenticate, ReadBody, StoreReport, Fail,
            Answer, LoseAnswer, Crash, Tick, vars, Admin, AdminOp, submitCreateApp,
            submitRotateKey, submitDeleteApp, submitIssueStatus, submitDeleteIssue,
            submitDeleteReport
    <3>2. Kept(rid)
      BY <3>1 DEF AcceptedIsStored, Answer, Kept
    <3> QED
      BY <3>2, KeptStaysKept
  <2> QED
    BY <2>1, <2>2
<1>2. ASSUME NEW c \in Conns, AcceptedBy(c)' PROVE Kept(Owner[c])'
  <2>1. CASE handler'[c] = handler[c]
    <3>1. Kept(Owner[c])
      BY <1>2, <2>1, IngestServerAssumption DEF AcceptedIsStored, AcceptedBy, Kept
    <3> QED
      BY <3>1, KeptStaysKept
  <2>2. CASE handler'[c] # handler[c]
    BY <1>2, <2>2, AcceptanceIsByCommit DEF Kept
  <2> QED
    BY <2>1, <2>2
<1> QED
  BY <1>1, <1>2 DEF AcceptedIsStored, AcceptedBy, Kept

\* One step keeps CreatedOnce: the handler that answers 201 next has found the
\* report absent, which AcceptedIsStored excuses only by a deletion.
LEMMA StaysCreatedOnce ==
    ASSUME TypeOK, AcceptedIsStored, CreatedOnce, [Next]_vars
    PROVE  CreatedOnce'
<1> DEFINE Created(c) == handler[c].pc = "answer" /\ handler[c].code = 201
<1>1. gone \subseteq gone'
  BY DEF Next, Serve, Arrive, Refuse, Authenticate, ReadBody, StoreReport, Fail,
         Answer, LoseAnswer, Crash, Tick, vars, Admin, AdminOp, submitCreateApp,
         submitRotateKey, submitDeleteApp, submitIssueStatus, submitDeleteIssue,
         submitDeleteReport
<1>2. ASSUME NEW c \in Conns, NEW d \in Conns, c # d, Owner[c] = Owner[d],
             Created(c)', Created(d)', handler'[c] # handler[c]
      PROVE  Owner[c] \in gone'
  <2>1. ~Stored(db, Owner[c]) /\ handler'[d] = handler[d]
    BY <1>2, AcceptanceIsByCommit DEF AcceptedBy, Accepted
  <2>2. Owner[d] \in gone
    BY <1>2, <2>1, IngestServerAssumption DEF AcceptedIsStored, Accepted
  <2> QED
    BY <1>1, <1>2, <2>2
<1> QED
  BY <1>1, <1>2 DEF CreatedOnce

-----------------------------------------------------------------------------
(* The theorems *)

\* The invariant holds at the start, when no phone has a key.
LEMMA IngestInvInit ==
    ASSUME Init
    PROVE  IngestInv
<1>1. StoreTypeOK /\ Integrity
  BY InitEstablishes DEF Init
<1>2. TypeOK
  BY <1>1, FrameTypes, IngestServerAssumption DEF Init, TypeOK, Idle, Frame
<1> QED
  BY <1>1, <1>2 DEF IngestInv, Init, AcceptedIsStored, CreatedOnce, Idle, Frame

\* And it is inductive.
LEMMA IngestInvStep ==
    ASSUME IngestInv, [Next]_vars
    PROVE  IngestInv'
BY TypesKeep, SchemaCarriesOver, AcceptedStaysStored, StaysCreatedOnce DEF IngestInv

\* The state of the server is typed, its handlers hold the apps they have read.
THEOREM ServerIsTyped == Spec => []TypeOK
<1>1. Init => IngestInv
  BY IngestInvInit
<1>2. IngestInv /\ [Next]_vars => IngestInv'
  BY IngestInvStep
<1>3. IngestInv => TypeOK
  BY DEF IngestInv
<1> QED
  BY <1>1, <1>2, <1>3, PTL DEF Spec

\* The schema of the store survives interleaved handlers and crashes.
THEOREM ServerKeepsIntegrity == Spec => []Integrity
<1>1. Init => IngestInv
  BY IngestInvInit
<1>2. IngestInv /\ [Next]_vars => IngestInv'
  BY IngestInvStep
<1>3. IngestInv => Integrity
  BY DEF IngestInv
<1> QED
  BY <1>1, <1>2, <1>3, PTL DEF Spec

\* No report is lost once the server has accepted it.
THEOREM NoAcceptedReportIsLost == Spec => []AcceptedIsStored
<1>1. Init => IngestInv
  BY IngestInvInit
<1>2. IngestInv /\ [Next]_vars => IngestInv'
  BY IngestInvStep
<1>3. IngestInv => AcceptedIsStored
  BY DEF IngestInv
<1> QED
  BY <1>1, <1>2, <1>3, PTL DEF Spec

\* Of the attempts under way at once, one creates the report.
THEOREM ReportIsCreatedOnce == Spec => []CreatedOnce
<1>1. Init => IngestInv
  BY IngestInvInit
<1>2. IngestInv /\ [Next]_vars => IngestInv'
  BY IngestInvStep
<1>3. IngestInv => CreatedOnce
  BY DEF IngestInv
<1> QED
  BY <1>1, <1>2, <1>3, PTL DEF Spec

=============================================================================
