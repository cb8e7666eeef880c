--------------------------- MODULE SessionsProofs ---------------------------
(***************************************************************************)
(* For any number of requests and tokens, any length of a second and of a  *)
(* session, and any losses and failures of the store: a session that was   *)
(* logged out is over, and the pruner takes no session that is valid.      *)
(*                                                                         *)
(* The row of a token that was logged out is gone and stays gone           *)
(* (GoneForGood), because only the request that has drawn a token inserts  *)
(* its row, and until it does nobody else has the token (Unused).  The     *)
(* pruner's time is not ahead of the clock, and whole seconds are counted  *)
(* alike where a session is checked and where it is pruned (WholeSeconds). *)
(* While requests do not overlap, the time that a request has taken is not *)
(* behind the expiry that the browser was given for its token, so that the *)
(* row is written no earlier than the cookie (RowsOutliveCookies).         *)
(* What the pruner takes is, for any length of a second, what ValidSession *)
(* has stopped accepting (PrunerTakesExpired).                             *)
(***************************************************************************)
EXTENDS Sessions, TLAPS

\* Cutting a time to whole seconds never takes it ahead.
LEMMA WholeSeconds ==
    ASSUME NEW x \in Nat, NEW s \in Nat \ {0}
    PROVE  x \div s \in Nat /\ (x \div s) * s <= x
OBVIOUS

LEMMA TruncatedIsNat ==
    ASSUME NEW x \in Nat PROVE Truncated(x) \in Nat
BY WholeSeconds, SessionsAssumption DEF Truncated

\* The token that a request works with, if any.
TokenOf(q) ==
    IF q.pc \in {"login", "check", "touch", "serve"} THEN {q.token}
    ELSE IF q.pc = "answer" /\ q.does = "set" THEN {q.cookie.token} ELSE {}

JarToken == IF jar = None THEN {} ELSE {jar.token}

\* Tokens in use have been drawn; one that has just been drawn is nobody else's.
Unused ==
    /\ JarToken \subseteq minted
    /\ \A r \in Requests : TokenOf(req[r]) \subseteq minted
    /\ \A r \in Requests : req[r].pc = "login" =>
          /\ req[r].token \notin loggedOut \cup JarToken
          /\ \A s \in Requests \ {r} : req[r].token \notin TokenOf(req[s])

GoneForGood == \A t \in loggedOut : rows[t] = None

\* What a request knows of its session's logout when it is checked.
LateIsLoggedOut ==
    \A r \in Requests : req[r].pc = "check" /\ req[r].late => req[r].token \in loggedOut

PrunerIsBehind == pruneAt # None => pruneAt <= now

SessionsInv ==
    /\ TypeOK
    /\ Unused
    /\ GoneForGood
    /\ LateIsLoggedOut
    /\ LogoutEndsSession
    /\ PrunerIsBehind

-----------------------------------------------------------------------------
\* The kinds of request, by how far they are.
LEMMA RequestKinds ==
    ASSUME NEW q \in Request
    PROVE  /\ q.pc = "login" => q.token \in Tokens /\ q.at \in Nat
           /\ q.pc \in {"check", "touch", "serve"} =>
                 q \in [pc : {"check", "touch", "serve"}, token : Tokens,
                        form : Tokens \cup {None}, at : Nat, late : BOOLEAN]
           /\ q.pc = "answer" /\ q.does = "set" => q.cookie \in Cookies
           /\ TokenOf(q) \subseteq Tokens
BY DEF Request, TokenOf, Idle, Cookies

LEMMA NewRequests ==
    /\ Idle \in Request /\ Keeps \in Request /\ Clears \in Request
    /\ \A t \in Tokens, at \in Nat : Login(t, at) \in Request
    /\ \A t \in Tokens, f \in Tokens \cup {None}, at \in Nat : Arrived(t, f, at) \in Request
    /\ \A t \in Tokens, at \in Nat : Cookie(t, at) \in Cookies
BY TruncatedIsNat DEF Request, Idle, Keeps, Clears, Login, Arrived, Cookie, Cookies

\* A request goes on with its own token, or with the browser's; what is logged
\* out is its own.
LEMMA BecomeKeepsUnused ==
    ASSUME Unused, NEW r \in Requests, NEW q, req \in [Requests -> Request],
           Become(r, q), q.pc # "login",
           TokenOf(q) \subseteq TokenOf(req[r]) \cup JarToken,
           UNCHANGED minted,
           JarToken' \subseteq JarToken \cup TokenOf(req[r]),
           loggedOut' \subseteq loggedOut \cup TokenOf(req[r])
    PROVE  Unused'
<1>1. req'[r] = q /\ \A s \in Requests \ {r} : req'[s] = req[s]
  BY DEF Become
<1>2. \A s \in Requests : TokenOf(req'[s]) \subseteq minted'
  BY <1>1 DEF Unused
<1>3. ASSUME NEW s \in Requests, req'[s].pc = "login"
      PROVE  /\ req'[s].token \notin loggedOut' \cup JarToken'
             /\ \A u \in Requests \ {s} : req'[s].token \notin TokenOf(req'[u])
  <2>1. s # r /\ req'[s] = req[s]
    BY <1>1, <1>3
  <2>2. req[s].token \notin TokenOf(req[r]) /\ req[s].token \notin loggedOut \cup JarToken
    BY <1>3, <2>1 DEF Unused
  <2>3. ASSUME NEW u \in Requests \ {s} PROVE req'[s].token \notin TokenOf(req'[u])
    <3>1. CASE u = r
      BY <1>1, <2>1, <2>2, <3>1
    <3>2. CASE u # r
      BY <1>1, <1>3, <2>1, <3>2 DEF Unused
    <3> QED
      BY <3>1, <3>2
  <2> QED
    BY <2>1, <2>2, <2>3
<1>4. TokenOf(req[r]) \subseteq minted /\ JarToken \subseteq minted
  BY DEF Unused
<1> QED
  BY <1>2, <1>3, <1>4 DEF Unused

\* What a step leaves alone of the history.
LEMMA StepLeavesRest ==
    ASSUME SessionsInv, UNCHANGED <<req, minted, jar, loggedOut>>
    PROVE  Unused' /\ LateIsLoggedOut' /\ LogoutEndsSession'
BY DEF SessionsInv, Unused, JarToken, LateIsLoggedOut, LogoutEndsSession

\* The same for all that is said of the requests.
LEMMA BecomeKeepsRequests ==
    ASSUME SessionsInv, NEW r \in Requests, NEW q \in Request,
           Become(r, q), q.pc # "login",
           TokenOf(q) \subseteq TokenOf(req[r]) \cup JarToken,
           UNCHANGED minted,
           JarToken' \subseteq JarToken \cup TokenOf(req[r]),
           loggedOut' \subseteq loggedOut \cup TokenOf(req[r]),
           loggedOut \subseteq loggedOut',
           q.pc = "check" /\ q.late => q.token \in loggedOut',
           q.pc \in {"touch", "serve"} => ~q.late
    PROVE  /\ Unused' /\ LateIsLoggedOut' /\ LogoutEndsSession'
           /\ req' \in [Requests -> Request]
<1>1. req'[r] = q /\ \A s \in Requests \ {r} : req'[s] = req[s]
  BY DEF Become, SessionsInv, TypeOK
<1>2. Unused'
  BY BecomeKeepsUnused DEF SessionsInv, TypeOK
<1>3. LateIsLoggedOut' /\ LogoutEndsSession'
  <2>1. ASSUME NEW s \in Requests
        PROVE  /\ req'[s].pc = "check" /\ req'[s].late => req'[s].token \in loggedOut'
               /\ req'[s].pc \in {"touch", "serve"} => ~req'[s].late
    BY <1>1 DEF SessionsInv, LateIsLoggedOut, LogoutEndsSession
  <2> QED
    BY <2>1 DEF LateIsLoggedOut, LogoutEndsSession
<1> QED
  BY <1>2, <1>3 DEF Become, SessionsInv, TypeOK

\* The types of the rest, and what is said of the rows, where a step leaves the
\* rows, the tokens and the pruner alone.
RestTyped ==
    /\ overlap \in BOOLEAN /\ now \in Nat
    /\ losses \in 0..MaxLosses /\ errors \in 0..MaxErrors

RowsTyped ==
    /\ rows \in [Tokens -> Nat \cup {None}]
    /\ \A t \in Tokens \ minted : rows[t] = None

\* Counting a loss or a failure.
LEMMA CountersTyped ==
    /\ TypeOK /\ Loss => losses' \in 0..MaxLosses
    /\ TypeOK /\ errors' = errors + 1 /\ errors < MaxErrors => errors' \in 0..MaxErrors
BY SessionsAssumption DEF Loss, TypeOK

\* A row that is gone stays gone under the statements of sessions.go but the
\* INSERT.
LEMMA StatementsKeepGone ==
    ASSUME SessionsInv, UNCHANGED minted,
           \/ \E t \in Tokens, until \in Nat : TouchSession(t, until) /\ UNCHANGED loggedOut
           \/ \E t \in minted : DeleteSession(t) /\ loggedOut' = loggedOut \cup {t}
           \/ \E at \in Nat : PruneSessions(at) /\ UNCHANGED loggedOut
           \/ UNCHANGED <<rows, loggedOut>>
    PROVE  RowsTyped' /\ GoneForGood' /\ loggedOut' \subseteq minted'
<1> USE DEF SessionsInv, TypeOK, RowsTyped, GoneForGood
<1>1. ASSUME NEW t \in Tokens, NEW until \in Nat, TouchSession(t, until), UNCHANGED loggedOut
      PROVE  RowsTyped' /\ GoneForGood' /\ loggedOut' \subseteq minted'
  BY <1>1, TruncatedIsNat DEF TouchSession
<1>2. ASSUME NEW t \in minted, DeleteSession(t), loggedOut' = loggedOut \cup {t}
      PROVE  RowsTyped' /\ GoneForGood' /\ loggedOut' \subseteq minted'
  BY <1>2 DEF DeleteSession
<1>3. ASSUME NEW at \in Nat, PruneSessions(at), UNCHANGED loggedOut
      PROVE  RowsTyped' /\ GoneForGood' /\ loggedOut' \subseteq minted'
  BY <1>3 DEF PruneSessions
<1> QED
  BY <1>1, <1>2, <1>3

-----------------------------------------------------------------------------
(* Each action keeps the invariant *)

\* A server without requests.
LEMMA QuietKeeps ==
    ASSUME req = [r \in Requests |-> Idle], JarToken \subseteq minted
    PROVE  /\ req \in [Requests -> Request]
           /\ Unused /\ LateIsLoggedOut /\ LogoutEndsSession
<1>1. \A r \in Requests : req[r].pc = "idle" /\ TokenOf(req[r]) = {}
  BY DEF Idle, TokenOf
<1> QED
  BY <1>1, NewRequests DEF Unused, LateIsLoggedOut, LogoutEndsSession

LEMMA SessionsInvInit == Init => SessionsInv
<1> SUFFICES ASSUME Init PROVE SessionsInv
  OBVIOUS
<1>1. req = [r \in Requests |-> Idle] /\ JarToken \subseteq minted
  BY DEF Init, JarToken
<1>2. RowsTyped /\ GoneForGood /\ PrunerIsBehind
  BY Zenon DEF Init, RowsTyped, GoneForGood, PrunerIsBehind
<1>3. RestTyped
  <2>1. overlap = FALSE /\ now = 0 /\ losses = 0 /\ errors = 0
    BY Zenon DEF Init
  <2>2. now \in Nat /\ losses \in 0..MaxLosses /\ errors \in 0..MaxErrors
    BY <2>1, SessionsAssumption
  <2> QED
    BY <2>1, <2>2, Zenon DEF RestTyped
<1> QED
  BY <1>1, <1>2, <1>3, QuietKeeps DEF Init, SessionsInv, TypeOK, RowsTyped, RestTyped

\* A token is drawn: it is in no request and in no cookie.
LEMMA LoginKeeps ==
    ASSUME SessionsInv, NEW r \in Requests, submitLogin(r)
    PROVE  SessionsInv'
<1>1. PICK token \in Tokens \ minted :
             minted' = minted \cup {token} /\ Become(r, Login(token, now + TTL))
  BY DEF submitLogin
<1>2. Login(token, now + TTL) \in Request
  BY NewRequests, SessionsAssumption DEF SessionsInv, TypeOK
<1>3. /\ req'[r] = Login(token, now + TTL)
      /\ \A s \in Requests \ {r} : req'[s] = req[s]
      /\ req' \in [Requests -> Request]
  BY <1>1, <1>2 DEF Become, SessionsInv, TypeOK
<1>4. TokenOf(req'[r]) = {token} /\ req'[r].pc = "login" /\ req'[r].token = token
  BY <1>3 DEF TokenOf, Login
<1>5. UNCHANGED <<rows, jar, pruneAt, loggedOut, now, losses, errors>> /\ overlap' \in BOOLEAN
  BY DEF submitLogin, Overlaps, SessionsInv, TypeOK
<1>6. Unused'
  <2>1. JarToken' = JarToken
    BY <1>5 DEF JarToken
  <2>2. ASSUME NEW s \in Requests PROVE TokenOf(req'[s]) \subseteq minted'
    BY <1>1, <1>3, <1>4 DEF SessionsInv, Unused
  <2>3. ASSUME NEW s \in Requests, req'[s].pc = "login"
        PROVE  /\ req'[s].token \notin loggedOut' \cup JarToken'
               /\ \A u \in Requests \ {s} : req'[s].token \notin TokenOf(req'[u])
    <3>1. CASE s = r
      BY <1>3, <1>4, <1>5, <2>1, <3>1 DEF SessionsInv, Unused, TypeOK
    <3>2. CASE s # r
      <4>1. req'[s] = req[s] /\ TokenOf(req[s]) = {req[s].token}
        BY <1>3, <2>3, <3>2 DEF TokenOf
      <4>2. req[s].token # token
        BY <4>1 DEF SessionsInv, Unused
      <4> QED
        BY <1>3, <1>4, <1>5, <2>1, <2>3, <4>1, <4>2 DEF SessionsInv, Unused
    <3> QED
      BY <3>1, <3>2
  <2> QED
    BY <1>1, <2>1, <2>2, <2>3 DEF SessionsInv, Unused
<1>7. LateIsLoggedOut' /\ LogoutEndsSession'
  BY <1>3, <1>4, <1>5 DEF SessionsInv, LateIsLoggedOut, LogoutEndsSession
<1>8. RowsTyped' /\ RestTyped' /\ GoneForGood' /\ PrunerIsBehind' /\ minted' \subseteq Tokens
  BY <1>1, <1>5 DEF SessionsInv, TypeOK, RowsTyped, RestTyped, GoneForGood, PrunerIsBehind
<1> QED
  BY <1>1, <1>3, <1>5, <1>6, <1>7, <1>8 DEF SessionsInv, TypeOK, RowsTyped, RestTyped

\* What each step of a handler has of the invariant before it.
LEMMA InvParts ==
    ASSUME SessionsInv
    PROVE  /\ RowsTyped /\ RestTyped /\ GoneForGood /\ PrunerIsBehind
           /\ minted \subseteq Tokens /\ jar \in Cookies \cup {None}
           /\ req \in [Requests -> Request] /\ pruneAt \in Nat \cup {None}
           /\ loggedOut \subseteq minted
BY DEF SessionsInv, TypeOK, RowsTyped, RestTyped

\* The INSERT: the token is nobody else's yet.
LEMMA CreateSessionKeeps ==
    ASSUME SessionsInv, NEW r \in Requests, CreateSession(r)
    PROVE  SessionsInv'
<1> DEFINE q == req[r]
<1>0. UNCHANGED <<minted, jar, pruneAt, loggedOut, overlap, now, losses>>
  BY DEF CreateSession
<1>1. q.pc = "login" /\ q.token \in Tokens /\ q.at \in Nat /\ TokenOf(q) = {q.token}
  BY InvParts, RequestKinds DEF CreateSession, TokenOf
<1>2. q.token \in minted \ loggedOut
  BY <1>1 DEF SessionsInv, Unused
<1>3. Sets(q) \in Request /\ Sets(q).pc = "answer" /\ TokenOf(Sets(q)) = {q.token}
  <2>1. Cookie(q.token, q.at) \in Cookies /\ Cookie(q.token, q.at).token = q.token
    BY <1>1, NewRequests DEF Cookie
  <2> QED
    BY <2>1 DEF Sets, Request, TokenOf
<1>4. Keeps \in Request /\ Keeps.pc = "answer" /\ TokenOf(Keeps) = {}
  BY NewRequests DEF Keeps, TokenOf
<1>5. PICK p \in {Sets(q), Keeps} : Become(r, p)
  BY DEF CreateSession, MayFail
<1>6. Unused' /\ LateIsLoggedOut' /\ LogoutEndsSession' /\ req' \in [Requests -> Request]
  BY <1>0, <1>1, <1>3, <1>4, <1>5, BecomeKeepsRequests DEF JarToken
<1>7. RowsTyped' /\ GoneForGood'
  <2>1. CASE rows' = [rows EXCEPT ![q.token] = Truncated(q.at)]
    BY <1>0, <1>1, <1>2, <2>1, InvParts, TruncatedIsNat DEF RowsTyped, GoneForGood
  <2>2. CASE UNCHANGED rows
    BY <1>0, <2>2, InvParts DEF RowsTyped, GoneForGood
  <2> QED
    BY <2>1, <2>2 DEF CreateSession, MayFail
<1>8. RestTyped' /\ PrunerIsBehind'
  BY <1>0, InvParts, CountersTyped DEF CreateSession, MayFail, RestTyped, PrunerIsBehind, SessionsInv
<1> QED
  BY <1>0, <1>6, <1>7, <1>8, InvParts DEF SessionsInv, TypeOK, RowsTyped, RestTyped

\* A request comes with the browser's token, and knows whether it is over.
LEMMA ArriveKeeps ==
    ASSUME SessionsInv, NEW r \in Requests, Arrive(r)
    PROVE  SessionsInv'
<1>1. PICK form \in minted \cup {None} : Become(r, Arrived(jar.token, form, now))
  BY DEF Arrive
<1>2. /\ UNCHANGED <<rows, minted, jar, pruneAt, loggedOut, now, losses, errors>>
      /\ overlap' \in BOOLEAN /\ jar # None
  BY InvParts DEF Arrive, Overlaps, RestTyped
<1>3. jar.token \in Tokens /\ JarToken = {jar.token}
  BY <1>2, InvParts DEF Cookies, JarToken
<1> DEFINE q == Arrived(jar.token, form, now)
<1>4. q \in Request
  BY <1>3, InvParts, NewRequests DEF RestTyped
<1>5. /\ q.pc = "check" /\ q.token = jar.token /\ q.late = (jar.token \in loggedOut)
      /\ TokenOf(q) = {jar.token}
  BY DEF Arrived, TokenOf
<1>6. Unused' /\ LateIsLoggedOut' /\ LogoutEndsSession' /\ req' \in [Requests -> Request]
  <2> HIDE DEF q
  <2> QED
    BY <1>1, <1>2, <1>3, <1>4, <1>5, BecomeKeepsRequests DEF JarToken, q
<1> QED
  BY <1>2, <1>6, InvParts
     DEF SessionsInv, TypeOK, RowsTyped, RestTyped, GoneForGood, PrunerIsBehind

\* A late request finds no row.
LEMMA CheckKeeps ==
    ASSUME SessionsInv, NEW r \in Requests, Check(r)
    PROVE  SessionsInv'
<1> DEFINE q == req[r]  p == [q EXCEPT !.pc = "touch", !.at = now + TTL]
<1>0. UNCHANGED <<rows, minted, jar, pruneAt, loggedOut, overlap, now, losses>> /\ q.pc = "check"
  BY DEF Check
<1>1. /\ q \in [pc : {"check", "touch", "serve"}, token : Tokens,
                form : Tokens \cup {None}, at : Nat, late : BOOLEAN]
      /\ now + TTL \in Nat
  BY <1>0, InvParts, RequestKinds, SessionsAssumption DEF RestTyped
<1>2. /\ p \in [pc : {"check", "touch", "serve"}, token : Tokens,
                form : Tokens \cup {None}, at : Nat, late : BOOLEAN]
      /\ p.pc = "touch" /\ p.token = q.token /\ p.late = q.late
  BY <1>1
<1>3. Keeps \in Request /\ Keeps.pc = "answer" /\ TokenOf(Keeps) = {}
  BY NewRequests DEF Keeps, TokenOf
<1>4. RestTyped' /\ PrunerIsBehind' /\ RowsTyped' /\ GoneForGood'
  BY <1>0, InvParts, CountersTyped
     DEF Check, MayFail, RestTyped, PrunerIsBehind, RowsTyped, GoneForGood, SessionsInv
<1>5. Unused' /\ LateIsLoggedOut' /\ LogoutEndsSession' /\ req' \in [Requests -> Request]
  <2>1. CASE Valid(rows[q.token], q.at) /\ Become(r, p)
    <3>1. ~p.late
      BY <1>0, <1>2, <2>1 DEF SessionsInv, LateIsLoggedOut, GoneForGood, Valid
    <3>2. TokenOf(p) = TokenOf(q) /\ p \in Request
      BY <1>0, <1>2 DEF TokenOf, Request
    <3> HIDE DEF p
    <3> QED
      BY <1>0, <1>2, <2>1, <3>1, <3>2, BecomeKeepsRequests DEF JarToken
  <2>2. CASE Become(r, Keeps)
    BY <1>0, <1>3, <2>2, BecomeKeepsRequests DEF JarToken
  <2> QED
    BY <2>1, <2>2 DEF Check, MayFail
<1> QED
  BY <1>0, <1>4, <1>5, InvParts DEF SessionsInv, TypeOK, RowsTyped, RestTyped

LEMMA TouchKeeps ==
    ASSUME SessionsInv, NEW r \in Requests, Touch(r)
    PROVE  SessionsInv'
<1> DEFINE q == req[r]  p == [q EXCEPT !.pc = "serve"]
<1>0. UNCHANGED <<minted, jar, pruneAt, loggedOut, overlap, now, losses>> /\ q.pc = "touch"
  BY DEF Touch
<1>1. q \in [pc : {"check", "touch", "serve"}, token : Tokens,
             form : Tokens \cup {None}, at : Nat, late : BOOLEAN]
  BY <1>0, InvParts, RequestKinds
<1>2. /\ p \in [pc : {"check", "touch", "serve"}, token : Tokens,
                form : Tokens \cup {None}, at : Nat, late : BOOLEAN]
      /\ p.pc = "serve" /\ p.token = q.token /\ p.late = q.late
  BY <1>1
<1>3. RestTyped' /\ PrunerIsBehind'
  BY <1>0, InvParts, CountersTyped DEF Touch, MayFail, RestTyped, PrunerIsBehind, SessionsInv
<1>4. RowsTyped' /\ GoneForGood' /\ loggedOut' \subseteq minted'
  BY <1>0, <1>1, StatementsKeepGone DEF Touch, MayFail
<1>5. ~p.late /\ TokenOf(p) = TokenOf(q) /\ p \in Request
  BY <1>0, <1>2 DEF TokenOf, Request, SessionsInv, LogoutEndsSession
<1>6. Unused' /\ LateIsLoggedOut' /\ LogoutEndsSession' /\ req' \in [Requests -> Request]
  <2>1. Become(r, p)
    BY DEF Touch
  <2> HIDE DEF p
  <2> QED
    BY <1>0, <1>2, <1>5, <2>1, BecomeKeepsRequests DEF JarToken
<1> QED
  BY <1>0, <1>3, <1>4, <1>6, InvParts DEF SessionsInv, TypeOK, RowsTyped, RestTyped

\* The answer of a request whose cookies are to be renewed.
LEMMA ServeKeeps ==
    ASSUME SessionsInv, NEW r \in Requests, Serve(r)
    PROVE  SessionsInv'
<1> DEFINE q == req[r]
<1>0. /\ UNCHANGED <<rows, minted, jar, pruneAt, loggedOut, overlap, now, losses, errors>>
      /\ q.pc = "serve" /\ Become(r, Sets(q))
  BY DEF Serve
<1>1. q.token \in Tokens /\ q.at \in Nat /\ TokenOf(q) = {q.token}
  BY <1>0, InvParts, RequestKinds DEF TokenOf
<1>2. Sets(q) \in Request /\ Sets(q).pc = "answer" /\ TokenOf(Sets(q)) = {q.token}
  <2>1. Cookie(q.token, q.at) \in Cookies /\ Cookie(q.token, q.at).token = q.token
    BY <1>1, NewRequests DEF Cookie
  <2> QED
    BY <2>1 DEF Sets, Request, TokenOf
<1>3. Unused' /\ LateIsLoggedOut' /\ LogoutEndsSession' /\ req' \in [Requests -> Request]
  BY <1>0, <1>1, <1>2, BecomeKeepsRequests DEF JarToken
<1> QED
  BY <1>0, <1>3, InvParts
     DEF SessionsInv, TypeOK, RowsTyped, RestTyped, GoneForGood, PrunerIsBehind

\* The row goes, and the token is one of those that have been drawn.
LEMMA LogoutKeeps ==
    ASSUME SessionsInv, NEW r \in Requests, submitLogout(r)
    PROVE  SessionsInv'
<1> DEFINE q == req[r]
<1>0. /\ UNCHANGED <<minted, jar, pruneAt, overlap, now, losses>>
      /\ q.pc = "serve" /\ Become(r, Clears)
  BY DEF submitLogout
<1>1. q.token \in minted /\ TokenOf(q) = {q.token}
  BY <1>0 DEF TokenOf, SessionsInv, Unused
<1>2. Clears \in Request /\ Clears.pc = "answer" /\ TokenOf(Clears) = {}
  BY NewRequests DEF Clears, TokenOf
<1>3. /\ loggedOut \subseteq loggedOut' /\ loggedOut' \subseteq loggedOut \cup {q.token}
      /\ RowsTyped' /\ GoneForGood' /\ loggedOut' \subseteq minted'
  BY <1>0, <1>1, StatementsKeepGone DEF submitLogout, MayFail
<1>4. Unused' /\ LateIsLoggedOut' /\ LogoutEndsSession' /\ req' \in [Requests -> Request]
  BY <1>0, <1>1, <1>2, <1>3, BecomeKeepsRequests DEF JarToken
<1>5. RestTyped' /\ PrunerIsBehind'
  BY <1>0, InvParts, CountersTyped DEF submitLogout, MayFail, RestTyped, PrunerIsBehind, SessionsInv
<1> QED
  BY <1>0, <1>3, <1>4, <1>5, InvParts DEF SessionsInv, TypeOK, RowsTyped, RestTyped

\* The cookie is one that the browser has had, or the request's own.
LEMMA AnswerKeeps ==
    ASSUME SessionsInv, NEW r \in Requests, Answer(r) \/ LoseAnswer(r)
    PROVE  SessionsInv'
<1>0. /\ UNCHANGED <<rows, minted, pruneAt, loggedOut, overlap, now, errors>>
      /\ req[r].pc = "answer" /\ Become(r, Idle)
  BY DEF Answer, LoseAnswer
<1>1. Idle \in Request /\ Idle.pc = "idle" /\ TokenOf(Idle) = {}
  BY NewRequests DEF Idle, TokenOf
<1>2. jar' \in Cookies \cup {None} /\ JarToken' \subseteq JarToken \cup TokenOf(req[r])
  <2>1. CASE UNCHANGED jar
    BY <2>1, InvParts DEF JarToken
  <2>2. CASE jar' = None
    BY <2>2 DEF JarToken
  <2>3. CASE req[r].does = "set" /\ jar' = req[r].cookie
    <3>1. req[r].cookie \in Cookies /\ TokenOf(req[r]) = {req[r].cookie.token}
      BY <1>0, <2>3, InvParts, RequestKinds DEF TokenOf
    <3> QED
      BY <2>3, <3>1 DEF JarToken
  <2>4. req[r].does \in {"keep", "clear", "set"}
    BY <1>0, InvParts DEF Request, Idle
  <2> QED
    BY <2>1, <2>2, <2>3, <2>4 DEF Answer, LoseAnswer
<1>3. Unused' /\ LateIsLoggedOut' /\ LogoutEndsSession' /\ req' \in [Requests -> Request]
  BY <1>0, <1>1, <1>2, BecomeKeepsRequests
<1>4. RestTyped'
  BY <1>0, InvParts, CountersTyped DEF Answer, LoseAnswer, RestTyped, SessionsInv
<1> QED
  BY <1>0, <1>2, <1>3, <1>4, InvParts
     DEF SessionsInv, TypeOK, RowsTyped, RestTyped, GoneForGood, PrunerIsBehind

\* The pruner, a crash and the clock.
LEMMA ServerKeeps ==
    ASSUME SessionsInv, Wake \/ Prune \/ Crash \/ Tick
    PROVE  SessionsInv'
<1>1. CASE Wake
  <2>1. Unused' /\ LateIsLoggedOut' /\ LogoutEndsSession'
    BY <1>1, StepLeavesRest DEF Wake
  <2> QED
    BY <1>1, <2>1, InvParts
       DEF Wake, SessionsInv, TypeOK, RowsTyped, RestTyped, GoneForGood, PrunerIsBehind
<1>2. CASE Prune
  <2>1. Unused' /\ LateIsLoggedOut' /\ LogoutEndsSession'
    BY <1>2, StepLeavesRest DEF Prune
  <2>2. RowsTyped' /\ GoneForGood'
    BY <1>2, InvParts, StatementsKeepGone DEF Prune, MayFail
  <2>3. RestTyped'
    BY <1>2, InvParts, CountersTyped DEF Prune, MayFail, RestTyped, SessionsInv
  <2> QED
    BY <1>2, <2>1, <2>2, <2>3, InvParts
       DEF Prune, SessionsInv, TypeOK, RowsTyped, RestTyped, PrunerIsBehind
<1>3. CASE Crash
  <2>1. req' = [r \in Requests |-> Idle] /\ (JarToken \subseteq minted)'
    BY <1>3 DEF Crash, SessionsInv, Unused, JarToken
  <2>2. \A r \in Requests : req'[r] = Idle /\ Idle.pc = "idle" /\ TokenOf(Idle) = {}
    BY <2>1 DEF Idle, TokenOf
  <2>3. req' \in [Requests -> Request] /\ Unused' /\ LateIsLoggedOut' /\ LogoutEndsSession'
    BY <2>1, <2>2, NewRequests DEF Unused, LateIsLoggedOut, LogoutEndsSession
  <2>4. losses' \in 0..MaxLosses
    BY <1>3, CountersTyped DEF Crash, SessionsInv
  <2> QED
    BY <1>3, <2>3, <2>4, InvParts
       DEF Crash, SessionsInv, TypeOK, RowsTyped, RestTyped, GoneForGood, PrunerIsBehind
<1>4. CASE Tick
  <2>1. Unused' /\ LateIsLoggedOut' /\ LogoutEndsSession'
    BY <1>4, StepLeavesRest DEF Tick
  <2>2. PrunerIsBehind' /\ RestTyped'
    BY <1>4, InvParts DEF Tick, PrunerIsBehind, RestTyped
  <2> QED
    BY <1>4, <2>1, <2>2, InvParts
       DEF Tick, SessionsInv, TypeOK, RowsTyped, RestTyped, GoneForGood
<1> QED
  BY <1>1, <1>2, <1>3, <1>4

LEMMA SessionsInvNext == SessionsInv /\ [Next]_vars => SessionsInv'
<1> SUFFICES ASSUME SessionsInv, [Next]_vars PROVE SessionsInv'
  OBVIOUS
<1>1. ASSUME NEW r \in Requests, Handle(r) PROVE SessionsInv'
  BY <1>1, LoginKeeps, CreateSessionKeeps, ArriveKeeps, CheckKeeps, TouchKeeps, ServeKeeps,
     LogoutKeeps, AnswerKeeps DEF Handle
<1>2. CASE UNCHANGED vars
  BY <1>2 DEF vars, SessionsInv, TypeOK, Unused, JarToken, GoneForGood, LateIsLoggedOut,
              LogoutEndsSession, PrunerIsBehind
<1> QED
  BY <1>1, <1>2, ServerKeeps DEF Next

LEMMA SpecKeepsSessionsInv == Spec => []SessionsInv
BY SessionsInvInit, SessionsInvNext, PTL DEF Spec

-----------------------------------------------------------------------------
\* The rows, the cookies and the requests have their types, and only tokens
\* that were drawn have rows.
THEOREM SessionsAreTyped == Spec => []TypeOK
<1>1. SessionsInv => TypeOK
  BY DEF SessionsInv
<1> QED
  BY <1>1, SpecKeepsSessionsInv, PTL

\* However many requests of a browser overlap, and whatever is lost or fails: no
\* request that is sent after its session was logged out gets past requireAuth.
THEOREM LogoutIsFinal == Spec => []LogoutEndsSession
<1>1. SessionsInv => LogoutEndsSession
  BY DEF SessionsInv
<1> QED
  BY <1>1, SpecKeepsSessionsInv, PTL

LEMMA Products ==
    /\ \A a, b \in Nat : a * b \in Nat
    /\ \A a, b, c \in Nat : a <= b => a * c <= b * c
OBVIOUS

\* What the pruner takes is expired for ValidSession, too, now and for ever.
LEMMA PrunedAreExpired ==
    ASSUME SessionsInv, pruneAt # None, NEW t \in Pruned(pruneAt)
    PROVE  ~Valid(rows[t], now)
<1>1. pruneAt \in Nat /\ now \in Nat /\ pruneAt <= now /\ Second \in Nat \ {0}
  BY SessionsAssumption DEF SessionsInv, TypeOK, PrunerIsBehind
<1>2. t \in Tokens /\ rows[t] \in Nat /\ rows[t] <= pruneAt \div Second
  BY <1>1 DEF Pruned, Truncated, SessionsInv, TypeOK
<1>3. pruneAt \div Second \in Nat /\ (pruneAt \div Second) * Second <= pruneAt
  BY <1>1, WholeSeconds
<1>4. rows[t] * Second <= (pruneAt \div Second) * Second
  BY <1>1, <1>2, <1>3, Products
<1>5. rows[t] * Second \in Nat /\ (pruneAt \div Second) * Second \in Nat
  BY <1>1, <1>2, <1>3, Products
<1> QED
  BY <1>1, <1>3, <1>4, <1>5 DEF Valid

\* Only a logout and the pruner take a row, and the pruner takes none of a
\* session that is still valid, for any length of a second and any delay of the
\* pruner after it has looked at the clock.
THEOREM PrunerSparesValid == Spec => PruneSparesValid
<1>1. ASSUME SessionsInv, [Next]_vars, NEW t \in Tokens, rows[t] # None, rows'[t] = None
      PROVE  t \in loggedOut' \/ ~Valid(rows[t], now)
  <2>1. CASE UNCHANGED rows
    BY <1>1, <2>1
  <2>2. ASSUME NEW r \in Requests, CreateSession(r)
        PROVE  rows'[t] # None
    <3>1. req[r].at \in Nat
      BY <2>2, InvParts, RequestKinds, <1>1 DEF CreateSession
    <3>2. Truncated(req[r].at) # None
      BY <3>1, TruncatedIsNat, SessionsAssumption
    <3> QED
      BY <1>1, <2>2, <3>2, InvParts DEF CreateSession, MayFail, RowsTyped
  <2>3. ASSUME NEW r \in Requests, Touch(r)
        PROVE  rows'[t] # None
    <3>1. req[r].at \in Nat
      BY <1>1, <2>3, InvParts, RequestKinds DEF Touch
    <3>2. Truncated(req[r].at) # None
      BY <3>1, TruncatedIsNat, SessionsAssumption
    <3> QED
      BY <1>1, <2>3, <3>2, InvParts DEF Touch, TouchSession, MayFail, RowsTyped
  <2>4. ASSUME NEW r \in Requests, submitLogout(r)
        PROVE  t \in loggedOut'
    BY <1>1, <2>4, InvParts DEF submitLogout, DeleteSession, MayFail, RowsTyped
  <2>5. ASSUME Prune
        PROVE  ~Valid(rows[t], now)
    <3>1. t \in Pruned(pruneAt) /\ pruneAt # None
      BY <1>1, <2>5, InvParts DEF Prune, PruneSessions, MayFail
    <3> QED
      BY <1>1, <3>1, PrunedAreExpired
  <2> QED
    BY <1>1, <2>1, <2>2, <2>3, <2>4, <2>5
       DEF Next, Handle, submitLogin, Arrive, Check, Serve, Answer, LoseAnswer, Wake, Crash,
           Tick, vars
<1>2. SessionsInv /\ [Next]_vars =>
         [\A t \in Tokens : rows[t] # None /\ rows'[t] = None
             => t \in loggedOut' \/ ~Valid(rows[t], now)]_vars
  BY <1>1
<1> QED
  BY <1>2, SpecKeepsSessionsInv, PTL DEF Spec, PruneSparesValid

-----------------------------------------------------------------------------
(* The row outlives the cookie *)

\* A later time is not cut to an earlier second.
LEMMA TruncatedIsMonotone ==
    ASSUME NEW x \in Nat, NEW y \in Nat, x <= y
    PROVE  Truncated(x) <= Truncated(y)
<1>1. Second \in Nat \ {0}
  BY SessionsAssumption
<1> QED
  BY <1>1 DEF Truncated

Busy(r) == req[r].pc # "idle"

\* No row holds less than this cookie.
Backed(cookie) == rows[cookie.token] # None => rows[cookie.token] >= cookie.until

\* While requests do not overlap and the store does not fail: the one request
\* there is has an expiry that is later than the browser's, and what is on the
\* way to the browser is in the row already.
OneAtATime ==
    /\ \A r, s \in Requests : Busy(r) /\ Busy(s) => r = s
    /\ jar # None => jar.until <= Truncated(now + TTL) /\ Backed(jar)
    /\ \A r \in Requests :
          LET q == req[r] IN
          /\ q.pc \in {"login", "touch", "serve"} => q.at <= now + TTL
          /\ q.pc = "touch" /\ jar # None => jar.until <= Truncated(q.at)
          /\ q.pc = "serve" => Backed(Cookie(q.token, q.at))
          /\ q.pc = "answer" /\ q.does = "set" =>
                q.cookie.until <= Truncated(now + TTL) /\ Backed(q.cookie)

OutlivesInv == ~overlap /\ errors = 0 => OneAtATime

\* What holds of the times.
LEMMA TimesTyped ==
    ASSUME SessionsInv
    PROVE  now \in Nat /\ TTL \in Nat /\ now + TTL \in Nat /\ Truncated(now + TTL) \in Nat
BY SessionsAssumption, TruncatedIsNat DEF SessionsInv, TypeOK

\* A request that comes in, when it is alone, finds all others idle.
LEMMA ArrivesAlone ==
    ASSUME NEW r \in Requests, Overlaps(r), ~overlap'
    PROVE  ~overlap /\ \A s \in Requests \ {r} : ~Busy(s)
BY DEF Overlaps, Busy

\* Nobody fails and nobody overlaps now if nobody has after the step.
LEMMA FaultsAreRemembered ==
    ASSUME SessionsInv, [Next]_vars, ~overlap', errors' = 0
    PROVE  ~overlap /\ errors = 0
<1>1. errors \in Nat /\ (errors' = errors \/ errors' = errors + 1)
  <2>1. errors \in Nat
    BY SessionsAssumption DEF SessionsInv, TypeOK
  <2>2. ASSUME NEW r \in Requests, Handle(r) PROVE errors' = errors \/ errors' = errors + 1
    <3>1. CASE submitLogin(r) \/ Arrive(r) \/ Serve(r) \/ Answer(r) \/ LoseAnswer(r)
      BY <3>1 DEF submitLogin, Arrive, Serve, Answer, LoseAnswer
    <3>2. CASE CreateSession(r)
      BY <3>2, Zenon DEF CreateSession, MayFail
    <3>3. CASE Check(r)
      BY <3>3, Zenon DEF Check, MayFail
    <3>4. CASE Touch(r)
      BY <3>4, Zenon DEF Touch, MayFail
    <3>5. CASE submitLogout(r)
      BY <3>5, Zenon DEF submitLogout, MayFail
    <3> QED
      BY <2>2, <3>1, <3>2, <3>3, <3>4, <3>5 DEF Handle
  <2>3. CASE Wake \/ Crash \/ Tick \/ UNCHANGED vars
    BY <2>3 DEF Wake, Crash, Tick, vars
  <2>4. CASE Prune
    BY <2>1, <2>4, Zenon DEF Prune, MayFail
  <2> QED
    BY <2>1, <2>2, <2>3, <2>4 DEF Next
<1>2. UNCHANGED overlap \/ \E r \in Requests : Overlaps(r)
  BY DEF Next, vars, Handle, submitLogin, CreateSession, Arrive, Check, Touch,
         Serve, submitLogout, Answer, LoseAnswer, Wake, Prune, Crash, Tick
<1> QED
  BY <1>1, <1>2, ArrivesAlone

\* A step of the one request there is: nothing is said of the others.
LEMMA OthersAreIdle ==
    ASSUME OneAtATime, NEW r \in Requests, req \in [Requests -> Request], NEW q, Become(r, q),
           \A s \in Requests \ {r} : ~Busy(s)
    PROVE  /\ req'[r] = q
           /\ \A s \in Requests \ {r} : req'[s].pc = "idle"
           /\ \A s, u \in Requests : Busy(s)' /\ Busy(u)' => s = u
<1>1. req'[r] = q /\ \A s \in Requests \ {r} : req'[s] = req[s]
  BY DEF Become
<1>2. \A s \in Requests \ {r} : req'[s].pc = "idle"
  BY <1>1 DEF Busy
<1> QED
  BY <1>1, <1>2 DEF Busy

\* The token of a login is in no cookie and no other request.
LEMMA CreateSessionOutlives ==
    ASSUME SessionsInv, OneAtATime, NEW r \in Requests, CreateSession(r), errors' = errors
    PROVE  OneAtATime'
<1> DEFINE q == req[r]
<1>1. q.pc = "login" /\ q.token \in Tokens /\ q.at \in Nat /\ q.at <= now + TTL
      /\ TokenOf(q) = {q.token} /\ q.token \notin JarToken
  BY InvParts, RequestKinds DEF CreateSession, TokenOf, OneAtATime, SessionsInv, Unused
<1>2. /\ rows' = [rows EXCEPT ![q.token] = Truncated(q.at)] /\ Become(r, Sets(q))
      /\ UNCHANGED <<jar, now>>
  BY InvParts, SessionsAssumption DEF CreateSession, MayFail, RestTyped
<1>3. \A s \in Requests \ {r} : ~Busy(s)
  BY <1>1 DEF OneAtATime, Busy
<1>4. /\ req'[r] = Sets(q) /\ \A s \in Requests \ {r} : req'[s].pc = "idle"
      /\ \A s, u \in Requests : Busy(s)' /\ Busy(u)' => s = u
  BY <1>2, <1>3, InvParts, OthersAreIdle
<1>5. jar # None => jar.until <= Truncated((now + TTL)') /\ Backed(jar)'
  BY <1>1, <1>2, InvParts DEF JarToken, OneAtATime, Backed, RowsTyped, Cookies
<1>6. Truncated(q.at) <= Truncated((now + TTL)') /\ rows'[q.token] = Truncated(q.at)
      /\ Truncated(q.at) \in Nat
  BY <1>1, <1>2, TimesTyped, TruncatedIsNat, TruncatedIsMonotone, InvParts DEF RowsTyped
<1>7. /\ req'[r].pc = "answer" /\ req'[r].does = "set"
      /\ req'[r].cookie.token = q.token /\ req'[r].cookie.until = Truncated(q.at)
  BY <1>4 DEF Sets, Cookie
<1>8. req'[r].cookie.until <= Truncated((now + TTL)') /\ Backed(req[r].cookie)'
  BY <1>6, <1>7 DEF Backed
<1>9. ASSUME NEW s \in Requests
      PROVE  /\ req'[s].pc \notin {"login", "touch", "serve"}
             /\ req'[s].pc = "answer" /\ req'[s].does = "set" =>
                   req'[s].cookie.until <= Truncated((now + TTL)') /\ Backed(req[s].cookie)'
  <2>1. CASE s = r
    BY <1>7, <1>8, <2>1
  <2>2. CASE s # r
    BY <1>4, <2>2
  <2> QED
    BY <2>1, <2>2
<1> QED
  BY <1>2, <1>4, <1>5, <1>9 DEF OneAtATime

\* A request that has come in; the browser's cookie is not later than one that
\* would be given now.
LEMMA ComesInOutlives ==
    ASSUME SessionsInv, OneAtATime, NEW r \in Requests, submitLogin(r) \/ Arrive(r), ~overlap'
    PROVE  OneAtATime'
<1>1. UNCHANGED <<rows, jar, now>> /\ \A s \in Requests \ {r} : ~Busy(s)
  BY ArrivesAlone DEF submitLogin, Arrive
<1>2. PICK q : Become(r, q) /\ ((q.pc = "login" /\ q.at = now + TTL) \/ q.pc = "check")
  <2>1. CASE submitLogin(r)
    <3>1. PICK token : Become(r, Login(token, now + TTL))
      BY <2>1 DEF submitLogin
    <3>2. Login(token, now + TTL).pc = "login" /\ Login(token, now + TTL).at = now + TTL
      BY DEF Login
    <3> QED
      BY <3>1, <3>2
  <2>2. CASE Arrive(r)
    <3>1. PICK form : Become(r, Arrived(jar.token, form, now))
      BY <2>2 DEF Arrive
    <3>2. Arrived(jar.token, form, now).pc = "check"
      BY DEF Arrived
    <3> QED
      BY <3>1, <3>2
  <2> QED
    BY <2>1, <2>2
<1>3. /\ req'[r] = q /\ \A s \in Requests \ {r} : req'[s].pc = "idle"
      /\ \A s, u \in Requests : Busy(s)' /\ Busy(u)' => s = u
  BY <1>1, <1>2, InvParts, OthersAreIdle
<1>4. jar # None => jar.until <= Truncated((now + TTL)') /\ Backed(jar)'
  BY <1>1 DEF OneAtATime, Backed
<1>5. q.pc = "login" => q.at <= now + TTL
  BY <1>2, TimesTyped
<1> QED
  BY <1>1, <1>2, <1>3, <1>4, <1>5 DEF OneAtATime

LEMMA CheckOutlives ==
    ASSUME SessionsInv, OneAtATime, NEW r \in Requests, Check(r)
    PROVE  OneAtATime'
<1> DEFINE q == req[r]
<1>1. UNCHANGED <<rows, jar, now>> /\ q.pc = "check"
  BY DEF Check
<1>2. \A s \in Requests \ {r} : ~Busy(s)
  BY <1>1 DEF OneAtATime, Busy
<1>3. PICK p : Become(r, p) /\ ((p.pc = "touch" /\ p.at = now + TTL) \/ p = Keeps)
  <2>1. q \in [pc : {"check", "touch", "serve"}, token : Tokens,
               form : Tokens \cup {None}, at : Nat, late : BOOLEAN]
    BY <1>1, InvParts, RequestKinds
  <2>2. LET p == [q EXCEPT !.pc = "touch", !.at = now + TTL] IN p.pc = "touch" /\ p.at = now + TTL
    BY <2>1
  <2>3. Become(r, [q EXCEPT !.pc = "touch", !.at = now + TTL]) \/ Become(r, Keeps)
    BY Zenon DEF Check, MayFail
  <2> QED
    BY <2>2, <2>3
<1>4. /\ req'[r] = p /\ \A s \in Requests \ {r} : req'[s].pc = "idle"
      /\ \A s, u \in Requests : Busy(s)' /\ Busy(u)' => s = u
  BY <1>2, <1>3, InvParts, OthersAreIdle
<1>5. jar # None => jar.until <= Truncated((now + TTL)') /\ Backed(jar)'
  BY <1>1 DEF OneAtATime, Backed
<1>6. p.pc = "touch" => p.at <= now + TTL /\ (jar # None => jar.until <= Truncated(p.at))
  BY <1>3, TimesTyped DEF OneAtATime, Keeps
<1>7. p.pc \in {"touch", "answer"} /\ (p.pc = "answer" => p.does = "keep")
  BY <1>3 DEF Keeps
<1> QED
  BY <1>1, <1>4, <1>5, <1>6, <1>7 DEF OneAtATime

\* The new expiry is later than what the browser has of any session.
LEMMA TouchOutlives ==
    ASSUME SessionsInv, OneAtATime, NEW r \in Requests, Touch(r), errors' = errors
    PROVE  OneAtATime'
<1> DEFINE q == req[r]  p == [q EXCEPT !.pc = "serve"]
<1>1. UNCHANGED <<jar, now>> /\ q.pc = "touch" /\ Become(r, p)
  BY DEF Touch
<1>2. /\ q \in [pc : {"check", "touch", "serve"}, token : Tokens,
                form : Tokens \cup {None}, at : Nat, late : BOOLEAN]
      /\ Truncated(q.at) \in Nat
  BY <1>1, InvParts, RequestKinds, TruncatedIsNat
<1>3. p.pc = "serve" /\ p.token = q.token /\ p.at = q.at
  BY <1>2
<1>4. rows' = [rows EXCEPT ![q.token] = IF @ = None THEN None ELSE Truncated(q.at)]
  BY InvParts, SessionsAssumption DEF Touch, TouchSession, MayFail, RestTyped
<1>5. \A s \in Requests \ {r} : ~Busy(s)
  BY <1>1 DEF OneAtATime, Busy
<1> HIDE DEF p
<1>6. /\ req'[r] = p /\ \A s \in Requests \ {r} : req'[s].pc = "idle"
      /\ \A s, u \in Requests : Busy(s)' /\ Busy(u)' => s = u
  BY <1>1, <1>5, InvParts, OthersAreIdle
<1>7. jar # None => jar.until <= Truncated((now + TTL)') /\ Backed(jar)'
  <2>1. ASSUME jar # None, rows'[jar.token] # None PROVE rows'[jar.token] >= jar.until
    <3>1. jar.token \in Tokens /\ jar.until \in Nat /\ jar.until <= Truncated(q.at)
      BY <1>1, <2>1, InvParts DEF Cookies, OneAtATime
    <3>2. rows[jar.token] # None /\ rows[jar.token] \in Nat /\ rows[jar.token] >= jar.until
      BY <1>2, <1>4, <2>1, <3>1, InvParts DEF RowsTyped, OneAtATime, Backed
    <3> QED
      BY <1>2, <1>4, <3>1, <3>2, InvParts DEF RowsTyped
  <2> QED
    BY <1>1, <2>1 DEF OneAtATime, Backed
<1>8. p.at <= now + TTL /\ (rows'[p.token] # None => rows'[p.token] = Truncated(p.at))
  BY <1>1, <1>2, <1>3, <1>4, InvParts DEF OneAtATime, RowsTyped
<1>9. Backed(Cookie(req[r].token, req[r].at))'
  BY <1>2, <1>3, <1>6, <1>8 DEF Backed, Cookie
<1> QED
  BY <1>1, <1>3, <1>6, <1>7, <1>8, <1>9 DEF OneAtATime

LEMMA AnswersOutlive ==
    ASSUME SessionsInv, OneAtATime, NEW r \in Requests,
           Serve(r) \/ submitLogout(r) \/ Answer(r) \/ LoseAnswer(r)
    PROVE  OneAtATime'
<1>1. UNCHANGED now /\ \A s \in Requests \ {r} : ~Busy(s)
  BY DEF Serve, submitLogout, Answer, LoseAnswer, OneAtATime, Busy
<1>2. ASSUME Serve(r) PROVE OneAtATime'
  <2> DEFINE q == req[r]
  <2>1. UNCHANGED <<rows, jar>> /\ q.pc = "serve" /\ Become(r, Sets(q))
    BY <1>2 DEF Serve
  <2>2. q.at \in Nat /\ q.at <= now + TTL /\ Backed(Cookie(q.token, q.at))
    BY <2>1, InvParts, RequestKinds DEF OneAtATime
  <2>3. /\ req'[r] = Sets(q) /\ \A s \in Requests \ {r} : req'[s].pc = "idle"
        /\ \A s, u \in Requests : Busy(s)' /\ Busy(u)' => s = u
    BY <1>1, <2>1, InvParts, OthersAreIdle
  <2>4. /\ req'[r].pc = "answer" /\ req'[r].cookie.until = Truncated(q.at)
        /\ req'[r].cookie = Cookie(q.token, q.at)
    BY <2>3 DEF Sets, Cookie
  <2>5. Truncated(q.at) <= Truncated((now + TTL)')
    BY <1>1, <2>2, TimesTyped, TruncatedIsMonotone
  <2>6. Backed(req[r].cookie)'
    BY <2>1, <2>2, <2>4 DEF Backed
  <2>7. jar # None => jar.until <= Truncated((now + TTL)') /\ Backed(jar)'
    BY <1>1, <2>1 DEF OneAtATime, Backed
  <2> QED
    BY <2>1, <2>3, <2>4, <2>5, <2>6, <2>7 DEF OneAtATime
<1>3. ASSUME submitLogout(r) PROVE OneAtATime'
  <2>1. UNCHANGED jar /\ Become(r, Clears) /\ req[r].pc = "serve"
    BY <1>3 DEF submitLogout
  <2>2. req[r].token \in Tokens
    BY <2>1, InvParts, RequestKinds
  <2>3. \A t \in Tokens : rows'[t] = rows[t] \/ rows'[t] = None
    BY <1>3, <2>2, InvParts DEF submitLogout, DeleteSession, MayFail, RowsTyped
  <2>4. /\ req'[r] = Clears /\ \A s \in Requests \ {r} : req'[s].pc = "idle"
        /\ \A s, u \in Requests : Busy(s)' /\ Busy(u)' => s = u
    BY <1>1, <2>1, InvParts, OthersAreIdle
  <2>5. jar # None => jar.until <= Truncated((now + TTL)') /\ Backed(jar)'
    BY <1>1, <2>1, <2>3, InvParts DEF OneAtATime, Backed, Cookies
  <2> QED
    BY <2>1, <2>4, <2>5 DEF OneAtATime, Clears
<1>4. ASSUME Answer(r) \/ LoseAnswer(r) PROVE OneAtATime'
  <2>1. UNCHANGED rows /\ Become(r, Idle) /\ req[r].pc = "answer"
    BY <1>4 DEF Answer, LoseAnswer
  <2>2. /\ req'[r] = Idle /\ \A s \in Requests \ {r} : req'[s].pc = "idle"
        /\ \A s, u \in Requests : Busy(s)' /\ Busy(u)' => s = u
    BY <1>1, <2>1, InvParts, OthersAreIdle
  <2>3. req[r].does \in {"keep", "clear", "set"}
    BY <2>1, InvParts DEF Request, Idle
  <2>4. \/ jar' = jar \/ jar' = None
        \/ req[r].does = "set" /\ jar' = req[r].cookie
    BY <1>4, <2>3 DEF Answer, LoseAnswer
  <2>5. jar' # None => jar'.until <= Truncated((now + TTL)') /\ Backed(jar)'
    BY <1>1, <2>1, <2>4 DEF OneAtATime, Backed
  <2> QED
    BY <2>2, <2>5 DEF OneAtATime, Idle
<1> QED
  BY <1>2, <1>3, <1>4

LEMMA ServerOutlives ==
    ASSUME SessionsInv, OneAtATime, Wake \/ Prune \/ Crash \/ Tick \/ UNCHANGED vars
    PROVE  OneAtATime'
<1>1. CASE Wake \/ UNCHANGED vars
  BY <1>1 DEF Wake, vars, OneAtATime, Busy, Backed
<1>2. CASE Prune
  <2>1. UNCHANGED <<jar, req, now>>
    BY <1>2 DEF Prune
  <2>2. \A t \in Tokens : rows'[t] = rows[t] \/ rows'[t] = None
    BY <1>2 DEF Prune, PruneSessions, MayFail
  <2>4. jar # None => jar.until <= Truncated((now + TTL)') /\ Backed(jar)'
    BY <2>1, <2>2, InvParts DEF OneAtATime, Backed, Cookies
  <2>5. ASSUME NEW r \in Requests
        PROVE  /\ req[r].pc = "serve" => Backed(Cookie(req[r].token, req[r].at))'
               /\ req[r].pc = "answer" /\ req[r].does = "set" => Backed(req[r].cookie)'
    <3>1. CASE req[r].pc = "serve"
      <4>1. req[r].token \in Tokens /\ Backed(Cookie(req[r].token, req[r].at))
        BY <3>1, InvParts, RequestKinds DEF OneAtATime
      <4> QED
        BY <2>1, <2>2, <3>1, <4>1 DEF Backed, Cookie
    <3>2. CASE req[r].pc = "answer" /\ req[r].does = "set"
      <4>1. req[r].cookie.token \in Tokens /\ Backed(req[r].cookie)
        BY <3>2, InvParts, RequestKinds DEF OneAtATime, Cookies
      <4> QED
        BY <2>1, <2>2, <3>2, <4>1 DEF Backed
    <3> QED
      BY <3>1, <3>2
  <2> QED
    BY <2>1, <2>4, <2>5 DEF OneAtATime, Busy
<1>3. CASE Crash
  BY <1>3 DEF Crash, OneAtATime, Busy, Backed, Idle
<1>4. CASE Tick
  <2>1. UNCHANGED <<rows, jar, req>> /\ now' + TTL \in Nat /\ now + TTL <= now' + TTL
    BY <1>4, TimesTyped DEF Tick
  <2>2. Truncated(now + TTL) <= Truncated(now' + TTL) /\ Truncated(now' + TTL) \in Nat
    BY <2>1, TimesTyped, TruncatedIsNat, TruncatedIsMonotone
  <2>3. jar # None => jar.until <= Truncated(now' + TTL) /\ Backed(jar)'
    BY <2>1, <2>2, InvParts, TimesTyped DEF OneAtATime, Backed, Cookies
  <2>4. ASSUME NEW r \in Requests
        PROVE  /\ req[r].pc \in {"login", "touch", "serve"} => req[r].at <= now' + TTL
               /\ req[r].pc = "answer" /\ req[r].does = "set" =>
                     req[r].cookie.until <= Truncated(now' + TTL)
    <3>1. CASE req[r].pc \in {"login", "touch", "serve"}
      <4>1. req[r].at \in Nat /\ req[r].at <= now + TTL
        BY <3>1, InvParts, RequestKinds DEF OneAtATime
      <4> QED
        BY <2>1, <3>1, <4>1, TimesTyped
    <3>2. CASE req[r].pc = "answer" /\ req[r].does = "set"
      <4>1. req[r].cookie.until \in Nat /\ req[r].cookie.until <= Truncated(now + TTL)
        BY <3>2, InvParts, RequestKinds DEF OneAtATime, Cookies
      <4> QED
        BY <2>2, <3>2, <4>1, TimesTyped
    <3> QED
      BY <3>1, <3>2
  <2> QED
    BY <2>1, <2>3, <2>4 DEF OneAtATime, Busy, Backed
<1> QED
  BY <1>1, <1>2, <1>3, <1>4

\* While requests do not overlap and the store does not fail: what the browser
\* was told of a session's end the table holds, or a later one, for any length
\* of a second and of a session, and however many answers are lost.
THEOREM RowsOutliveCookies == Spec => []RowOutlivesCookie
<1>1. Init => OutlivesInv
  BY DEF Init, OutlivesInv, OneAtATime, Busy, Idle
<1>2. SessionsInv /\ OutlivesInv /\ [Next]_vars => OutlivesInv'
  <2> SUFFICES ASSUME SessionsInv, OutlivesInv, [Next]_vars, ~overlap', errors' = 0
               PROVE  OneAtATime'
    BY DEF OutlivesInv
  <2>1. OneAtATime /\ errors' = errors
    BY FaultsAreRemembered DEF OutlivesInv
  <2> QED
    BY <2>1, CreateSessionOutlives, ComesInOutlives, CheckOutlives, TouchOutlives, AnswersOutlive,
       ServerOutlives DEF Next, Handle
<1>3. OutlivesInv => RowOutlivesCookie
  BY DEF OutlivesInv, OneAtATime, RowOutlivesCookie, Backed
<1> QED
  BY <1>1, <1>2, <1>3, SpecKeepsSessionsInv, PTL DEF Spec

-----------------------------------------------------------------------------
(* What ExpiredAreRemoved rests on *)

\* A run of the pruner that does not fail takes every session that was no
\* longer valid when it took its time, and no other.
PruneTakesExpired ==
    [][Prune /\ errors' = errors =>
          \A t \in Tokens :
             rows'[t] = (IF Valid(rows[t], pruneAt) THEN rows[t] ELSE None)]_vars

\* A number of whole seconds is over when its ticks are.
LEMMA OverInSeconds ==
    ASSUME NEW x \in Nat, NEW y \in Nat, NEW s \in Nat \ {0}
    PROVE  x * s <= y <=> x <= y \div s
<1>1. y = s * (y \div s) + (y % s) /\ y % s \in 0..(s - 1) /\ y \div s \in Nat
  OBVIOUS
<1> DEFINE d == y \div s
<1>2. d \in Nat /\ y = s * d + (y % s) /\ y % s \in 0..(s - 1)
  BY <1>1
<1> HIDE DEF d
<1>3. CASE x <= d
  <2>1. x * s <= d * s /\ d * s = s * d /\ x * s \in Nat /\ s * d \in Nat
    BY <1>2, <1>3, Products
  <2>2. x * s <= y
    BY <1>2, <2>1
  <2> QED
    BY <1>3, <2>2 DEF d
<1>4. CASE ~(x <= d)
  <2>1. d + 1 <= x /\ d + 1 \in Nat
    BY <1>2, <1>4
  <2>2. (d + 1) * s <= x * s /\ (d + 1) * s \in Nat /\ x * s \in Nat
    BY <2>1, Products
  <2>3. (d + 1) * s = s * d + s
    BY <1>2
  <2>4. ~(x * s <= y)
    <3> DEFINE q == s * d
    <3>1. q \in Nat /\ y = q + (y % s) /\ q + s <= x * s
      BY <1>2, <2>2, <2>3, Products
    <3> HIDE DEF q
    <3> QED
      BY <1>2, <2>2, <3>1
  <2> QED
    BY <1>4, <2>4 DEF d
<1> QED
  BY <1>3, <1>4

\* What is pruned is what is not valid: the one compares seconds, the other
\* ticks.
LEMMA PrunedIsExpired ==
    ASSUME TypeOK, NEW t \in Tokens, rows[t] # None, NEW at \in Nat
    PROVE  t \in Pruned(at) <=> ~Valid(rows[t], at)
<1>1. rows[t] \in Nat /\ Second \in Nat \ {0} /\ rows[t] * Second \in Nat
  BY SessionsAssumption, Products DEF TypeOK
<1>2. rows[t] * Second <= at <=> rows[t] <= at \div Second
  BY <1>1, OverInSeconds
<1>3. rows[t] * Second > at <=> ~(rows[t] * Second <= at)
  BY <1>1
<1> QED
  BY <1>2, <1>3 DEF Pruned, Truncated, Valid

\* For every length of a second: the pruner leaves no session behind that
\* ValidSession has stopped accepting, and takes none that it accepts.
THEOREM PrunerTakesExpired == Spec => PruneTakesExpired
<1>1. ASSUME SessionsInv, Prune, errors' = errors, NEW t \in Tokens
      PROVE  rows'[t] = (IF Valid(rows[t], pruneAt) THEN rows[t] ELSE None)
  <2>1. TypeOK /\ pruneAt \in Nat /\ errors \in Nat
    BY <1>1, SessionsAssumption DEF SessionsInv, TypeOK, Prune
  <2>2. PruneSessions(pruneAt)
    BY <1>1, <2>1 DEF Prune, MayFail
  <2>3. rows'[t] = IF t \in Pruned(pruneAt) THEN None ELSE rows[t]
    BY <2>2 DEF PruneSessions
  <2>4. CASE rows[t] = None
    BY <2>3, <2>4 DEF Valid
  <2>5. CASE rows[t] # None
    BY <2>1, <2>3, <2>5, PrunedIsExpired
  <2> QED
    BY <2>4, <2>5
<1>2. SessionsInv /\ [Next]_vars =>
         [Prune /\ errors' = errors =>
             \A t \in Tokens :
                rows'[t] = (IF Valid(rows[t], pruneAt) THEN rows[t] ELSE None)]_vars
  BY <1>1
<1> QED
  BY <1>2, SpecKeepsSessionsInv, PTL DEF Spec, PruneTakesExpired

=============================================================================
