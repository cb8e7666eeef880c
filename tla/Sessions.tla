------------------------------ MODULE Sessions ------------------------------
(***************************************************************************)
(* The admin's login session: the sessions table of internal/store, the    *)
(* login, logout and requireAuth of internal/web, the pruning goroutine of *)
(* the server, and a browser that may have several requests under way at   *)
(* once.                                                                   *)
(*                                                                         *)
(* requireAuth uses the store's connection twice: to see whether the       *)
(* session is valid and to move its expiry.  It takes the time before it   *)
(* waits for the connection, and it ignores a failure of the second use.   *)
(* The handler behind it runs when both are over.  A row holds its expiry  *)
(* in whole seconds (fmtTime truncates); the clock counts ticks.           *)
(*                                                                         *)
(* Tokens are drawn from 32 random bytes and stored as hashes: a token and *)
(* its hash are one value, and none is drawn twice.  The csrf token is     *)
(* drawn with the session token and travels with it: they are one value    *)
(* too.                                                                    *)
(***************************************************************************)
EXTENDS Integers

CONSTANTS
    Requests,   \* requests the browser can have under way
    Tokens,     \* session tokens
    None,       \* no row, no cookie, no stamp
    Second,     \* ticks in a second
    TTL,        \* Server.SessionTTL, in ticks
    MaxTime,    \* bound: ticks the clock runs
    MaxLosses,  \* bound: answers lost and crashes
    MaxErrors   \* bound: failures of the store

ASSUME SessionsAssumption ==
    /\ None \notin Nat /\ None \notin Tokens
    /\ Second \in Nat \ {0} /\ TTL \in Nat \ {0}
    /\ MaxTime \in Nat /\ MaxLosses \in Nat /\ MaxErrors \in Nat

VARIABLES
    rows,       \* sessions.expires_at of each token, in seconds
    minted,     \* tokens that have been drawn
    jar,        \* the browser's session cookie
    req,        \* the goroutine that serves each request
    pruneAt,    \* the time the pruning goroutine has taken
    loggedOut,  \* tokens whose logout has deleted their row (history)
    overlap,    \* whether two requests have ever been under way (history)
    now,        \* the clock, in ticks
    losses,     \* bounded by MaxLosses
    errors      \* bounded by MaxErrors

vars == <<rows, minted, jar, req, pruneAt, loggedOut, overlap, now, losses, errors>>

-----------------------------------------------------------------------------
(* sessions.go *)

\* fmtTime.
Truncated(ticks) == ticks \div Second

\* ValidSession: expires_at is after the time.
Valid(row, at) == row # None /\ row * Second > at

\* Mutant of TouchSession: an upsert.
TouchOrCreate(token, until) == rows' = [rows EXCEPT ![token] = Truncated(until)]

\* UPDATE: a row that is gone stays gone.
TouchSession(token, until) ==
    rows' = [rows EXCEPT ![token] = IF @ = None THEN None ELSE Truncated(until)]

DeleteSession(token) == rows' = [rows EXCEPT ![token] = None]

\* Mutants of Pruned: the time is rounded up; the comparison is strict.
PrunedAhead(at)  == {t \in Tokens : rows[t] # None /\ rows[t] <= Truncated(at) + 1}
PrunedStrict(at) == {t \in Tokens : rows[t] # None /\ rows[t] < Truncated(at)}

\* expires_at <= the time, as strings of whole seconds.
Pruned(at) == {t \in Tokens : rows[t] # None /\ rows[t] <= Truncated(at)}

PruneSessions(at) ==
    rows' = [t \in Tokens |-> IF t \in Pruned(at) THEN None ELSE rows[t]]

-----------------------------------------------------------------------------
(* Requests *)

\* A cookie: its token and its Expires, which has whole seconds.
Cookie(token, until) == [token |-> token, until |-> Truncated(until)]

Cookies == [token : Tokens, until : Nat]

\* A request: how far its handler is, its session token, the csrf token of its
\* form if it is a logout (None for a page), the time its handler has taken,
\* and whether it was sent after its session had been logged out (history); at
\* the end, what the answer does to the browser's cookies.
Idle == [pc |-> "idle"]

Login(token, until) == [pc |-> "login", token |-> token, at |-> until]

Arrived(token, form, at) ==
    [pc |-> "check", token |-> token, form |-> form, at |-> at,
     late |-> token \in loggedOut]

Keeps     == [pc |-> "answer", does |-> "keep"]
Clears    == [pc |-> "answer", does |-> "clear"]
Sets(q)   == [pc |-> "answer", does |-> "set", cookie |-> Cookie(q.token, q.at)]

Become(r, q) == req' = [req EXCEPT ![r] = q]

Overlaps(r) == overlap' = (overlap \/ \E s \in Requests \ {r} : req[s].pc # "idle")

Loss == losses < MaxLosses /\ losses' = losses + 1

\* A failure of the store, or none.
MayFail(ok, failed) ==
    \/ ok /\ UNCHANGED errors
    \/ failed /\ errors < MaxErrors /\ errors' = errors + 1

Init ==
    /\ rows = [t \in Tokens |-> None]
    /\ minted = {}
    /\ jar = None
    /\ req = [r \in Requests |-> Idle]
    /\ pruneAt = None
    /\ loggedOut = {}
    /\ overlap = FALSE
    /\ now = 0
    /\ losses = 0
    /\ errors = 0

\* The right password came in: a token is drawn, the expiry computed.
submitLogin(r) ==
    /\ req[r].pc = "idle"
    /\ \E token \in Tokens \ minted :
          /\ minted' = minted \cup {token}
          /\ Become(r, Login(token, now + TTL))
    /\ Overlaps(r)
    /\ UNCHANGED <<rows, jar, pruneAt, loggedOut, now, losses, errors>>

CreateSession(r) ==
    LET q == req[r] IN
    /\ q.pc = "login"
    /\ MayFail(/\ rows' = [rows EXCEPT ![q.token] = Truncated(q.at)]
               /\ Become(r, Sets(q)),
               /\ Become(r, Keeps)
               /\ UNCHANGED rows)
    /\ UNCHANGED <<minted, jar, pruneAt, loggedOut, overlap, now, losses>>

\* The browser sends a request while it has a cookie; a logout with the form
\* of any page it still shows.
Arrive(r) ==
    /\ req[r].pc = "idle"
    /\ jar # None
    /\ jar.until * Second > now
    /\ \E form \in minted \cup {None} : Become(r, Arrived(jar.token, form, now))
    /\ Overlaps(r)
    /\ UNCHANGED <<rows, minted, jar, pruneAt, loggedOut, now, losses, errors>>

\* requireAuth, ValidSession: on to the new expiry, or to the login page.
Check(r) ==
    LET q == req[r] IN
    /\ q.pc = "check"
    /\ MayFail(IF Valid(rows[q.token], q.at)
               THEN Become(r, [q EXCEPT !.pc = "touch", !.at = now + TTL])
               ELSE Become(r, Keeps),
               Become(r, Keeps))
    /\ UNCHANGED <<rows, minted, jar, pruneAt, loggedOut, overlap, now, losses>>

\* Mutant of Touch: the cookie gets an expiry of its own.
TouchTwice(r) ==
    LET q == req[r] IN
    /\ q.pc = "touch"
    /\ MayFail(TouchSession(q.token, q.at), UNCHANGED rows)
    /\ Become(r, [q EXCEPT !.pc = "serve", !.at = now + TTL])
    /\ UNCHANGED <<minted, jar, pruneAt, loggedOut, overlap, now, losses>>

\* requireAuth, TouchSession: a failure is ignored.
Touch(r) ==
    LET q == req[r] IN
    /\ q.pc = "touch"
    /\ MayFail(TouchSession(q.token, q.at), UNCHANGED rows)
    /\ Become(r, [q EXCEPT !.pc = "serve"])
    /\ UNCHANGED <<minted, jar, pruneAt, loggedOut, overlap, now, losses>>

\* The handler of a page, or a logout whose csrf token does not match: the
\* cookies are those that requireAuth has set.
Serve(r) ==
    LET q == req[r] IN
    /\ q.pc = "serve"
    /\ q.form # q.token
    /\ Become(r, Sets(q))
    /\ UNCHANGED <<rows, minted, jar, pruneAt, loggedOut, overlap, now, losses, errors>>

\* A failure to delete the row is ignored; the cookies are cleared.
submitLogout(r) ==
    LET q == req[r] IN
    /\ q.pc = "serve"
    /\ q.form = q.token
    /\ MayFail(DeleteSession(q.token) /\ loggedOut' = loggedOut \cup {q.token},
               UNCHANGED <<rows, loggedOut>>)
    /\ Become(r, Clears)
    /\ UNCHANGED <<minted, jar, pruneAt, overlap, now, losses>>

\* The answer reaches the browser.
Answer(r) ==
    /\ req[r].pc = "answer"
    /\ jar' = CASE req[r].does = "keep"  -> jar
                [] req[r].does = "clear" -> None
                [] req[r].does = "set"   -> req[r].cookie
    /\ Become(r, Idle)
    /\ UNCHANGED <<rows, minted, pruneAt, loggedOut, overlap, now, losses, errors>>

LoseAnswer(r) ==
    /\ req[r].pc = "answer"
    /\ Loss
    /\ Become(r, Idle)
    /\ UNCHANGED <<rows, minted, jar, pruneAt, loggedOut, overlap, now, errors>>

-----------------------------------------------------------------------------
(* The server *)

\* The ticker of the pruning goroutine.
Wake ==
    /\ pruneAt = None
    /\ pruneAt' = now
    /\ UNCHANGED <<rows, minted, jar, req, loggedOut, overlap, now, losses, errors>>

Prune ==
    /\ pruneAt # None
    /\ MayFail(PruneSessions(pruneAt), UNCHANGED rows)
    /\ pruneAt' = None
    /\ UNCHANGED <<minted, jar, req, loggedOut, overlap, now, losses>>

\* The process dies and starts again; the table is on disk.
Crash ==
    /\ Loss
    /\ req' = [r \in Requests |-> Idle]
    /\ pruneAt' = None
    /\ UNCHANGED <<rows, minted, jar, loggedOut, overlap, now, errors>>

Tick ==
    /\ now < MaxTime
    /\ now' = now + 1
    /\ UNCHANGED <<rows, minted, jar, req, pruneAt, loggedOut, overlap, losses, errors>>

Handle(r) ==
    \/ submitLogin(r) \/ CreateSession(r)
    \/ Arrive(r) \/ Check(r) \/ Touch(r) \/ Serve(r) \/ submitLogout(r)
    \/ Answer(r) \/ LoseAnswer(r)

Next == (\E r \in Requests : Handle(r)) \/ Wake \/ Prune \/ Crash \/ Tick

Spec == Init /\ [][Next]_vars

\* The ticker goes on ticking and the goroutine goes on pruning.
FairSpec == Spec /\ WF_vars(Wake) /\ WF_vars(Prune)

-----------------------------------------------------------------------------
Request ==
    {Idle}
    \cup [pc : {"login"}, token : Tokens, at : Nat]
    \cup [pc : {"check", "touch", "serve"}, token : Tokens,
          form : Tokens \cup {None}, at : Nat, late : BOOLEAN]
    \cup [pc : {"answer"}, does : {"keep", "clear"}]
    \cup [pc : {"answer"}, does : {"set"}, cookie : Cookies]

\* The type of the state; only tokens that have been drawn have a row.
TypeOK ==
    /\ rows \in [Tokens -> Nat \cup {None}]
    /\ minted \subseteq Tokens
    /\ \A t \in Tokens \ minted : rows[t] = None
    /\ jar \in Cookies \cup {None}
    /\ req \in [Requests -> Request]
    /\ pruneAt \in Nat \cup {None}
    /\ loggedOut \subseteq minted
    /\ overlap \in BOOLEAN
    /\ now \in Nat
    /\ losses \in 0..MaxLosses /\ errors \in 0..MaxErrors

\* A session that was logged out is over: no request that is sent after the
\* logout gets past requireAuth, not even while another request of the session,
\* checked before the logout, has its expiry still to write, and not when an
\* answer that was under way puts the cookie back.
LogoutEndsSession ==
    \A r \in Requests : req[r].pc \in {"touch", "serve"} => ~req[r].late

\* Pruning and logging out are all that ends a session, and pruning takes none
\* that ValidSession would still accept: the two truncate alike.
PruneSparesValid ==
    [][\A t \in Tokens :
          rows[t] # None /\ rows'[t] = None
             => t \in loggedOut' \/ ~Valid(rows[t], now)]_vars

\* The session outlives the cookie: while one request follows the other and the
\* store does not fail, no row holds an earlier expiry than the browser was
\* given for it.  (Requests that overlap write their expiries in any order, and
\* the earlier one may stay.)
RowOutlivesCookie ==
    ~overlap /\ errors = 0 /\ jar # None /\ rows[jar.token] # None
        => rows[jar.token] >= jar.until

\* Sessions that nobody uses any more do not stay in the table.
ExpiredAreRemoved ==
    \A t \in Tokens :
        (rows[t] # None /\ ~Valid(rows[t], now)) ~> (rows[t] = None \/ Valid(rows[t], now))

=============================================================================
