------------------------------ MODULE RateLimit ------------------------------
(***************************************************************************)
(* internal/ratelimit: a map from addresses to buckets, brought up to date *)
(* when its address asks (Allow) and swept by a goroutine of the server    *)
(* that forgets the buckets nobody has asked about for Idle ticks.  Both   *)
(* hold the mutex from start to end, so each is one step.  The limiter     *)
(* guards the ingest endpoint, whose answer to a refused phone is modelled *)
(* with it, and the login form.                                            *)
(*                                                                         *)
(* The code counts in float64 tokens and seconds; here a token is Cost     *)
(* units and a second Second ticks, so that all amounts are whole.         *)
(***************************************************************************)
EXTENDS Integers

CONSTANTS
    Ips,        \* client addresses
    Cost,       \* units in one token
    Rate,       \* units gained in a tick: Limiter.rate
    Cap,        \* units in a full bucket: Limiter.burst
    Second,     \* ticks in a second
    Idle,       \* Sweep's maxIdle, in ticks: ten minutes in serve
    MaxTime,    \* bound: ticks the clock runs
    NoPromise   \* no Retry-After is pending

ASSUME RateLimitAssumption ==
    /\ Cost \in Nat \ {0} /\ Rate \in Nat \ {0} /\ Second \in Nat \ {0}
    /\ Cap \in Nat /\ Cap >= Cost       \* New: a burst is at least 1
    /\ Idle \in Nat /\ MaxTime \in Nat
    /\ NoPromise \notin Nat

VARIABLES
    known,      \* addresses with a bucket: the keys of the map
    tokens,     \* bucket.tokens, of the known
    last,       \* bucket.last, of the known
    now,        \* the clock
    promise,    \* when the phone was told it may come back (history)
    spent,      \* as in TokenBucket (history)
    earned

limiter == <<known, tokens, last>>
vars == <<known, tokens, last, now, promise, spent, earned>>

Least(m, n) == IF m <= n THEN m ELSE n

Init ==
    /\ known = {}
    /\ tokens = [ip \in Ips |-> 0]
    /\ last = [ip \in Ips |-> 0]
    /\ now = 0
    /\ promise = [ip \in Ips |-> NoPromise]
    /\ spent = [ip \in Ips |-> 0]
    /\ earned = 0

\* Mutant of Level: the refill is not capped.
LevelUncapped(ip) ==
    IF ip \in known THEN tokens[ip] + (now - last[ip]) * Rate ELSE Cap

\* What a bucket holds once it is brought up to date: a new one is full.
Level(ip) ==
    IF ip \in known THEN Least(Cap, tokens[ip] + (now - last[ip]) * Rate) ELSE Cap

\* Allow, up to the decision: the bucket is found or made and refilled, and
\* stamped with the time if any has passed.
Touch(ip, left) ==
    /\ known' = known \cup {ip}
    /\ tokens' = [tokens EXCEPT ![ip] = left]
    /\ last' = [last EXCEPT ![ip] = now]

Granted(ip) ==
    /\ Level(ip) >= Cost
    /\ Touch(ip, Level(ip) - Cost)
    /\ promise' = [promise EXCEPT ![ip] = NoPromise]
    /\ spent' = [spent EXCEPT ![ip] = @ + Cost]
    /\ UNCHANGED <<now, earned>>

\* Retry-After: the time to the next token in whole seconds, truncated, and at
\* least one.
RetryAfter(level) ==
    LET secs == (Cost - level) \div (Rate * Second)
    IN  IF secs < 1 THEN 1 ELSE secs

\* Mutant of Refused: it stamps the bucket and does not refill it.
RefusedUnfilled(ip) ==
    /\ Level(ip) < Cost
    /\ Touch(ip, tokens[ip])
    /\ promise' = [promise EXCEPT ![ip] =
                      IF @ = NoPromise THEN now + (RetryAfter(Level(ip)) + 1) * Second
                      ELSE @]
    /\ UNCHANGED <<now, spent, earned>>

\* The request pays nothing.  The phone waits until it may try again: the
\* seconds it was told, and the second that the truncation may have taken off.
Refused(ip) ==
    /\ Level(ip) < Cost
    /\ Touch(ip, Level(ip))
    /\ promise' = [promise EXCEPT ![ip] =
                      IF @ = NoPromise THEN now + (RetryAfter(Level(ip)) + 1) * Second
                      ELSE @]
    /\ UNCHANGED <<now, spent, earned>>

Allow(ip) == Granted(ip) \/ Refused(ip)

\* Mutant of Swept: the comparison is the wrong way round.
SweptRecent == {ip \in known : last[ip] > now - Idle}

Swept == {ip \in known : last[ip] < now - Idle}

Sweep ==
    /\ Swept # {}
    /\ known' = known \ Swept
    /\ UNCHANGED <<tokens, last, now, promise, spent, earned>>

Tick ==
    /\ now < MaxTime
    /\ now' = now + 1
    /\ earned' = earned + Rate
    /\ UNCHANGED <<limiter, promise, spent>>

\* A new window of observation (history only).
Observe ==
    /\ spent' = [ip \in Ips |-> 0]
    /\ earned' = 0
    /\ UNCHANGED <<limiter, now, promise>>

Next == (\E ip \in Ips : Allow(ip)) \/ Sweep \/ Tick \/ Observe

Spec == Init /\ [][Next]_vars

-----------------------------------------------------------------------------
\* The type of the state; no bucket is stamped with a time to come.
TypeOK ==
    /\ known \subseteq Ips
    /\ tokens \in [Ips -> 0..Cap]
    /\ last \in [Ips -> Nat]
    /\ now \in Nat
    /\ \A ip \in Ips : last[ip] <= now
    /\ promise \in [Ips -> Nat \cup {NoPromise}]
    /\ spent \in [Ips -> Nat]
    /\ earned \in Nat

\* In any stretch of time an address is let through at most the burst plus
\* what the rate yields in that time: the limiter enforces its two settings,
\* whatever is swept.
WithinBudget == \A ip \in Ips : spent[ip] <= Cap + earned

\* A phone that was refused and comes back after Retry-After and one more
\* second is let through, however often it, or another phone behind the same
\* address, has been refused in between, and whatever has been swept.
RetryAfterIsEnough ==
    \A ip \in Ips :
        promise[ip] # NoPromise /\ now >= promise[ip] => Level(ip) >= Cost

\* The limiter that forgets decides as the one that does not: a bucket is
\* swept only when it is full again.  This needs Idle ticks to fill a bucket.
Exact == INSTANCE TokenBucket WITH level <- [ip \in Ips |-> Level(ip)]

ImplementsTokenBucket == Exact!TBSpec

=============================================================================
