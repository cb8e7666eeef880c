----------------------------- MODULE TokenBucket -----------------------------
(***************************************************************************)
(* What "per-IP token-bucket rate limiting" (README.md:15) promises: every *)
(* address has a bucket that is full at first, fills at a steady rate up   *)
(* to the burst, and pays for each request that is let through.  Nothing   *)
(* is ever forgotten here; RateLimit is the limiter that forgets.          *)
(*                                                                         *)
(* Tokens are counted in units of which a request costs Cost, so that what *)
(* a bucket gains in one tick of the clock is a whole number, Rate.        *)
(***************************************************************************)
EXTENDS Integers

CONSTANTS
    Ips,        \* client addresses
    Cost,       \* units in one token
    Rate,       \* units gained in a tick
    Cap         \* units in a full bucket: the burst

VARIABLES
    level,      \* units in each bucket
    spent,      \* units paid in the window under observation
    earned      \* units gained by an empty bucket in that window

tbVars == <<level, spent, earned>>

Least(m, n) == IF m <= n THEN m ELSE n

TBInit ==
    /\ level = [ip \in Ips |-> Cap]
    /\ spent = [ip \in Ips |-> 0]
    /\ earned = 0

Grant(ip) ==
    /\ level[ip] >= Cost
    /\ level' = [level EXCEPT ![ip] = @ - Cost]
    /\ spent' = [spent EXCEPT ![ip] = @ + Cost]
    /\ UNCHANGED earned

Deny(ip) ==
    /\ level[ip] < Cost
    /\ UNCHANGED tbVars

Refill ==
    /\ level' = [ip \in Ips |-> Least(Cap, level[ip] + Rate)]
    /\ earned' = earned + Rate
    /\ UNCHANGED spent

\* The observation starts over, at any time: a window is any stretch of time.
Observe ==
    /\ spent' = [ip \in Ips |-> 0]
    /\ earned' = 0
    /\ UNCHANGED level

TBNext ==
    \/ \E ip \in Ips : Grant(ip) \/ Deny(ip)
    \/ Refill
    \/ Observe

TBSpec == TBInit /\ [][TBNext]_tbVars

=============================================================================
