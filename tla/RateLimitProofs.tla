-------------------------- MODULE RateLimitProofs --------------------------
(***************************************************************************)
(* For every set of addresses, rate, burst and time of sweeping: a phone   *)
(* that waits as told is let through; and if a bucket fills within the     *)
(* idle time after which it is swept, the limiter decides as the token     *)
(* bucket that forgets nothing, and keeps within the budget.               *)
(***************************************************************************)
EXTENDS RateLimit, TLAPS

\* A bucket fills in the time after which it is swept.  serve sweeps after ten
\* minutes, so this holds when the burst is at most ten times the rate.
FillsInTime == Idle * Rate >= Cap

-----------------------------------------------------------------------------
(* Arithmetic *)

LEMMA OneMoreTick ==
    ASSUME NEW t \in Nat, NEW l \in Nat, NEW n \in Nat, l <= n
    PROVE  (n + 1 - l) * Rate = (n - l) * Rate + Rate
BY RateLimitAssumption

LEMMA ProductsAreMonotone ==
    ASSUME NEW m \in Nat, NEW n \in Nat, NEW k \in Nat, m <= n
    PROVE  m * k \in Nat /\ n * k \in Nat /\ m * k <= n * k
OBVIOUS

\* The truncated seconds of Retry-After and one more make up for the tokens
\* that are missing.
LEMMA RetryAfterMakesUp ==
    ASSUME NEW lev \in 0..Cap, lev < Cost
    PROVE  /\ RetryAfter(lev) \in Nat
           /\ lev + ((RetryAfter(lev) + 1) * Second) * Rate >= Cost
<1> DEFINE d == Rate * Second
           q == (Cost - lev) \div d
<1>1. d \in Nat \ {0} /\ Cost - lev \in Nat
  BY RateLimitAssumption
<1>2. q \in Nat /\ Cost - lev < (q + 1) * d
  BY <1>1
<1>3. RetryAfter(lev) \in Nat /\ RetryAfter(lev) >= q
  BY <1>2 DEF RetryAfter
<1>4. (q + 1) * d <= (RetryAfter(lev) + 1) * d
  BY <1>1, <1>2, <1>3, ProductsAreMonotone
<1>5. ((RetryAfter(lev) + 1) * Second) * Rate = (RetryAfter(lev) + 1) * d
  BY <1>3, RateLimitAssumption
<1>6. (RetryAfter(lev) + 1) * d \in Nat /\ (q + 1) * d \in Nat
  BY <1>1, <1>2, <1>3
<1>7. lev \in Nat /\ Cost \in Nat
  BY RateLimitAssumption
<1> HIDE DEF d, q
<1> QED
  BY <1>2, <1>3, <1>4, <1>5, <1>6, <1>7

-----------------------------------------------------------------------------
(* What the steps do to the level of a bucket *)

LEMMA LevelType ==
    ASSUME TypeOK, NEW ip \in Ips
    PROVE  Level(ip) \in 0..Cap
<1>1. now - last[ip] \in Nat /\ tokens[ip] \in 0..Cap /\ Cap \in Nat
  BY RateLimitAssumption DEF TypeOK
<1>2. (now - last[ip]) * Rate \in Nat
  BY <1>1, RateLimitAssumption
<1> QED
  BY <1>1, <1>2 DEF Level, Least

LEMMA LevelAfterTouch ==
    ASSUME TypeOK, NEW ip \in Ips, NEW left \in 0..Cap, Touch(ip, left), now' = now
    PROVE  /\ Level(ip)' = left
           /\ \A other \in Ips \ {ip} : Level(other)' = Level(other)
           /\ known' \subseteq Ips /\ tokens' \in [Ips -> 0..Cap] /\ last' \in [Ips -> Nat]
           /\ \A any \in Ips : last'[any] <= now'
<1>1. /\ known' \subseteq Ips /\ tokens' \in [Ips -> 0..Cap] /\ last' \in [Ips -> Nat]
      /\ \A any \in Ips : last'[any] <= now'
  BY DEF Touch, TypeOK
<1>2. ip \in known' /\ tokens'[ip] = left /\ now' - last'[ip] = 0
  BY DEF Touch, TypeOK
<1>3. Level(ip)' = left
  <2>1. (now' - last'[ip]) * Rate = 0
    BY <1>2, RateLimitAssumption
  <2> QED
    BY <1>2, <2>1, RateLimitAssumption DEF Level, Least
<1>4. ASSUME NEW other \in Ips \ {ip} PROVE Level(other)' = Level(other)
  <2>1. /\ other \in known' <=> other \in known
        /\ tokens'[other] = tokens[other] /\ last'[other] = last[other]
    BY DEF Touch, TypeOK
  <2> QED
    BY <2>1 DEF Level
<1> QED
  BY <1>1, <1>3, <1>4

LEMMA LevelAfterTick ==
    ASSUME TypeOK, NEW ip \in Ips, Tick
    PROVE  Level(ip)' = Least(Cap, Level(ip) + Rate)
<1>1. CASE ip \in known
  <2> DEFINE gain == (now - last[ip]) * Rate
  <2>1. gain \in Nat
    <3>1. now - last[ip] \in Nat
      BY DEF TypeOK
    <3> QED
      BY <3>1, RateLimitAssumption
  <2>2. (now + 1 - last[ip]) * Rate = gain + Rate
    BY OneMoreTick DEF TypeOK
  <2>3. Level(ip) = Least(Cap, tokens[ip] + gain)
    BY <1>1 DEF Level
  <2>4. Level(ip)' = Least(Cap, tokens[ip] + (gain + Rate))
    <3>1. Level(ip)' = Least(Cap, tokens[ip] + (now + 1 - last[ip]) * Rate)
      <4>1. /\ known' = known /\ now' = now + 1
            /\ tokens'[ip] = tokens[ip] /\ last'[ip] = last[ip]
        BY DEF Tick, limiter
      <4>2. Level(ip)' = Least(Cap, tokens'[ip] + (now' - last'[ip]) * Rate)
        BY <1>1, <4>1 DEF Level
      <4>3. now' - last'[ip] = now + 1 - last[ip]
        BY <4>1 DEF TypeOK
      <4> HIDE DEF gain
      <4> QED
        BY <4>1, <4>2, <4>3
    <3> QED
      BY <2>2, <3>1
  <2> HIDE DEF gain
  <2> QED
    BY <2>1, <2>3, <2>4, RateLimitAssumption DEF Least, TypeOK
<1>2. CASE ip \notin known
  BY <1>2, RateLimitAssumption DEF Level, Tick, limiter, Least
<1> QED
  BY <1>1, <1>2

\* A bucket that is swept has been idle for longer than it takes to fill.
LEMMA SweptAreFull ==
    ASSUME TypeOK, NEW ip \in Swept, FillsInTime
    PROVE  Level(ip) = Cap
<1>1. ip \in known /\ ip \in Ips /\ now - last[ip] \in Nat /\ Idle <= now - last[ip]
  BY RateLimitAssumption DEF Swept, TypeOK
<1>2. Idle * Rate <= (now - last[ip]) * Rate /\ (now - last[ip]) * Rate \in Nat
  BY <1>1, ProductsAreMonotone, RateLimitAssumption
<1> QED
  BY <1>1, <1>2, RateLimitAssumption DEF Level, Least, FillsInTime, TypeOK

LEMMA LevelAfterSweep ==
    ASSUME TypeOK, NEW ip \in Ips, Sweep
    PROVE  /\ Level(ip)' \in {Level(ip), Cap}
           /\ FillsInTime => Level(ip)' = Level(ip)
<1>1. CASE ip \in Swept
  BY <1>1, SweptAreFull DEF Sweep, Level
<1>2. CASE ip \notin Swept
  BY <1>2 DEF Sweep, Level
<1> QED
  BY <1>1, <1>2

-----------------------------------------------------------------------------
(* Types *)

LEMMA InitTyped == Init => TypeOK
BY RateLimitAssumption DEF Init, TypeOK

\* What the level gives in a step of Allow, and the promise it makes.
LEMMA AllowFacts ==
    ASSUME TypeOK, NEW ip \in Ips, Allow(ip)
    PROVE  /\ now' = now /\ earned' = earned
           /\ \A other \in Ips \ {ip} : Level(other)' = Level(other)
           /\ known' \subseteq Ips /\ tokens' \in [Ips -> 0..Cap] /\ last' \in [Ips -> Nat]
           /\ \A any \in Ips : last'[any] <= now'
           /\ Granted(ip) => Level(ip) >= Cost /\ Level(ip)' = Level(ip) - Cost
           /\ Refused(ip) => Level(ip) < Cost /\ Level(ip)' = Level(ip)
<1>1. Level(ip) \in 0..Cap
  BY LevelType
<1>2. now' = now /\ earned' = earned
  BY DEF Allow, Granted, Refused
<1>3. CASE Granted(ip)
  <2>1. Level(ip) >= Cost /\ ~(Level(ip) < Cost) /\ Level(ip) - Cost \in 0..Cap
    BY <1>1, <1>3, RateLimitAssumption DEF Granted
  <2> QED
    BY <1>2, <1>3, <2>1, LevelAfterTouch DEF Granted, Refused
<1>4. CASE Refused(ip)
  <2>1. Level(ip) < Cost /\ ~(Level(ip) >= Cost)
    BY <1>1, <1>4, RateLimitAssumption DEF Refused
  <2> QED
    BY <1>1, <1>2, <1>4, <2>1, LevelAfterTouch DEF Granted, Refused
<1> QED
  BY <1>3, <1>4 DEF Allow

\* The time a refused phone is told to come back at.
LEMMA PromiseType ==
    ASSUME TypeOK, NEW ip \in Ips, Level(ip) < Cost
    PROVE  now + (RetryAfter(Level(ip)) + 1) * Second \in Nat
<1>1. RetryAfter(Level(ip)) \in Nat
  BY LevelType, RetryAfterMakesUp
<1>2. (RetryAfter(Level(ip)) + 1) * Second \in Nat
  BY <1>1, RateLimitAssumption
<1> QED
  BY <1>2 DEF TypeOK

LEMMA StepTyped ==
    ASSUME TypeOK, [Next]_vars
    PROVE  TypeOK'
<1>1. ASSUME NEW ip \in Ips, Allow(ip) PROVE TypeOK'
  <2>1. /\ known' \subseteq Ips /\ tokens' \in [Ips -> 0..Cap] /\ last' \in [Ips -> Nat]
        /\ now' = now /\ earned' = earned
        /\ \A any \in Ips : last'[any] <= now'
    BY <1>1, AllowFacts
  <2>2. promise' \in [Ips -> Nat \cup {NoPromise}]
    <3>1. CASE Granted(ip)
      BY <3>1 DEF Granted, TypeOK
    <3>2. CASE Refused(ip)
      <4>1. now + (RetryAfter(Level(ip)) + 1) * Second \in Nat
        BY <3>2, PromiseType DEF Refused
      <4> QED
        BY <3>2, <4>1 DEF Refused, TypeOK
    <3> QED
      BY <1>1, <3>1, <3>2 DEF Allow
  <2>3. spent' \in [Ips -> Nat]
    BY <1>1, RateLimitAssumption DEF Allow, Granted, Refused, TypeOK
  <2> QED
    BY <2>1, <2>2, <2>3 DEF TypeOK
<1>2. CASE Sweep
  BY <1>2 DEF Sweep, TypeOK
<1>3. CASE Tick
  BY <1>3, RateLimitAssumption DEF Tick, limiter, TypeOK
<1>4. CASE Observe
  BY <1>4 DEF Observe, limiter, TypeOK
<1>5. CASE UNCHANGED vars
  BY <1>5 DEF vars, TypeOK
<1> QED
  BY <1>1, <1>2, <1>3, <1>4, <1>5 DEF Next

\* The limiter is typed: a bucket never holds less than nothing or more than
\* the burst, and no bucket is stamped with a time to come.
THEOREM LimiterIsTyped == Spec => []TypeOK
<1>1. TypeOK /\ [Next]_vars => TypeOK'
  BY StepTyped
<1> QED
  BY InitTyped, <1>1, PTL DEF Spec

-----------------------------------------------------------------------------
(* Retry-After *)

\* A refused phone has its token, or will have it when it was told it would.
Promised(ip) ==
    promise[ip] # NoPromise =>
        \/ Level(ip) >= Cost
        \/ /\ now < promise[ip]
           /\ Level(ip) + (promise[ip] - now) * Rate >= Cost

PromiseInv == TypeOK /\ \A ip \in Ips : Promised(ip)

LEMMA PromiseStep ==
    ASSUME PromiseInv, [Next]_vars, NEW ip \in Ips
    PROVE  Promised(ip)'
<1>1. TypeOK /\ Promised(ip) /\ TypeOK'
  BY StepTyped DEF PromiseInv
<1>2. Level(ip) \in 0..Cap /\ promise[ip] \in Nat \cup {NoPromise} /\ now \in Nat
  BY <1>1, LevelType DEF TypeOK
<1>3. CASE Granted(ip)
  BY <1>1, <1>3 DEF Granted, Promised, TypeOK
<1>4. CASE Refused(ip)
  <2> DEFINE wait == (RetryAfter(Level(ip)) + 1) * Second
  <2>1. Level(ip)' = Level(ip) /\ now' = now /\ Level(ip) < Cost
    BY <1>1, <1>4, AllowFacts DEF Allow
  <2>2. CASE promise[ip] # NoPromise
    <3>1. promise'[ip] = promise[ip]
      BY <1>1, <1>4, <2>2 DEF Refused, TypeOK
    <3> QED
      BY <1>1, <2>1, <3>1 DEF Promised
  <2>3. CASE promise[ip] = NoPromise
    <3>1. promise'[ip] = now + wait
      BY <1>1, <1>4, <2>3 DEF Refused, TypeOK
    <3>2. wait \in Nat /\ wait > 0 /\ Level(ip) + wait * Rate >= Cost
      <4>1. RetryAfter(Level(ip)) \in Nat /\ Level(ip) + wait * Rate >= Cost
        BY <1>2, <2>1, RetryAfterMakesUp
      <4> QED
        BY <4>1, RateLimitAssumption
    <3> HIDE DEF wait
    <3>3. promise'[ip] - now' = wait
      BY <1>2, <2>1, <3>1, <3>2
    <3> QED
      BY <1>2, <2>1, <3>1, <3>2, <3>3 DEF Promised
  <2> QED
    BY <2>2, <2>3
<1>5. ASSUME NEW other \in Ips \ {ip}, Allow(other) PROVE Promised(ip)'
  <2>1. Level(ip)' = Level(ip) /\ now' = now
    BY <1>1, <1>5, AllowFacts
  <2>2. promise'[ip] = promise[ip]
    BY <1>1, <1>5 DEF Allow, Granted, Refused, TypeOK
  <2> QED
    BY <1>1, <2>1, <2>2 DEF Promised
<1>6. CASE Sweep
  <2>1. Level(ip)' \in {Level(ip), Cap} /\ now' = now /\ promise' = promise
    BY <1>1, <1>6, LevelAfterSweep DEF Sweep
  <2> QED
    BY <1>1, <1>2, <2>1, RateLimitAssumption DEF Promised
<1>7. CASE Tick
  <2>1. Level(ip)' = Least(Cap, Level(ip) + Rate) /\ now' = now + 1 /\ promise' = promise
    BY <1>1, <1>7, LevelAfterTick DEF Tick
  <2>2. CASE promise[ip] # NoPromise /\ Level(ip) < Cost
    <3> DEFINE left == promise[ip] - now
    <3>1. left \in Nat \ {0} /\ Level(ip) + left * Rate >= Cost
      BY <1>1, <1>2, <2>2, RateLimitAssumption DEF Promised
    <3>2. left * Rate = (left - 1) * Rate + Rate /\ (left - 1) * Rate \in Nat
      BY <3>1, RateLimitAssumption
    <3>3. promise'[ip] - now' = left - 1
      BY <1>2, <2>1, <2>2
    <3>4. left = 1 => (left - 1) * Rate = 0
      BY RateLimitAssumption
    <3>5. left # 1 => now' < promise'[ip]
      BY <1>2, <2>1, <2>2, <3>1
    <3> HIDE DEF left
    <3> QED
      BY <1>2, <2>1, <3>1, <3>2, <3>3, <3>4, <3>5, RateLimitAssumption DEF Promised, Least
  <2>3. CASE promise[ip] = NoPromise \/ ~(Level(ip) < Cost)
    BY <1>2, <2>1, <2>3, RateLimitAssumption DEF Promised, Least
  <2> QED
    BY <2>2, <2>3
<1>8. CASE Observe \/ UNCHANGED vars
  BY <1>1, <1>8 DEF Observe, limiter, vars, Promised, Level
<1> QED
  BY <1>3, <1>4, <1>5, <1>6, <1>7, <1>8 DEF Next, Allow

\* A phone that waits for Retry-After and a second more is let through, for
\* every setting of the limiter and every time of sweeping.
THEOREM WaitingIsEnough == Spec => []RetryAfterIsEnough
<1>1. Init => PromiseInv
  BY InitTyped DEF Init, PromiseInv, Promised
<1>2. PromiseInv /\ [Next]_vars => PromiseInv'
  BY PromiseStep, StepTyped DEF PromiseInv
<1>3. PromiseInv => RetryAfterIsEnough
  <2> SUFFICES ASSUME PromiseInv, NEW ip \in Ips, promise[ip] # NoPromise, now >= promise[ip]
               PROVE  Level(ip) >= Cost
    BY DEF RetryAfterIsEnough
  <2>1. now \in Nat /\ promise[ip] \in Nat /\ Promised(ip)
    BY DEF PromiseInv, TypeOK
  <2> QED
    BY <2>1 DEF Promised
<1> QED
  BY <1>1, <1>2, <1>3, PTL DEF Spec

-----------------------------------------------------------------------------
(* The budget *)

\* What has been paid and what is left have been there at the start of the
\* window or have been earned in it.
Balanced(ip) == spent[ip] + Level(ip) <= Cap + earned

BudgetInv == TypeOK /\ \A ip \in Ips : Balanced(ip)

LEMMA BudgetStep ==
    ASSUME FillsInTime, BudgetInv, [Next]_vars, NEW ip \in Ips
    PROVE  Balanced(ip)'
<1>1. TypeOK /\ Balanced(ip) /\ TypeOK'
  BY StepTyped DEF BudgetInv
<1>2. Level(ip) \in 0..Cap /\ spent[ip] \in Nat /\ earned \in Nat
  BY <1>1, LevelType DEF TypeOK
<1>3. CASE Allow(ip)
  <2>1. earned' = earned
    BY <1>1, <1>3, AllowFacts
  <2>2. CASE Granted(ip)
    <3>1. Level(ip)' = Level(ip) - Cost /\ spent'[ip] = spent[ip] + Cost
      BY <1>1, <1>3, <2>2, AllowFacts DEF Granted, TypeOK
    <3> QED
      BY <1>1, <1>2, <2>1, <3>1, RateLimitAssumption DEF Balanced
  <2>3. CASE Refused(ip)
    <3>1. Level(ip)' = Level(ip) /\ spent' = spent
      BY <1>1, <1>3, <2>3, AllowFacts DEF Refused
    <3> QED
      BY <1>1, <2>1, <3>1 DEF Balanced
  <2> QED
    BY <1>3, <2>2, <2>3 DEF Allow
<1>4. ASSUME NEW other \in Ips \ {ip}, Allow(other) PROVE Balanced(ip)'
  <2>1. Level(ip)' = Level(ip) /\ earned' = earned
    BY <1>1, <1>4, AllowFacts
  <2>2. spent'[ip] = spent[ip]
    BY <1>1, <1>4 DEF Allow, Granted, Refused, TypeOK
  <2> QED
    BY <1>1, <2>1, <2>2 DEF Balanced
<1>5. CASE Sweep
  <2>1. Level(ip)' = Level(ip) /\ spent' = spent /\ earned' = earned
    BY <1>1, <1>5, LevelAfterSweep DEF Sweep
  <2> QED
    BY <1>1, <2>1 DEF Balanced
<1>6. CASE Tick
  <2>1. Level(ip)' = Least(Cap, Level(ip) + Rate) /\ earned' = earned + Rate /\ spent' = spent
    BY <1>1, <1>6, LevelAfterTick DEF Tick
  <2> QED
    BY <1>1, <1>2, <2>1, RateLimitAssumption DEF Balanced, Least
<1>7. CASE Observe
  <2>1. Level(ip)' = Level(ip) /\ spent'[ip] = 0 /\ earned' = 0
    BY <1>7 DEF Observe, limiter, Level
  <2> QED
    BY <1>2, <2>1, RateLimitAssumption DEF Balanced
<1>8. CASE UNCHANGED vars
  BY <1>1, <1>8 DEF vars, Balanced, Level
<1> QED
  BY <1>3, <1>4, <1>5, <1>6, <1>7, <1>8 DEF Next

\* If a bucket fills in the time after which it is swept, an address is never
\* let through more often than its burst and its rate allow, in any window.
THEOREM BudgetIsKept == FillsInTime => (Spec => []WithinBudget)
<1> SUFFICES ASSUME FillsInTime
             PROVE  Spec => []WithinBudget
  OBVIOUS
<1>1. Init => BudgetInv
  <2> SUFFICES ASSUME Init, NEW ip \in Ips
               PROVE  Balanced(ip)
    BY InitTyped DEF BudgetInv
  <2> QED
    BY RateLimitAssumption DEF Init, Balanced, Level
<1>2. BudgetInv /\ [Next]_vars => BudgetInv'
  BY BudgetStep, StepTyped DEF BudgetInv
<1>3. BudgetInv => WithinBudget
  <2> SUFFICES ASSUME BudgetInv, NEW ip \in Ips
               PROVE  spent[ip] <= Cap + earned
    BY DEF WithinBudget
  <2>1. Level(ip) \in 0..Cap /\ spent[ip] \in Nat /\ earned \in Nat /\ Balanced(ip)
    BY LevelType DEF BudgetInv, TypeOK
  <2> QED
    BY <2>1, RateLimitAssumption DEF Balanced
<1> QED
  BY <1>1, <1>2, <1>3, PTL DEF Spec

-----------------------------------------------------------------------------
(* The refinement *)

LEMMA StepsAreBucketSteps ==
    ASSUME FillsInTime, TypeOK, [Next]_vars
    PROVE  [Exact!TBNext]_(Exact!tbVars)
<1> DEFINE level == [ip \in Ips |-> Level(ip)]
<1>1. ASSUME NEW ip \in Ips, Allow(ip) PROVE Exact!Grant(ip) \/ Exact!Deny(ip)
  <2>1. /\ earned' = earned
        /\ \A other \in Ips \ {ip} : Level(other)' = Level(other)
    BY <1>1, AllowFacts
  <2>2. CASE Granted(ip)
    <3>1. Level(ip) >= Cost /\ Level(ip)' = Level(ip) - Cost
      BY <1>1, <2>2, AllowFacts
    <3>2. level' = [level EXCEPT ![ip] = @ - Cost]
      BY <2>1, <3>1
    <3> QED
      BY <2>1, <2>2, <3>1, <3>2 DEF Exact!Grant, Granted
  <2>3. CASE Refused(ip)
    <3>1. Level(ip) < Cost /\ Level(ip)' = Level(ip) /\ spent' = spent
      BY <1>1, <2>3, AllowFacts DEF Refused
    <3>2. level' = level
      BY <2>1, <3>1
    <3> QED
      BY <2>1, <3>1, <3>2 DEF Exact!Deny, Exact!tbVars
  <2> QED
    BY <1>1, <2>2, <2>3 DEF Allow
<1>2. CASE Sweep
  <2>1. \A ip \in Ips : Level(ip)' = Level(ip)
    BY <1>2, LevelAfterSweep
  <2>2. level' = level
    BY <2>1
  <2> QED
    BY <1>2, <2>2 DEF Sweep, Exact!tbVars
<1>3. CASE Tick
  <2>1. \A ip \in Ips : Level(ip)' = Least(Cap, Level(ip) + Rate)
    BY <1>3, LevelAfterTick
  <2>2. level' = [ip \in Ips |-> Exact!Least(Cap, level[ip] + Rate)]
    BY <2>1 DEF Least, Exact!Least
  <2> QED
    BY <1>3, <2>2 DEF Tick, Exact!TBNext, Exact!Refill
<1>4. CASE Observe
  <2>1. \A ip \in Ips : Level(ip)' = Level(ip)
    BY <1>4 DEF Observe, limiter, Level
  <2>2. level' = level
    BY <2>1
  <2> QED
    BY <1>4, <2>2 DEF Observe, Exact!TBNext, Exact!Observe
<1>5. CASE UNCHANGED vars
  <2>1. \A ip \in Ips : Level(ip)' = Level(ip)
    BY <1>5 DEF vars, Level
  <2>2. level' = level
    BY <2>1
  <2> QED
    BY <1>5, <2>2 DEF vars, Exact!tbVars
<1> QED
  BY <1>1, <1>2, <1>3, <1>4, <1>5 DEF Next, Exact!TBNext

\* The limiter that forgets idle addresses decides as the bucket that forgets
\* nothing, provided that a bucket fills in the time after which it is swept.
THEOREM SweepIsHarmless == FillsInTime => (Spec => ImplementsTokenBucket)
<1> SUFFICES ASSUME FillsInTime
             PROVE  Spec => ImplementsTokenBucket
  OBVIOUS
<1>1. Init => Exact!TBInit
  <2> SUFFICES ASSUME Init
               PROVE  Exact!TBInit
    OBVIOUS
  <2>1. \A ip \in Ips : Level(ip) = Cap
    BY DEF Init, Level
  <2> QED
    BY <2>1 DEF Init, Exact!TBInit
<1>2. Init => TypeOK
  BY InitTyped
<1>3. TypeOK /\ [Next]_vars => TypeOK' /\ [Exact!TBNext]_(Exact!tbVars)
  BY StepTyped, StepsAreBucketSteps
<1> QED
  BY <1>1, <1>2, <1>3, PTL DEF Spec, ImplementsTokenBucket, Exact!TBSpec

=============================================================================
