---------------------------- MODULE RateLimiter ----------------------------
(***************************************************************************)
(* The per-client token buckets of pkg/rdap/middleware/ratelimit.go: Allow *)
(* reads the clock before it takes the mutex, so the readings of two       *)
(* requests need not reach a bucket in order, and CleanupIdle, run by a    *)
(* ticker (cmd/gordap/main.go), removes idle buckets, which the next       *)
(* request of that client finds full.                                      *)
(*                                                                         *)
(* Time is discrete.  Tokens are counted in fractions: a request costs     *)
(* Cost of them, so that rates below one request per unit of time are      *)
(* whole numbers.  A limiter with rate 0 is never built (main.go).         *)
(***************************************************************************)
EXTENDS Integers, Functions

CONSTANTS
  Call,         \* the requests made in a behaviour
  Client,       \* the keys that ClientIP or ForwardedClientIP give
  Rate,         \* RateLimiter.rate, burst, maxIdle
  Burst,
  MaxIdle,
  Cost,         \* one token
  MaxLag,       \* longest time from the clock reading to the critical section
  LastArrival,  \* no request begins later
  MaxTime       \* bound on the clock

\* maxIdle is ten minutes, whatever the flags that set rate and burst; no
\* request waits that long for the mutex.
ASSUME LimiterAssumption ==
  /\ Rate \in Nat \ {0} /\ Burst \in Nat /\ Cost \in Nat \ {0}
  /\ MaxIdle \in Nat /\ MaxLag \in Nat /\ LastArrival \in Nat /\ MaxTime \in Nat
  /\ MaxLag <= MaxIdle

VARIABLES
  now,        \* the clock
  buckets,    \* client |-> bucket, for the clients that have one
  stage,         \* where each request is
  client,     \* the client of each request
  seen,       \* the clock reading of each request
  sweeping,   \* whether CleanupIdle has read the clock, and
  cutoff,     \* its reading less maxIdle
  granted,    \* history: the requests granted to each client,
  overtaken,  \* those whose reading was older than the bucket's, and
  pruned,     \* how often its bucket was pruned, and
  forgotten   \* the bucket a client had when it was last pruned

limiterVars == <<now, buckets, stage, client, seen, sweeping, cutoff, granted, overtaken, pruned, forgotten>>

Bucket == [tokens : Nat, lastSeen : Nat]

LimiterTypeOK ==
  /\ now \in Nat
  /\ DOMAIN buckets \subseteq Client /\ buckets \in [DOMAIN buckets -> Bucket]
  /\ stage \in [Call -> {"idle", "timed", "served", "rejected"}]
  /\ client \in [Call -> Client]
  /\ seen \in [Call -> Nat]
  /\ sweeping \in BOOLEAN /\ cutoff \in Int
  /\ granted \in [Client -> Nat] /\ overtaken \in [Client -> Nat]
  /\ pruned \in [Client -> Nat] /\ forgotten \in [Client -> Bucket]

NewBucket(t) == [tokens |-> Burst, lastSeen |-> t]

LimiterInit ==
  /\ now = 0
  /\ buckets = <<>>
  /\ stage = [q \in Call |-> "idle"]
  /\ client \in [Call -> Client]
  /\ seen = [q \in Call |-> 0]
  /\ sweeping = FALSE /\ cutoff = 0
  /\ granted = [k \in Client |-> 0] /\ overtaken = [k \in Client |-> 0]
  /\ pruned = [k \in Client |-> 0] /\ forgotten = [k \in Client |-> NewBucket(0)]

----------------------------------------------------------------------------
\* Allow, up to the mutex.
ReadClock(q) ==
  /\ stage[q] = "idle" /\ now <= LastArrival
  /\ stage' = [stage EXCEPT ![q] = "timed"]
  /\ seen' = [seen EXCEPT ![q] = now]
  /\ UNCHANGED <<now, buckets, client, sweeping, cutoff, granted, overtaken, pruned, forgotten>>

minF64(a, b) == IF a < b THEN a ELSE b

Refilled(b, t) ==
  IF t > b.lastSeen THEN minF64(Burst, b.tokens + (t - b.lastSeen) * Rate) ELSE b.tokens

\* Mutant: a new bucket starts empty.
TokensStartEmpty(q) ==
  LET k == client[q] IN
  IF k \in DOMAIN buckets THEN Refilled(buckets[k], seen[q]) ELSE 0

\* The tokens request q finds: those of its client's bucket, or of a new one.
Tokens(q) ==
  LET k == client[q] IN
  IF k \in DOMAIN buckets THEN Refilled(buckets[k], seen[q]) ELSE Burst

IsOvertaken(q) ==
  LET k == client[q] IN k \in DOMAIN buckets /\ seen[q] < buckets[k].lastSeen

Store(q, tokens) ==
  /\ buckets' = [k \in DOMAIN buckets \cup {client[q]} |->
       IF k = client[q] THEN [tokens |-> tokens, lastSeen |-> seen[q]] ELSE buckets[k]]
  /\ overtaken' = [overtaken EXCEPT ![client[q]] = IF IsOvertaken(q) THEN @ + 1 ELSE @]

\* Allow's critical section, and Middleware: the request is served ...
Allow(q) ==
  /\ stage[q] = "timed" /\ Tokens(q) >= Cost
  /\ Store(q, Tokens(q) - Cost)
  /\ stage' = [stage EXCEPT ![q] = "served"]
  /\ granted' = [granted EXCEPT ![client[q]] = @ + 1]
  /\ UNCHANGED <<now, client, seen, sweeping, cutoff, pruned, forgotten>>

\* ... or gets 429.
Reject(q) ==
  /\ stage[q] = "timed" /\ Tokens(q) < Cost
  /\ Store(q, Tokens(q))
  /\ stage' = [stage EXCEPT ![q] = "rejected"]
  /\ UNCHANGED <<now, client, seen, sweeping, cutoff, granted, pruned, forgotten>>

----------------------------------------------------------------------------
\* CleanupIdle, started by rateLimitCleanup's ticker: read the clock, ...
BeginSweep ==
  /\ ~sweeping
  /\ sweeping' = TRUE /\ cutoff' = now - MaxIdle
  /\ UNCHANGED <<now, buckets, stage, client, seen, granted, overtaken, pruned, forgotten>>

\* Mutant: every bucket counts as idle.
IsIdleAlways(k) == TRUE

\* Mutant: no bucket ever counts as idle.
IsIdleNever(k) == FALSE

IsIdle(k) == buckets[k].lastSeen < cutoff

\* ... and, under the mutex, drop the buckets last used before the cutoff.
Sweep ==
  LET idle == {k \in DOMAIN buckets : IsIdle(k)} IN
  /\ sweeping
  /\ sweeping' = FALSE /\ cutoff' = 0
  /\ buckets' = Restrict(buckets, DOMAIN buckets \ idle)
  /\ pruned' = [k \in Client |-> IF k \in idle THEN pruned[k] + 1 ELSE pruned[k]]
  /\ forgotten' = [k \in Client |-> IF k \in idle THEN buckets[k] ELSE forgotten[k]]
  /\ UNCHANGED <<now, stage, client, seen, granted, overtaken>>

\* Time passes, but no request waits longer than MaxLag for the mutex.
Tick ==
  /\ now < MaxTime
  /\ \A q \in Call : stage[q] = "timed" => now < seen[q] + MaxLag
  /\ now' = now + 1
  /\ UNCHANGED <<buckets, stage, client, seen, sweeping, cutoff, granted, overtaken, pruned, forgotten>>

LimiterNext ==
  \/ \E q \in Call : ReadClock(q) \/ Allow(q) \/ Reject(q)
  \/ BeginSweep \/ Sweep \/ Tick

LimiterSpec == LimiterInit /\ [][LimiterNext]_limiterVars

\* Requests get the mutex, the ticker keeps ticking and time goes on.
LimiterFairness ==
  /\ \A q \in Call : WF_limiterVars(Allow(q) \/ Reject(q))
  /\ WF_limiterVars(BeginSweep) /\ WF_limiterVars(Sweep) /\ WF_limiterVars(Tick)

LimiterFairSpec == LimiterSpec /\ LimiterFairness

----------------------------------------------------------------------------
\* The idle time a bucket has certainly had when a request finds it pruned, and
\* what pruning may give its client: nothing if a bucket refills in that time
\* (GiftLemma in MiddlewareProofs), else what was missing.
Idle == MaxIdle - MaxLag
Gift == IF Burst <= Idle * Rate THEN 0 ELSE Burst - Idle * Rate

\* NewRateLimiter, Allow (ratelimit.go:46, 52): a client gets its burst and the
\* sustained rate, plus one refill of at most MaxLag for each of its requests
\* that another one overtook between the clock reading and the mutex, plus one
\* Gift for every time its bucket was pruned before it could be full.
BudgetBounded ==
  \A k \in Client :
    granted[k] * Cost <= Burst + Gift * pruned[k] + Rate * (now + MaxLag * overtaken[k])

\* Allow (ratelimit.go:74): no request is rejected before its client has had
\* its whole burst, whatever other clients, sweeps and clock readings do.
BurstGuaranteed ==
  \A q \in Call : stage[q] = "rejected" => Burst < (granted[client[q]] + 1) * Cost

\* CleanupIdle (ratelimit.go:177): pruning is visible only as the refill of an
\* account that nobody touched for longer than Idle.  But for that the limiter
\* behaves like one that keeps an account for every client for ever.
Accounts == INSTANCE TokenAccounts WITH
  Time <- 0..MaxTime,
  account <- [k \in Client |-> IF k \in DOMAIN buckets THEN buckets[k] ELSE forgotten[k]]

ImplementsAccounts == Accounts!Spec

\* rateLimitCleanup (main.go:413): when requests cease, the table of buckets
\* becomes empty, also if a sweep and a late request cross.
IdleBucketsArePruned == <>[](DOMAIN buckets = {})

(* The inductive invariant behind these properties.                        *)

\* How old the clock readings of requests and of the sweep can be.
ReadingInv ==
  /\ now <= MaxTime
  /\ \A q \in Call : stage[q] = "timed" => seen[q] <= now /\ now <= seen[q] + MaxLag
  /\ sweeping => cutoff <= now - MaxIdle

\* What client k has spent and still has, against its burst and its refills.
Balanced(k) ==
  LET b == buckets[k] IN
  /\ b.lastSeen <= now /\ b.tokens <= Burst
  /\ granted[k] * Cost + b.tokens 
       <= Burst + Gift * pruned[k] + Rate * (b.lastSeen + MaxLag * overtaken[k])
  /\ Burst <= granted[k] * Cost + b.tokens

\* A client without a bucket is new, or its bucket was last used so long ago
\* that a new one gives it no more than the refill until a lag ago and a Gift.
Rested(k) ==
  \/ granted[k] = 0 /\ forgotten[k] = NewBucket(0)
  \/ /\ granted[k] * Cost <= Gift * pruned[k] + Rate * (now - MaxLag + MaxLag * overtaken[k])
     /\ forgotten[k].lastSeen < now - MaxIdle

\* The conjunction is inductive: clock readings, buckets and what the clients
\* were granted agree between any two critical sections.
BudgetInv ==
  /\ LimiterTypeOK /\ ReadingInv /\ BurstGuaranteed
  /\ \A k \in DOMAIN buckets : Balanced(k)
  /\ \A k \in Client \ DOMAIN buckets : Rested(k)

============================================================================
