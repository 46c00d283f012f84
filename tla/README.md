# gordap in TLA+

This directory models gordap, an RDAP server written in Go, in TLA+. TLC checks
the models on small instances, and TLAPS proves the main properties for every
value of the constants. `PROJECT.json` lists the components, the runs, the source
lines of each definition, the mutants that show that each property can fail, the
hazards and the theorems.

## 1. The system

A request passes the middleware (access log, security and CORS headers, rate
limiter, body limit, timeout, gzip, response cache, authentication) and the router, and reaches a handler. The handler asks the data
source, which is PostgreSQL or an in-memory store behind the record cache. The
record is redacted for the caller's tier and rendered. An object that is not
there may be referred to another server, found in the IANA bootstrap registry.
Searches go to an index beside the data source. Three tools go with the server: one
fills a database with a synthetic corpus, one loads a server that uses it and judges
the answers, and one rolls up the reports of several such runs.

| component | source | state | operations | who acts concurrently |
|---|---|---|---|---|
| record cache | `cache/cache.go` | four LRU buckets, one singleflight table | lookup, lead or join a call, fetch, put, refresh | requests, background refreshes |
| rate limiter | `middleware/ratelimit.go` | a token bucket per client | Allow, CleanupIdle | requests, a ticker |
| handlers, response cache | `handlers/*.go`, `cache/response.go` | one LRU of responses | Get, handler, Put, panic, restart | requests |
| token verification | `auth/jwks/*.go` | cached keys, their next fetch, a lock, token identifiers seen | keyFor, fetch, claims, replay check with prune | requests, the identity provider |
| bootstrap registry | `bootstrap/bootstrap.go` | three tables | Refresh, DomainServers, IPServers | main, the refresh loop, requests, IANA |
| server lifecycle | `cmd/gordap/main.go` | start-up, context, listener, loop | start, signal, listen, shut down | main, listener goroutine, signals |
| search | `handlers/search.go`, `search/`, both `storage/*/search.go` | the rows, the client's cursor | check, count, select, respond | one client's walk, the registry's writes |
| contacts | `mapper/*.go`, `storage/postgres/postgres.go` | versions of contacts, what a request has read | read in one or three statements, redact, map | a request, the registry's writes |
| middleware chain | `middleware/*.go`, `observability/`, `handlers/response_cache.go` | header map and writers of each request, the pool of compressors | each layer's work before and after the next, writes, panic, unwinding | requests, the garbage collector |
| load tools | `cmd/gordap-seed`, `cmd/gordap-stress`, `cmd/gordap-stress-aggregate` | seven tables, shared counters, reports | truncate, flush, query, count, report, roll up | the workers, the server under test, whoever stops a seeder |

Paths are below `src/pkg/rdap/` unless they begin with `cmd`. What is hard here is
in the list of hazards. Most of it is of three kinds. Clocks and tables are read
outside the critical section that uses them. Work is shared between requests that
do not know each other. And reads that belong together are made in several steps.

## 2. The modules

| module | what it is |
|---|---|
| `LRU` | the map and list of both caches, as operators |
| `RecordCache` | the record cache, one action per critical section |
| `RecordContract` | what the record cache promises: the abstract specification |
| `RateLimiter` | the token buckets and the sweeps |
| `TokenAccounts` | what the limiter promises: an account per client, for ever |
| `Handlers` | routing, negotiation, lookups and their errors, as operators |
| `ResponseCache` | middleware, handlers and response cache on top of `RecordContract` |
| `Verifier` | key cache and replay table |
| `Bootstrap` | the tables and both lookups, as operators, and what the files say |
| `Server` | process, listener, refreshes and referrals on top of `Bootstrap` |
| `Patterns` | MatchPattern, ilikePattern and LIKE, as operators |
| `Search` | handlers, both indexes and the client's walk, on top of `Patterns` |
| `Contacts` | reading, redacting and mapping contacts |
| `Chain` | the handlers around the router in main.go's order, with their writers |
| `Seed` | the seeder's statements, its stops and its reruns |
| `Stress` | the workers and their counters, on the corpus of `Seed` |
| `LoadTest` | seeding, load test and roll-up one after the other: `Seed`, `Stress` and the aggregator |
| `LRUProofs`, `RecordCacheProofs`, `ResponseCacheProofs` | theorems about both caches |
| `MiddlewareProofs` | theorems about `Chain` and `RateLimiter` |
| `RefreshProofs` | theorems about `Verifier`, `Bootstrap` and `Server` |
| `ContentProofs` | theorems about `Contacts`, `Patterns` and `Search` |
| `StressProofs`, `LoadTestProofs` | theorems about `Seed`, `Stress` and `LoadTest` |
| `MC*` | data and symmetry for TLC |

**Composition.** `RecordCache` implements `RecordContract` (run
`record_liveness`), and `ResponseCache` contains `RecordContract` instead of the
cache itself. What the handlers are given is thus anything the contract allows.
`Server` uses the lookups of `Bootstrap` for its answers. `Chain` composes all layers of
the middleware; what the limiter decides and when an entry of the response cache goes
is any choice there, and detailed in `RateLimiter` and `ResponseCache`. `LoadTest` runs
`Stress` on the very tables that `Seed` left, so that what the one puts in and what
the other expects must agree.

**How state corresponds to code.** Each module says it at its variables. The
common conventions:

* A Go map is a function on the keys it holds; a list element is its key.
* A goroutine is a program counter. A step is a critical section, a clock
  reading outside one, a statement sent to the database, or an HTTP exchange.
* Time is a number. Bounds such as `MaxLag` (from a read of the data source to
  the put; from Allow's clock reading to the mutex) are constants. Properties are
  stated in terms of them, so that nothing is hidden by choosing them small.
* The contents of a record are the time it was read (`RecordCache`,
  `ResponseCache`) or the number of its version (`Contacts`, `Server`). That
  is enough to tell fresh from stale and consistent from torn.
* A token, a query or a contact is a record of the facts the code tests.
* In `Chain` the writers of a request are one record: the shared header map, what was
  sent, and the fields of the gzip and capture writers. A body is the sequence of the
  units written, each marked with whose write it was; on the connection also with its
  coding.
* In `Seed` a row is the index synth makes it from. In `Stress` atomic counters that only
  the report reads are counted in one step; what two workers can race for, an entry
  a map does not hold yet, takes two.

Names of operators follow the code: `PutEntry` is `lru.put`, `Stamp` the clock
reading after the type assertion in `getOrLoad`, `Touch` the move to the front
that a hit does, `BeginFetch`, `Store` and `ReceiveFails` the parts of `keyFor`'s
slow path, `NextOffset` is `pagingMeta`. Definitions marked "Mutant" are broken
variants of the definition below them; no specification uses them.

## 3. What TLC checks

"V" marks runs that look for a violation and find it; section 5 explains them.
Deadlock is not checked anywhere: in every model the bounded requests are served
at some time and the bounded clock stops.

| run | states | what it shows |
|---|---|---|
| `record_safety` | 1,348,625 | One fetch per key; no lost wake-up, except for the waiters of a call whose leader panicked in the data source; map and list agree within the capacity; an answer is younger than `MaxLag` + TTL (NegTTL for an error) + StaleTTL; a joined result and an overwritten one are at most `MaxLag` apart from what they should be. |
| `record_liveness` | 116,112 | The contract is implemented; requests and refreshes end unless they wait for a key the data source never answers. |
| `record_assertion` (V) | | the type assertion can fail |
| `rate_budget` | 305,914 | A client gets its burst, its rate, one lag per overtaken request and, per pruning, what the idle time did not refill, and never less than its burst; the limiter implements accounts; the table empties. |
| `responses` | 2,059,841 | Hits are what the handler answers to this query for this tier; the two caches' ages add up to a bound. And of what is rendered: nobody sees more of a person than the tier allows, torn reads included; what a person's contact loses is marked; every field was stored at a moment of the request, in the order of the statements. |
| `response_forms` (V) | | a hit in another form |
| `verifier` | 577,755 | A key published during the whole call is found; a withdrawn one is used for less than RefreshEvery and a fetch; a token identifier that was accepted is refused until the token expires; every call returns. |
| `verifier_replay` (V) | | a token accepted again within the clock skew |
| `server` | 58,505 | Referrals follow an edition that was current since the last successful refresh began; tables never go back; exit status 0 means that no request was cut off; cancelling ends the process; the tables catch up. |
| `search` | 194,080 | A walk misses a row only if an earlier match was removed or rows slipped between count and select; it repeats a row only if an earlier match was inserted; both indexes agree on edge wildcards; walks end. |
| `chain` | 964,026 | Every answer arrives whole, with its status and type, in a coding the client takes, hits of pages compressed for another client included; no compressor is in two hands, or lost by a panic; security and CORS headers, Vary and the access log are right for every layer that can answer. |
| `load` | 106,662 | Truncating runs of the seeder always succeed and leave just their corpus, whatever stopped runs left; plain reruns change nothing; reports add up, blame the server only for its own failures, and lose at most one count of a status per other worker; the roll-up accounts for every request and failure under its endpoint, and its percentiles, overall and of an endpoint, lie among those of the reports and in order; every load test ends. |

**Bounds, and why they are enough.**

* `record_safety`: three requests make a leader, a joiner and a third one that
  arrives between `wg.Done` and the removal from the table; each may start a
  refresh. Two keys in a bucket of one force evictions. TTL 2, StaleTTL 1 and a
  clock up to 3 cover fresh, stale and expired. Two classes under one key make calls
  cross classes; the other key is one the data source may leave unanswered or
  panic on. `record_liveness` has one of each kind of key, so that waiting for the one
  must not hold up the other; it has one class, since crossing classes is a matter of safety.
* `rate_budget`: Rate 1, Burst 4, Cost 4 and MaxIdle 2: a request costs as much as four
  units of time refill, and a bucket can be pruned before it is full again, which is
  when a pruning gives something away. Four requests of two clients can spend, be
  refused, be overtaken and be pruned, one after the other. With these values each term
  of `BudgetBounded` is needed: without the refill, the overtaking or the gift TLC finds
  a client that got more. MaxTime lets a bucket go idle and be swept after the last
  arrival. Which requests are of which client is given up to renaming: four of one, three
  and one, two and two.
* `responses` runs one of two specifications that share no variable, the requests or the
  contacts. Two requests and a cache of one entry; the queries differ in tier, method,
  acceptability, form and validity. Time 4 passes both caches' TTLs. Two contacts, two
  changes, six shapes and none: three statements can be cut by two changes in every way.
* `verifier`: two callers, one usable and one unusable key, two identifiers, two
  tokens that share one. RefreshEvery 2, a leeway of 1 and a clock up to 3 cover
  fetch, expiry and prune. No symmetry, because of liveness.
* `server`: three files with their editions; zones that overlap, differ in case
  or come twice; overlapping and broken ranges. One request is enough because
  requests do not affect each other.
* `search`: four rows and pages of one or two make walks of up to four pages; two
  changes at any two moments. Patterns with a wildcard at either end, both or none.
* `chain`: three requests, because a panic or a hit needs one that compresses, one
  that takes over the compressor and one that is served from the cache. Answers are
  written in up to three pieces around a threshold of two, are of a type not
  compressed, or are errors too small to compress. Each request compresses at most
  once, so three compressors are never too few. Two requests with every
  combination of what a request asks, and redirects, were checked as well.
* `load`: corpora of 11 and 20 are the smallest with two nameservers, where the
  roundings of the tools differ and where they agree; batches of 8 leave a rest.
  Three runs of the seeder are one to be stopped, one to be stopped or refused, and
  one to complete. Two workers and three requests race for every first entry.
  Kinds of queries: a domain that is not there and a nameserver, whose index is drawn
  differently and which is there; the other kinds draw their keys as these do or not at
  all. The report is rolled up alone, with one of a generator that made no request
  and with two that differ in their endpoints and in their latencies.

`record_safety`, the response runs and `chain` use the symmetry of requests, of contacts
and, in `chain`, of compressors; these runs check no liveness.

**Fairness.**

* Goroutines that can go on do (weak fairness), which is what the Go scheduler
  gives. In `record_liveness` this includes the data source's answer to a refresh,
  which has a deadline, and to a request only for the keys in `Answering`: a request's
  query has none (`context.Background()`, `cache/cache.go:129`).
* Sweeps and refreshes are driven by tickers, which tick (`rateLimitCleanup`,
  `refreshLoop`).
* Fetches end because the HTTP clients have timeouts, and Shutdown because of
  `-shutdown-timeout`.
* That IANA does not refuse the same file for ever is strong fairness of `Fetch`.
  It is an assumption about the environment, used only by `TablesCatchUp`.
* `StressEnds` assumes that the clock passes the deadline of the run and the timeout of a
  request, and that workers run, but not that the server ever answers.
* No fairness is assumed of signals, publications, writes or new requests.

## 4. What is proved

Each theorem holds for all values of the constants that satisfy the named
assumptions of its module. A proof shows that an invariant is inductive, one
lemma per action, and derives the properties from it.

| module | inductive invariant | theorems |
|---|---|---|
| `LRUProofs` | `Consistent` (map and list hold the same keys, none twice) | `PutEntryKeeps` and its companions for touch and remove |
| `RecordCacheProofs` | `IInv` | types, `OneFetchPerKey`, `NoLostWakeup`, `BucketsConsistent`, `ServesWhatWasAsked`, `ServedAgeBounded`, `FlightResultCurrent`, `RegressionBounded`, and the refinement `ImplementsContract` |
| `ResponseCacheProofs` | `ServerInv` | `Transparent`, `StoredClean`, `ResponseAgeBounded` |
| `MiddlewareProofs` | `ChainInv` | `AnswerIntact`, `CompressorsOwned`, `OuterLayersApply` |
| | `BudgetInv` | `BudgetBounded`, `BurstGuaranteed`, and the refinement `ImplementsAccounts` |
| `RefreshProofs` | `VerifierInv` | `PublishedKeysAreFound`, `NoReplayBeforeExpiry`, `WithdrawnKeysExpire` |
| | `RegistryInv`, `ExitInv` | `RedirectsCurrent`, `TablesNeverOlder`, `GracefulExit` |
| `ContentProofs` | `ContactsInv` | `PersonsProtected`, `PersonsMarked`, `TiersNest`, `FromTheRequestsTime`, `OneVersionOutsideEntities` |
| | `WalkInv` | types, `WalkComplete`, `RepeatedOnlyAfterInsertion`, `IndexesAgree` |
| `LoadTestProofs`, on `StressProofs` | `LoadTestInv`, on `SeedInv`, `StressInv` and `KindsCounted` | `SeedsWhole`, `PlainRerunChangesNothing`, `ReportAddsUp`, `NoFalseAlarms`, `StatusLossBounded`, `RollUpFaithful` |

Why the invariants are stronger than the properties:

* **Record cache.** That two goroutines never fetch one key follows only if the
  call table holds exactly the goroutines that lead (`FlightInv`). Ages need the
  age of every result on its way, not only of the answers (`AgeInv`). Objects may
  be of the wrong class between a join and the assertion, and nowhere else
  (`ObjectInv`). The refinement (`ContractIsKept`) maps what a bucket, a call or a goroutine
  holds to what the contract still knows: a fetch is the contract's read, the end of a
  request its answer, every other step a step that forgets, or none.
* **Rate limiter.** A bound on what was granted is preserved only together with
  what is left and with the last reading: spent + left <= burst + refills until
  `lastSeen` (`Balanced`). A client without a bucket must have rested so long that a new
  bucket gives it no more than the refill of that time and one `Gift` (`Rested`).
  `GiftLemma` says that the gift is nothing when the idle time, less a lag, refills the
  burst. So no assumption relates the burst to the idle time; the only one is that
  no request waits for the mutex longer than `MaxIdle`.
* **Response cache.** An entry must be the answer to some query with its key
  (`CacheInv`), and the time of a response on its way is bounded by `MaxDelay`
  (`AgeInv`).
* **Verifier.** The write lock belongs to whoever fetches (`LockInv`). A document
  on its way holds every key that was published throughout (`KeysInv`). An
  accepted identifier is in the table or past its expiry (`SeenInv`).
* **Search.** What is owed to the client lies at or after the offset, what it has
  lies before it, and the count covers what the page leaves (`StillAhead`,
  `AlreadyBehind`, `CountCovers`, `PageFits`). The proof rests on lemmas about
  cardinalities: how inserting or removing a row moves the rank of another, and
  that the matches from rank `offset` on fill the window from below.
* **Server.** A table is never replaced by an older one because at most one
  refresh is under way (`OneRefresh`), it began after the tables were made
  (`Within`), and what it has fetched is no older than its beginning (`Fetched`).
  That redirects are right for every file rests on two lemmas: the walk up the
  labels (`DomainLookup`) and the scan of the ranges (`AddressLookup`) find the
  service that is responsible, and there is only one. A clean exit needs that no
  request is cut while the process runs (`ExitInv`).
* **Contacts.** The versions of the row, the emails and the phones must lie in
  order within the request (`InOrder`), and a finished response must be what the
  mapper makes of them, whatever has changed since.

* **Chain.** That an answer arrives whole is a matter of where its units are at each moment:
  still in the gzip writer's buffer, held by the compressor, or coded on the wire
  (`Conveys`, in `RequestInv`). The compressor must hold exactly what its own request has
  said, so ownership is part of the same induction (`PoolInv`): a compressor out of the pool
  is with one request, writes to it, and is closed just before it is put back. A hit is
  right because the kept page is the whole body of one clean answer (`CacheInv`), never of
  one cut short by a panic. `CodedConcat` says that coding piece by piece is coding the
  whole.
* **Seeder.** A batch can be rejected only for a row whose parent is missing, so the proof
  follows the plan of a run: each batch finds its parents among the batches before it, and
  all of them together are the corpus (`PlanSound`). An inserting run has put in just its
  batches so far, a truncating one has emptied the tables it has come by, and whenever there
  is anything, entity 0 is there, on which a plain rerun fails (`SeedInv`).
* **Load test.** The counters are sums over kinds and statuses, and a worker between two of
  its steps has counted in one place and not yet in the other. `StressInv` says who
  owes what (`Accounted`). Until a status has a counter, all its answers are with workers
  about to store one; after that, those workers have lost theirs (`StatusInv`). Hence at
  most one loss per other worker. The load generator relies on two facts of the seeder, `SeedTypeOK` and
  `SeedsWhole`, not on how they are kept.
* **Roll-up.** `RollUpFaithful` needs that the endpoints' sums may be exchanged with those of
  the reports, and that a weighted mean of percentiles lies between the least and the
  greatest of them and keeps their order (`WeightedBetween`, `WeightedInOrder`). An
  endpoint is weighted by its own requests, so it must have some wherever it is
  listed, and an endpoint that is not listed must have no failures (`KindsCounted`); then
  the early return of `aggregate` for no requests loses nothing.
  `PercentilesInOrder` shows that the percentiles of one report are in order.
* **Patterns.** `MatchPattern` and LIKE on what `ilikePattern` makes of the pattern agree on
  patterns with wildcards at the edges (`PatternsAgree`). LIKE is a recursive function of
  the part of the pattern read so far; `LikeWalks` and `RunMatches` say what a wildcard and
  a run of literal characters make of it.

Two techniques carry the last proofs. The community modules' `SumFunctionOnSet` is a
fold that chooses the order of the elements; `SumTake` and its companions derive from the
definition of the fold that the order does not matter. And where an argument is an
induction over data, it is made as a descent: among the numbers, or the finite subsets,
for which a statement fails there is a least one (`LeastNumber`, `SubsetInduction`). The
statement is passed as the set of the cases where it holds, not as an operator.

The assumptions are the named ones of the modules: constants are numbers in sensible
ranges, `None` is none of the values it stands beside, the set of workers is finite and not
empty (`StressAssumption`), other reports in a roll-up are reports of the tool
(`OthersAssumption`), and the data and terms of searches are sequences (`SearchAssumption`).

**Only model-checked:** liveness (`RequestsReturn`, `IdleBucketsArePruned`, `VerifyReturns`,
`CancelEndsProcess`, `TablesCatchUp`, `WalkEnds`, `StressEnds`), because TLAPS does not reason
about fairness and ENABLED. Every invariant and every action property of the passing runs,
and both refinements, are proved as well.

**Only proved:** the inductive invariants themselves (but for `IInv`), `StoredClean`,
`TiersNest` and `OneVersionOutsideEntities`. They were checked with TLC before they were
proved, and are no longer part of the runs.

## 5. Where the code and its documentation disagree

Three runs violate a sentence of the repository.

* `record_assertion`: `v.(*V)` in `getOrLoad` (`cache/cache.go:134`) can fail. All
  four buckets share a call table keyed by the key alone, and a host name is a key
  of domains and of nameservers. The request panics, or the process when it is a
  refresh.
* `response_forms`: the negotiated jCard-only form (`handlers/handlers.go:91`) is
  not part of the cache key, so a hit may have the other form.
* `verifier_replay`: "A replayed token will be rejected." (`auth/jwks/replay.go:12`). The
  verifier accepts a token until its expiry plus the clock skew (`jwks.go:157`); the replay
  table compares with the expiry alone (`replay.go:48`, `replay.go:55`), although its
  comment says that entries stay until "that point plus leeway" (`replay.go:36`). Within
  the skew a token is accepted as often as it comes. `NoReplayBeforeExpiry` is what does
  hold; `replay_test.go:42-51` expects no more.

Further observations made while modelling, for which there is no run:

* Several stale hits of one entry start several refreshes; only overlapping ones
  are collapsed.
* Any error of the data source is cached for NegTTL, not only "not found".
* "within budget" (`middleware/ratelimit.go:50`) does not hold exactly. A request that
  reads the clock and is overtaken turns `lastSeen` back, and the time between is
  credited twice; a bucket pruned before it was full comes back full. `BudgetBounded`
  is what does hold. Idle buckets are dropped by the sweep, not on access.
* Terms have "AND semantics" (`search/search.go:28`), but PostgreSQL's domain and
  nameserver searches ignore every term except the name.
* A request whose query hangs waits without end, with the record cache on: neither
  `-request-timeout` nor the client's going away reaches the data source. A panic in the
  data source leaves the call in the table, and every later request for the key waits.
* A lookup that the request timeout ends is answered with 500 (`statusFor`), where the
  comment at `middleware/hardening.go:28` speaks of 503.
* The response cache's comment puts it "outside the gzip layer"
  (`handlers/response_cache.go`); it is inside. `AnswerIntact` holds because the snapshot
  takes only two headers, and not the Content-Encoding.
* `AccessLog` writes "one structured record per request", except for one that panics.
* `recordStatus` (`cmd/gordap-stress/main.go:189`) drops the count of a worker that loses the
  race to store a counter. The tool's nameserver queries fail for a corpus of 10, where
  there is no nameserver 1, and panic below it (`IntN(0)`); `StressAssumption` leaves
  these sizes out. The "max" of a roll-up is an average of the maxima. The header speaks of
  "the first 5 mismatches" (`main.go:13`), the code keeps 10; and `bucket.failures`, by its
  comment (`main.go:91`) responses that were parsed, counts transport errors too.
* The response cache has one capacity for all tiers together.
* Callers that wait for the key fetch may fetch again after it, when the key they
  want is not among the new ones.
* `Refresh` fetches three files; the URL of the fourth (`ASNURL`) is not used. If
  the first refresh fails, the registry stays off and no loop is started. A
  failing listener ends the process with status 0.
* `GetEntity` in PostgreSQL uses `attachChannels`, three statements without a
  transaction, although the comment at `postgres.go:386` says that it is not used
  there. `FromTheRequestsTime` says what such a read can show.
* Organisations lose fields without markers, and searches carry no markers. The policy
  at `mapper/redact.go:67` gives the anonymous tier an organisation's name and country; the
  code gives it the whole address. `PersonsProtected` is about persons, for whom code and
  policy agree.
* The package implements "the RFC 7484 IANA bootstrap lookup" (`bootstrap/bootstrap.go:1`),
  where the longest range decides. `IPServers` takes the first one listed
  (`bootstrap.go:147-151`), and so does `ResponsibleForAddress`, by which `RedirectsCurrent`
  judges it; for names the longest zone decides in both.
* In the in-memory index `nsIp` matches nothing. A `*` inside a pattern is a
  wildcard for LIKE and a character for `MatchPattern`. Past the end,
  `count(*) OVER()` leaves the total at 0.
* `IndexesAgree` is about names of domains and nameservers, which are stored in lower case.
  On entities the indexes differ: PostgreSQL compares a lowered pattern with `full_name`,
  `organization`, `handle` and `email` as they are stored, by the case-sensitive LIKE
  (`storage/postgres/search.go:93-102`); in memory all but the handle are lowered
  (`storage/memory/search.go:110-115`).
* `NoReplayBeforeExpiry` is about one process.

## 6. What is not modelled

* No state that changes: configuration, profile, JSON layouts, validation and IDNA, and
  the RIR endpoints, which add nothing to the lookups. Metrics, audit lines, spans and
  the text of reports are output only.
* Data that no property tells apart: the columns of domains, nameservers and networks;
  the addresses behind a client's key; signatures and JOSE decoding (a token says whether
  it parses and is right); HTTP and SQL themselves (an exchange succeeds or fails).
* The registrar's block of a domain with its abuse contact (`mapper/mapper.go:434-467`),
  which no data source of the repository fills in; only a test does.
* `Contacts` begins behind the caches: that a kept record or response is older than the
  request is what `ServedAgeBounded` and `ResponseAgeBounded` are about.
* In `Stress` the latencies of the kinds are drawn apart from the overall ones, except for
  the longest. The properties compare percentiles of one bucket, never of two.
* `ingest` is an interface without an implementation in the repository.
* Real time: durations are bounds, not measured; the load tool's throughput and key
  distributions are choices.
