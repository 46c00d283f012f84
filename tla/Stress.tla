------------------------------- MODULE Stress -------------------------------
(***************************************************************************)
(* gordap-stress: workers query a server over the corpus that gordap-seed  *)
(* put in its database, judge every answer against the one internal/synth  *)
(* predicts, and count in shared maps and counters; the report is made     *)
(* when the time is up and all workers are done.                           *)
(*                                                                         *)
(* The server gives the right answer, or a wrong one, or none before the   *)
(* client's timeout.  Counters are atomic and only read for the report, so *)
(* an action of a worker does all its counting; what two workers can race  *)
(* for, an entry that a map does not hold yet, takes two.  The latencies   *)
(* are drawn for the report, as many as there were requests.               *)
(***************************************************************************)
EXTENDS Seed, Functions

CONSTANTS
  Worker,         \* the -c workers
  Kind,           \* the query kinds of the mix
  Duration,       \* the latencies there can be
  SampleCap,      \* sampleCap
  MaxMismatches,  \* maxRecordedMismatches
  MaxRequests,    \* bound on the queries of the measured run
  MaxWarmup,      \* and of the warmup
  None

AllKinds == {"domain", "domain_missing", "entity", "entity_invalid", "nameserver",
             "search_domains", "search_entities", "help"}

ASSUME StressAssumption ==
  /\ Kind \subseteq AllKinds /\ Duration \subseteq Nat /\ Duration # {}
  /\ IsFiniteSet(Worker) /\ Worker # {} /\ IsFiniteSet(Duration)
  /\ SampleCap \in Nat \ {0} /\ MaxMismatches \in Nat /\ MaxRequests \in Nat /\ MaxWarmup \in Nat
  /\ \A n \in Sizes : n > 10   \* for 10 there is no nameserver 1, below it pickQuery panics

VARIABLES
  phase,   \* of the load test: "idle", "warmup", "measure", "reported"
  expired, \* the run's context is done
  at,      \* where each worker is
  query,   \* the query it is executing, None without one
  stats,   \* the run's counters
  lat,     \* the latencies, overall and of each kind, once reported
  facts    \* what really happened in the run, to compare the report with

stressVars == <<phase, expired, at, query, stats, lat, facts>>

(***************************************************************************)
(* pickQuery: the kinds, and for each the keys it can draw in a corpus of  *)
(* n, by pickKey (uniform or zipf) or of its own, with the status it       *)
(* wants.  Beyond the corpus two keys stand for the million.               *)
(***************************************************************************)
PickKey(n) == 0..(n - 1)

Keys(kind, n) ==
  CASE kind \in {"domain", "entity"} -> PickKey(n)
    [] kind = "domain_missing" -> {n, n + 1}
    [] kind = "nameserver" -> {IF i < 1 THEN 1 ELSE i : i \in 0..(n \div 10 - 1)}
    [] OTHER -> {0}

WantStatus(kind) ==
  CASE kind = "domain_missing" -> 404 [] kind = "entity_invalid" -> 400 [] OTHER -> 200

\* The server's answer: lookups find what the tables hold, the validator rejects the
\* malformed handle, searches and help have one.
RightStatus(kind, key) ==
  CASE kind \in {"domain", "domain_missing"} -> IF key \in db["domains"] THEN 200 ELSE 404
    [] kind = "entity" -> IF key \in db["entities"] THEN 200 ELSE 404
    [] kind = "nameserver" -> IF key \in db["nameservers"] THEN 200 ELSE 404
    [] kind = "entity_invalid" -> 400
    [] OTHER -> 200

PickQuery(n) ==
  UNION {{[kind |-> k, want |-> WantStatus(k), status |-> RightStatus(k, key)] :
            key \in Keys(k, n)} : k \in Kind}

----------------------------------------------------------------------------

Code == {200, 400, 404, 500}

NewBucket == [count |-> 0, failures |-> 0]

\* newStats.  A map has no entry yet where the count is 0.
NewStats ==
  [overall |-> NewBucket, byKind |-> [k \in Kind |-> NewBucket],
   byStatus |-> [c \in Code |-> 0], hits |-> 0, misses |-> 0, transErr |-> 0, mismatches |-> 0]
NewFacts == [wrong |-> 0, unanswered |-> 0, answered |-> [c \in Code |-> 0]]

StressInit ==
  /\ phase = "idle" /\ expired = FALSE
  /\ at = [w \in Worker |-> "done"] /\ query = [w \in Worker |-> None]
  /\ stats = NewStats /\ lat = None /\ facts = NewFacts

\* main: a warmup with stats of its own, if asked for, then the measured run.
StartRun(next) ==
  /\ phase' = next /\ expired' = FALSE
  /\ at' = [w \in Worker |-> "pick"]
  /\ stats' = NewStats /\ facts' = NewFacts
  /\ UNCHANGED <<query, lat>>

StartWarmup == phase = "idle" /\ seeder.pc = "complete" /\ StartRun("warmup")
StartAtOnce == phase = "idle" /\ seeder.pc = "complete" /\ StartRun("measure")

Idle == \A w \in Worker : at[w] = "done"

EndWarmup == phase = "warmup" /\ Idle /\ StartRun("measure")

\* latencies.Add, samples a bag: beyond the cap the new sample replaces one, or is dropped.
AddLatency(l, d) ==
  LET kept == [samples |-> [l.samples EXCEPT ![d] = @ + 1],
               max |-> IF d > l.max THEN d ELSE l.max]
  IN  IF SumFunction(l.samples) < SampleCap THEN {kept}
      ELSE {[kept EXCEPT !.samples[e] = @ - 1] : e \in {e \in Duration : kept.samples[e] > 0}}

Latencies[n \in Nat] ==
  IF n = 0 THEN {[samples |-> [d \in Duration |-> 0], max |-> 0]}
  ELSE UNION {AddLatency(l, d) : l \in Latencies[n - 1], d \in Duration}

\* The latencies of the requests counted: each went to the overall bucket and to its kind's,
\* so that the longest is the longest of a kind.
Drawn(st) ==
  LET all == Latencies[st.overall.count]
      of == [k \in Kind |-> Latencies[st.byKind[k].count]]
  IN  {l \in [overall : all, byKind : [Kind -> UNION Range(of)]] :
         /\ \A k \in Kind : l.byKind[k] \in of[k] /\ l.byKind[k].max <= l.overall.max
         /\ l.overall.max \in {0} \cup {l.byKind[k].max : k \in Kind}}

\* wg.Wait returns and the report is made.
Report ==
  /\ phase = "measure" /\ Idle /\ phase' = "reported"
  /\ lat' \in Drawn(stats)
  /\ UNCHANGED <<expired, at, query, stats, facts>>

\* context.WithTimeout: the duration is over
Expire ==
  /\ phase \in {"warmup", "measure"} /\ ~expired /\ expired' = TRUE
  /\ UNCHANGED <<phase, at, query, stats, lat, facts>>

\* for ctx.Err() == nil
Pick(w) ==
  /\ at[w] = "pick" /\ ~expired
  /\ stats.overall.count + Cardinality({v \in Worker : at[v] \in {"wait", "bucket"}})
       < IF phase = "warmup" THEN MaxWarmup ELSE MaxRequests
  /\ \E q \in PickQuery(seeder.n) : query' = [query EXCEPT ![w] = q]
  /\ at' = [at EXCEPT ![w] = "wait"]
  /\ UNCHANGED <<phase, expired, stats, lat, facts>>

Leave(w) ==
  /\ at[w] = "pick" /\ expired
  /\ at' = [at EXCEPT ![w] = "done"]
  /\ UNCHANGED <<phase, expired, query, stats, lat, facts>>

\* recordMismatch
RecordMismatch(st) == [st EXCEPT !.mismatches = IF @ >= MaxMismatches THEN @ ELSE @ + 1]

AddFailure(st, kind) ==
  RecordMismatch([st EXCEPT !.overall.failures = @ + 1, !.byKind[kind].failures = @ + 1])

\* exec's counting once the bucket is there, up to recordStatus.
Tally(w, q, st) ==
  LET counted == [st EXCEPT !.overall.count = @ + 1, !.byKind[q.kind].count = @ + 1]
  IN  IF q.outcome = "none"
      THEN /\ stats' = AddFailure([counted EXCEPT !.transErr = @ + 1], q.kind)
           /\ at' = [at EXCEPT ![w] = "pick"] /\ query' = [query EXCEPT ![w] = None]
      ELSE /\ stats' = IF q.hit THEN [counted EXCEPT !.hits = @ + 1]
                                ELSE [counted EXCEPT !.misses = @ + 1]
           /\ at' = [at EXCEPT ![w] = "status"] /\ query' = [query EXCEPT ![w] = [q EXCEPT !.hit = FALSE]]

\* client.Do returns with q, then bucketFor's Load finds the bucket, or it has to be made.
Return(w, q) ==
  /\ IF stats.byKind[q.kind].count > 0 THEN Tally(w, q, stats)
     ELSE at' = [at EXCEPT ![w] = "bucket"] /\ query' = [query EXCEPT ![w] = q] /\ UNCHANGED stats
  /\ UNCHANGED <<phase, expired, lat>>

Response(w, outcome, status, hit) ==
  [kind |-> query[w].kind, want |-> query[w].want, status |-> status, outcome |-> outcome, hit |-> hit]

\* Mutant: the requests have the run's context.
AnswerUnlessExpired(w) ==
  /\ at[w] = "wait" /\ UNCHANGED facts
  /\ Return(w, Response(w, IF expired THEN "none" ELSE "right", query[w].status, FALSE))

\* The right answer, from the response cache or not.  The request's context is not the
\* run's: the end of the run does not cancel it.
Answer(w) ==
  /\ at[w] = "wait" /\ UNCHANGED facts
  /\ \E hit \in BOOLEAN : Return(w, Response(w, "right", query[w].status, hit))

\* A wrong one: an error status, or a body that does not parse or validate.
Misanswer(w) ==
  /\ at[w] = "wait" /\ facts' = [facts EXCEPT !.wrong = @ + 1]
  /\ \E status \in {query[w].status, 500} : Return(w, Response(w, "wrong", status, FALSE))

\* Mutant: after the end of the run the client waits on.
TimeOutDuringRun(w) ==
  /\ at[w] = "wait" /\ ~expired /\ facts' = [facts EXCEPT !.unanswered = @ + 1]
  /\ Return(w, Response(w, "none", 0, FALSE))

\* None: the connection breaks, or the client's timeout passes.
TimeOut(w) ==
  /\ at[w] = "wait" /\ facts' = [facts EXCEPT !.unanswered = @ + 1]
  /\ Return(w, Response(w, "none", 0, FALSE))

\* Mutant: Store instead of LoadOrStore.
MakeBucketStoring(w) ==
  /\ at[w] = "bucket"
  /\ Tally(w, query[w], [stats EXCEPT !.byKind[query[w].kind] = NewBucket])
  /\ UNCHANGED <<phase, expired, lat, facts>>

\* bucketFor's LoadOrStore: another worker may have stored one since.
MakeBucket(w) ==
  /\ at[w] = "bucket" /\ Tally(w, query[w], stats)
  /\ UNCHANGED <<phase, expired, lat, facts>>

\* The end of exec: the status, the parse and the validator of the kind.
Judge(w, st) ==
  /\ stats' = IF query[w].status # query[w].want \/ query[w].outcome = "wrong"
              THEN AddFailure(st, query[w].kind) ELSE st
  /\ at' = [at EXCEPT ![w] = "pick"] /\ query' = [query EXCEPT ![w] = None]

\* recordStatus: Load finds the code's counter and adds to it ...
CountStatus(w) ==
  LET c == query[w].status
  IN  /\ at[w] = "status" /\ facts' = [facts EXCEPT !.answered[c] = @ + 1]
      /\ IF stats.byStatus[c] > 0 THEN Judge(w, [stats EXCEPT !.byStatus[c] = @ + 1])
         ELSE at' = [at EXCEPT ![w] = "store"] /\ UNCHANGED <<stats, query>>
      /\ UNCHANGED <<phase, expired, lat>>

\* Mutant: Store instead of LoadOrStore.
StoreStatusAnew(w) ==
  /\ at[w] = "store"
  /\ Judge(w, [stats EXCEPT !.byStatus[query[w].status] = 1])
  /\ UNCHANGED <<phase, expired, lat, facts>>

\* ... or not, and LoadOrStore stores a counter at 1, or drops it if there is one by now.
StoreStatus(w) ==
  /\ at[w] = "store"
  /\ Judge(w, [stats EXCEPT !.byStatus[query[w].status] = IF @ = 0 THEN 1 ELSE @])
  /\ UNCHANGED <<phase, expired, lat, facts>>

WorkerStep(w) ==
  \/ Pick(w) \/ Leave(w) \/ MakeBucket(w) \/ CountStatus(w) \/ StoreStatus(w)

StressNext ==
  \/ EndWarmup \/ Report \/ Expire
  \/ \E w \in Worker : WorkerStep(w) \/ Answer(w) \/ Misanswer(w) \/ TimeOut(w)

\* The clock runs, workers run, and the client's timeout ends a request that the server
\* does not answer; nothing obliges the server to.
StressFairness ==
  /\ WF_stressVars(EndWarmup) /\ WF_stressVars(Report) /\ WF_stressVars(Expire)
  /\ \A w \in Worker : WF_stressVars(WorkerStep(w)) /\ WF_stressVars(TimeOut(w))

----------------------------------------------------------------------------

Reported == phase = "reported"

\* The report adds up: the endpoints' counts and failures to the overall ones, hits and
\* misses to the requests answered; it shows an example of every failure up to the cap.
ReportAddsUp ==
  Reported =>
    LET Sum(field) == SumFunction([k \in Kind |-> stats.byKind[k][field]])
        failures == stats.overall.failures
    IN  /\ Sum("count") = stats.overall.count /\ Sum("failures") = failures
        /\ stats.hits + stats.misses + stats.transErr = stats.overall.count
        /\ stats.mismatches = IF failures < MaxMismatches THEN failures ELSE MaxMismatches

\* A failure in the report is the server's: a request that got a wrong answer, or none.
\* The corpus the seeder left, the keys drawn, the warmup and the end of the run while
\* requests are under way add none, and none is missed.
NoFalseAlarms ==
  Reported => /\ stats.overall.failures = facts.wrong + facts.unanswered
              /\ stats.transErr = facts.unanswered

\* recordStatus loses counts only when workers race for the first answer of a code: of
\* each code the report has at least one, and all but at most one per other worker.
StatusLossBounded ==
  Reported => \A c \in Code :
    LET lost == facts.answered[c] - stats.byStatus[c]
    IN  /\ lost >= 0 /\ lost < Cardinality(Worker)
        /\ facts.answered[c] > 0 => stats.byStatus[c] > 0

\* Every run that is started is reported on, though the server may never answer.
StressEnds == phase # "idle" ~> Reported

----------------------------------------------------------------------------
(***************************************************************************)
(* The inductive invariant.                                                *)
(***************************************************************************)
Bucket == [count : Nat, failures : Nat]
Stats ==
  [overall : Bucket, byKind : [Kind -> Bucket], byStatus : [Code -> Nat],
   hits : Nat, misses : Nat, transErr : Nat, mismatches : Nat]

\* A query as it is drawn, and with what client.Do returned.
Query == [kind : Kind, want : Code, status : Code]
Returned ==
  [kind : Kind, want : Code, status : Code \cup {0}, outcome : {"right", "wrong", "none"}, hit : BOOLEAN]

\* Samples none of which is above the maximum.
LatencyType ==
  {l \in [samples : [Duration -> Nat], max : Nat] : \A d \in Duration : l.samples[d] > 0 => d <= l.max}
AllLatencies == [overall : LatencyType, byKind : [Kind -> LatencyType]]

StressTypeOK ==
  /\ phase \in {"idle", "warmup", "measure", "reported"} /\ expired \in BOOLEAN
  /\ at \in [Worker -> {"done", "pick", "wait", "bucket", "status", "store"}]
  /\ DOMAIN query = Worker
  /\ \A w \in Worker : /\ at[w] = "wait" => query[w] \in Query
                       /\ at[w] \in {"bucket", "status", "store"} => query[w] \in Returned
  /\ stats \in Stats
  /\ facts \in [wrong : Nat, unanswered : Nat, answered : [Code -> Nat]]

\* What a worker holds: the right answer has the status it wants.
Expected(w) ==
  LET q == query[w]
  IN  /\ at[w] = "wait" => q.status = q.want
      /\ at[w] = "bucket" => (q.outcome = "none" \/ q.status \in Code)
      /\ at[w] \in {"status", "store"} => q.outcome # "none" /\ q.status \in Code
      /\ at[w] \in {"bucket", "status", "store"} /\ q.outcome = "right" => q.status = q.want

\* The workers that still have to count a wrong answer, or none, as a failure; and those
\* that found no counter for a code.
Wrong == {w \in Worker : at[w] \in {"bucket", "status", "store"} /\ query[w].outcome = "wrong"}
Unanswered == {w \in Worker : at[w] = "bucket" /\ query[w].outcome = "none"}
Storing(c) == {w \in Worker : at[w] = "store" /\ query[w].status = c}

\* The counters of the kinds add up to the overall ones.
Counts(st) == [k \in Kind |-> st.byKind[k].count]
Failures(st) == [k \in Kind |-> st.byKind[k].failures]
Tallied(st) ==
  /\ SumFunction(Counts(st)) = st.overall.count
  /\ SumFunction(Failures(st)) = st.overall.failures
  /\ st.mismatches = IF st.overall.failures < MaxMismatches THEN st.overall.failures ELSE MaxMismatches

\* A kind that has failures, or of which a worker judges an answer, has been counted.
KindsCounted ==
  /\ \A k \in Kind : stats.byKind[k].count = 0 => stats.byKind[k].failures = 0
  /\ \A w \in Worker : at[w] \in {"status", "store"} => stats.byKind[query[w].kind].count > 0

\* What has happened is counted, or a worker has yet to count it.
Accounted ==
  /\ stats.hits + stats.misses + stats.transErr = stats.overall.count
  /\ stats.overall.failures + Cardinality(Wrong) + Cardinality(Unanswered)
       = facts.wrong + facts.unanswered
  /\ stats.transErr + Cardinality(Unanswered) = facts.unanswered

\* Until a code has a counter, all its answers are with workers about to store one; then
\* those that are have lost theirs, and the one that stored it has not.
StatusInv(c) ==
  LET lost == facts.answered[c] - stats.byStatus[c]
  IN  /\ stats.byStatus[c] = 0 => lost = Cardinality(Storing(c))
      /\ stats.byStatus[c] > 0 => Cardinality(Storing(c)) <= lost /\ lost < Cardinality(Worker)

StressInv ==
  /\ StressTypeOK
  /\ \A w \in Worker : Expected(w)
  /\ phase \in {"idle", "reported"} => Idle
  /\ phase # "idle" => seeder.pc = "complete"
  /\ Tallied(stats) /\ Accounted
  /\ \A c \in Code : StatusInv(c)
=============================================================================
