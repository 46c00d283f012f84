------------------------------ MODULE LoadTest ------------------------------
(***************************************************************************)
(* A load test: the database is seeded, by as many runs of gordap-seed as  *)
(* it takes, gordap-stress is run on the corpus, and the aggregator rolls  *)
(* its report up with those of the generators on other machines.           *)
(***************************************************************************)
EXTENDS Stress

CONSTANT Others   \* sequences of reports of other generators

VARIABLE combined   \* what the aggregator printed, or None

vars == <<seedVars, stressVars, combined>>

\* The percentiles that are reported, in thousandths, and those of an endpoint; the longest
\* latency, kept apart from the samples, comes last.
Share == [p50 |-> 500, p90 |-> 900, p95 |-> 950, p99 |-> 990, p999 |-> 999, max |-> 1000]
Percentiles == {"p50", "p90", "p95", "p99", "p999", "max"}
EndpointPercentiles == {"p50", "p95", "p99"}

\* latencies.percentiles, for p = share / 1000: the sample at int(len * p) - 1 in order
Percentile(samples, share) ==
  LET len == SumFunction(samples)
      idx == (len * share) \div 1000 - 1
      rank == IF idx < 0 THEN 1 ELSE IF idx >= len THEN len ELSE idx + 1
      UpTo(d) == SumFunctionOnSet(samples, {e \in Duration : e <= d})
  IN  IF len = 0 THEN 0 ELSE CHOOSE d \in Duration : UpTo(d) >= rank /\ UpTo(d) - samples[d] < rank

LatencyMs(l, ps) == [p \in ps |-> IF p = "max" THEN l.max ELSE Percentile(l.samples, Share[p])]

\* emitJSON, of the fields that are combined; maps have the keys that were counted
EmitJSON(st, l) ==
  [total |-> st.overall.count, failures |-> st.overall.failures, transErr |-> st.transErr,
   latency |-> LatencyMs(l.overall, Percentiles),
   cache |-> [hits |-> st.hits, misses |-> st.misses],
   endpoints |-> [k \in {k \in Kind : st.byKind[k].count > 0} |->
                    [count |-> st.byKind[k].count, failures |-> st.byKind[k].failures,
                     latency |-> LatencyMs(l.byKind[k], EndpointPercentiles)]],
   codes |-> Restrict(st.byStatus, {c \in Code : st.byStatus[c] > 0}), mismatches |-> st.mismatches]

EndpointField(r, field) == [k \in DOMAIN r.endpoints |-> r.endpoints[k][field]]

InOrder(latency, ps) ==
  \A p \in ps : /\ latency[p] \in Nat
                /\ \A q \in ps : Share[p] <= Share[q] => latency[p] <= latency[q]

\* A report of requests and failures that are all accounted for, its percentiles in order.
WellFormed(r) ==
  /\ r.total \in Nat /\ r.failures \in Nat /\ r.transErr \in Nat /\ InOrder(r.latency, Percentiles)
  /\ DOMAIN r.cache = {"hits", "misses"} /\ r.cache["hits"] \in Nat /\ r.cache["misses"] \in Nat
  /\ r.cache["hits"] + r.cache["misses"] + r.transErr = r.total
  /\ IsFiniteSet(DOMAIN r.endpoints)
  /\ \A k \in DOMAIN r.endpoints :
       /\ r.endpoints[k].count \in Nat \ {0} /\ r.endpoints[k].failures \in Nat
       /\ InOrder(r.endpoints[k].latency, EndpointPercentiles)
  /\ SumFunction(EndpointField(r, "count")) = r.total
  /\ SumFunction(EndpointField(r, "failures")) = r.failures

\* The other reports are of the same program.
ASSUME OthersAssumption ==
  \A rs \in Others : rs \in Seq(Range(rs)) /\ \A i \in DOMAIN rs : WellFormed(rs[i])

Field(rs, field) == [i \in DOMAIN rs |-> rs[i][field]]
Total(rs, field) == SumFunction(Field(rs, field))

\* The sum of maps by key; a map without the key adds nothing.
AddMaps(maps) ==
  [k \in UNION {DOMAIN maps[i] : i \in DOMAIN maps} |->
     SumFunction([i \in DOMAIN maps |-> IF k \in DOMAIN maps[i] THEN maps[i][k] ELSE 0])]

\* Mutant: every report counts the same.
UnweightedLatency(latencies, requests, ps) ==
  [p \in ps |-> <<SumFunction([i \in DOMAIN requests |-> latencies[i][p]]), Cardinality(DOMAIN requests)>>]

\* Percentiles weighted by the requests they are of, as a sum and the number to divide it by
WeightedLatency(latencies, requests, ps) ==
  [p \in ps |-> <<SumFunction([i \in DOMAIN requests |-> latencies[i][p] * requests[i]]), SumFunction(requests)>>]

\* The endpoint roll-up.  An endpoint is weighted by its own requests.
Having(rs, k) == {i \in DOMAIN rs : k \in DOMAIN rs[i].endpoints}
OfEndpoint(rs, k, field) == [i \in Having(rs, k) |-> rs[i].endpoints[k][field]]
ByEndpoint(rs) ==
  LET counts == AddMaps([i \in DOMAIN rs |-> EndpointField(rs[i], "count")])
      failures == AddMaps([i \in DOMAIN rs |-> EndpointField(rs[i], "failures")])
  IN  [k \in DOMAIN counts |->
         [count |-> counts[k], failures |-> failures[k],
          latency |-> WeightedLatency(OfEndpoint(rs, k, "latency"), OfEndpoint(rs, k, "count"), EndpointPercentiles)]]

\* aggregate.  Without requests there are no percentiles and no endpoints.
Aggregate(rs) ==
  LET none == Total(rs, "total") = 0
  IN  [total |-> Total(rs, "total"), failures |-> Total(rs, "failures"), transErr |-> Total(rs, "transErr"),
       mismatches |-> Total(rs, "mismatches"),
       cache |-> AddMaps(Field(rs, "cache")), codes |-> AddMaps(Field(rs, "codes")),
       latency |-> IF none THEN <<>> ELSE WeightedLatency(Field(rs, "latency"), Field(rs, "total"), Percentiles),
       endpoints |-> IF none THEN <<>> ELSE ByEndpoint(rs)]

\* gordap-stress-aggregate, with this report among the files
RollUp(rs) ==
  LET reports == <<EmitJSON(stats, lat)>> \o rs
  IN  /\ Reported /\ combined = None
      /\ combined' = [reports |-> reports, result |-> Aggregate(reports)]
      /\ UNCHANGED <<seedVars, stressVars>>

Init == SeedInit /\ StressInit /\ combined = None

\* The corpus is there and the load test begins; how it was seeded no longer matters.
Begin ==
  /\ StartWarmup \/ StartAtOnce
  /\ seeder' = [seeder EXCEPT !.truncate = TRUE] /\ before' = db /\ runs' = MaxRuns
  /\ UNCHANGED <<db, combined>>

Next ==
  \/ phase = "idle" /\ SeedNext /\ UNCHANGED <<stressVars, combined>>
  \/ Begin
  \/ StressNext /\ UNCHANGED <<seedVars, combined>>
  \/ \E rs \in Others : RollUp(rs)

Spec == Init /\ [][Next]_vars
FairSpec == Spec /\ StressFairness

----------------------------------------------------------------------------

\* Weighted percentiles are faithful to those they are of: each is not below the least nor
\* above the greatest of those that had requests, and a higher one is never below a lower.
Between(weighted, latencies, requests, ps) ==
  LET busy == {i \in DOMAIN requests : requests[i] > 0}
  IN  \A p \in ps :
        /\ \E i \in busy : weighted[p][1] >= latencies[i][p] * weighted[p][2]
        /\ \E i \in busy : weighted[p][1] <= latencies[i][p] * weighted[p][2]
        /\ \A q \in ps : Share[p] <= Share[q] => weighted[p][1] <= weighted[q][1]

\* A roll-up accounts for every request of the reports, under its endpoint and as a hit, a
\* miss or a transport error, and for every failure under its endpoint; its percentiles,
\* overall and of an endpoint, are faithful to those of the reports.
RollUpFaithful ==
  combined # None =>
    LET rs == combined.reports  all == combined.result
    IN  /\ SumFunction(EndpointField(all, "count")) = all.total
        /\ SumFunction(EndpointField(all, "failures")) = all.failures
        /\ all.cache.hits + all.cache.misses + all.transErr = all.total
        /\ all.total > 0 => Between(all.latency, Field(rs, "latency"), Field(rs, "total"), Percentiles)
        /\ \A k \in DOMAIN all.endpoints :
             Between(all.endpoints[k].latency, OfEndpoint(rs, k, "latency"), OfEndpoint(rs, k, "count"),
                     EndpointPercentiles)

----------------------------------------------------------------------------

\* The inductive invariant: what was rolled up are reports as they should be.
LoadTestInv ==
  /\ SeedInv /\ StressInv /\ KindsCounted
  /\ Reported => lat \in AllLatencies
  /\ combined # None =>
       /\ IsFiniteSet(DOMAIN combined.reports) /\ DOMAIN combined.reports # {}
       /\ \A i \in DOMAIN combined.reports : WellFormed(combined.reports[i])
       /\ combined.result = Aggregate(combined.reports)
=============================================================================
