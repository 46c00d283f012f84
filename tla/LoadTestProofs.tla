--------------------------- MODULE LoadTestProofs ---------------------------
(***************************************************************************)
(* A load test, for every size of the corpus, every number of workers and  *)
(* every set of other reports: what gordap-seed leaves is whole, the       *)
(* report of gordap-stress adds up and blames the server for nothing but   *)
(* its own failures, and the aggregator's roll-up is faithful.             *)
(***************************************************************************)
EXTENDS LoadTest, StressProofs

\* A leaf that names no prover is tried with SMT, if need be again with more time.
USE SMT, SMTT(30)

(***************************************************************************)
(* Percentiles, reports and what the aggregator makes of them.             *)
(***************************************************************************)

\* Percentile, with its parts named: the samples up to d, the rank, and the duration
\* of the sample with a rank.
UpTo(samples, d) == SumFunctionOnSet(samples, {e \in Duration : e <= d})
Below(samples, d) == SumFunctionOnSet(samples, {e \in Duration : e < d})
Rank(len, share) ==
  LET idx == (len * share) \div 1000 - 1
  IN  IF idx < 0 THEN 1 ELSE IF idx >= len THEN len ELSE idx + 1
HasRank(samples, d, rank) == UpTo(samples, d) >= rank /\ UpTo(samples, d) - samples[d] < rank

LEMMA PercentileIs ==
  ASSUME NEW samples, NEW share
  PROVE  Percentile(samples, share) =
           IF SumFunction(samples) = 0 THEN 0
           ELSE CHOOSE d \in Duration : HasRank(samples, d, Rank(SumFunction(samples), share))
BY Zenon DEF Percentile, HasRank, Rank, UpTo

\* What is counted up to d, and below it.
LEMMA Cumulative ==
  ASSUME NEW samples \in [Duration -> Nat], NEW d \in Duration
  PROVE  /\ UpTo(samples, d) \in Nat /\ Below(samples, d) \in Nat
         /\ UpTo(samples, d) - samples[d] = Below(samples, d)
         /\ UpTo(samples, d) <= SumFunction(samples) /\ SumFunction(samples) \in Nat
<1> DEFINE U == {e \in Duration : e <= d}
           L == {e \in Duration : e < d}
<1>0. \A e \in Duration : e \in Nat
  BY StressAssumption
<1>1. /\ U \in SUBSET Duration /\ L \in SUBSET Duration /\ d \in U /\ U \ {d} = L
      /\ \A e \in Duration : samples[e] \in Nat
  <2>1. d \in U /\ U \ {d} = L
    BY <1>0
  <2> QED BY <2>1, Zenon
<1>2. IsFiniteSet(Duration) /\ IsFiniteSet(U) /\ IsFiniteSet(L)
  BY <1>1, StressAssumption, FS_Subset
<1>3. UpTo(samples, d) = SumFunctionOnSet(samples, U) /\ Below(samples, d) = SumFunctionOnSet(samples, L)
  BY Zenon DEF UpTo, Below
<1>4. SumFunction(samples) = SumFunctionOnSet(samples, Duration)
  BY DEF SumFunction
<1> HIDE DEF U, L
<1>5. /\ SumFunctionOnSet(samples, U) \in Nat /\ SumFunctionOnSet(samples, Duration) \in Nat
      /\ SumFunctionOnSet(samples, U) <= SumFunctionOnSet(samples, Duration)
  BY <1>1, <1>2, SumPart
<1>6. SumFunctionOnSet(samples, L) \in Nat
  BY <1>1, <1>2, SumNat
<1>7. \A e \in U : samples[e] \in Int
  BY <1>1
<1>8. SumFunctionOnSet(samples, U) = samples[d] + SumFunctionOnSet(samples, U \ {d})
  BY <1>1, <1>2, <1>7, SumTake
<1>9. samples[d] \in Nat
  BY Zenon
<1> QED BY <1>1, <1>3, <1>4, <1>5, <1>6, <1>8, <1>9

\* A shorter duration counts less.
LEMMA CumulativeGrows ==
  ASSUME NEW samples \in [Duration -> Nat], NEW d \in Duration, NEW e \in Duration, e < d
  PROVE  UpTo(samples, e) <= Below(samples, d)
<1> DEFINE U == {x \in Duration : x <= e}
           L == {x \in Duration : x < d}
<1>0. \A x \in Duration : x \in Nat
  BY StressAssumption, Zenon
<1>1. U \in SUBSET L /\ L \in SUBSET Duration /\ \A x \in L : samples[x] \in Nat
  <2>1. U \in SUBSET L
    BY <1>0
  <2> QED BY <2>1
<1>2. IsFiniteSet(L)
  BY <1>1, StressAssumption, FS_Subset
<1>3. UpTo(samples, e) = SumFunctionOnSet(samples, U) /\ Below(samples, d) = SumFunctionOnSet(samples, L)
  BY DEF UpTo, Below
<1> HIDE DEF U, L
<1> QED BY <1>1, <1>2, <1>3, SumPart

\* Every rank there is has a duration.
LEMMA SomeHasRank ==
  ASSUME NEW samples \in [Duration -> Nat], NEW rank \in Nat, rank > 0, rank <= SumFunction(samples)
  PROVE  \E d \in Duration : HasRank(samples, d, rank)
<1> DEFINE T == {d \in Duration : UpTo(samples, d) >= rank}
           self == [d \in Duration |-> d]
<1>1. IsFiniteSet(Duration) /\ Duration # {} /\ Duration \in SUBSET Nat
  BY StressAssumption
<1>2. T # {}
  <2>1. PICK d \in Duration : \A e \in Duration : self[e] <= self[d]
    <3>1. \A e \in Duration : self[e] \in Nat
      BY <1>1, Zenon
    <3> HIDE DEF self
    <3> QED BY <1>1, <3>1, Greatest, Zenon
  <2>2. {e \in Duration : e <= d} = Duration
    BY <2>1
  <2>3. UpTo(samples, d) = SumFunction(samples)
    BY <2>2, Zenon DEF UpTo, SumFunction
  <2>4. SumFunction(samples) \in Nat
    BY Cumulative
  <2> QED BY <2>3, <2>4
<1>3. T \in SUBSET Nat
  BY <1>1, Zenon
<1>4. PICK d \in T : \A e \in T : d <= e
  <2> HIDE DEF T
  <2> QED BY <1>2, <1>3, LeastNumber
<1>5. d \in Duration /\ UpTo(samples, d) >= rank
  BY <1>4, Zenon
<1>6. UpTo(samples, d) - samples[d] = Below(samples, d) /\ Below(samples, d) \in Nat
  BY <1>5, Cumulative
<1> DEFINE L == {e \in Duration : e < d}
<1>7. Below(samples, d) < rank
  <2>1. CASE L = {}
    <3>1. Below(samples, d) = SumFunctionOnSet(samples, {})
      BY <2>1 DEF Below
    <3>2. SumFunctionOnSet(samples, {}) = 0
      BY SumNone
    <3> QED BY <3>1, <3>2
  <2>2. CASE L # {}
    <3>1. L \in SUBSET Duration
      BY Zenon
    <3>2. IsFiniteSet(L) /\ \A e \in L : self[e] \in Nat
      <4>1. \A e \in L : self[e] \in Nat
        BY <1>1, Zenon
      <4>2. IsFiniteSet(L)
        <5> HIDE DEF L
        <5> QED BY <1>1, <3>1, FS_Subset, Zenon
      <4> QED BY <4>1, <4>2
    <3>3. PICK e \in L : \A x \in L : self[x] <= self[e]
      <4> HIDE DEF L, self
      <4> QED BY <2>2, <3>2, Greatest
    <3>4. {x \in Duration : x <= e} = L
      <4>1. e \in Duration /\ e < d /\ \A x \in Duration : x < d => x <= e
        BY <3>3, Zenon
      <4>2. \A x \in Duration : x \in Nat
        BY <1>1
      <4>3. \A x \in Duration : x <= e <=> x < d
        BY <1>5, <4>1, <4>2
      <4> QED BY <4>3
    <3>5. Below(samples, d) = UpTo(samples, e)
      BY <3>4, Zenon DEF Below, UpTo
    <3>6. e \in Duration /\ e < d /\ e \notin T
      BY <1>1, <1>4, <1>5
    <3>7. UpTo(samples, e) \in Nat
      BY <3>6, Cumulative, Zenon
    <3> QED BY <3>5, <3>6, <3>7
  <2> QED BY <2>1, <2>2
<1>8. HasRank(samples, d, rank)
  BY <1>5, <1>6, <1>7 DEF HasRank
<1> QED BY <1>5, <1>8

\* A lower rank has no longer a duration.
LEMMA RanksInOrder ==
  ASSUME NEW samples \in [Duration -> Nat], NEW r \in Nat, NEW t \in Nat, r <= t,
         NEW d \in Duration, HasRank(samples, d, r), NEW e \in Duration, HasRank(samples, e, t)
  PROVE  d <= e
<1>1. d \in Nat /\ e \in Nat
  BY StressAssumption, Zenon
<1> SUFFICES ASSUME e < d PROVE FALSE
  BY <1>1
<1>2. UpTo(samples, e) <= Below(samples, d)
  BY CumulativeGrows, Zenon
<1>3. UpTo(samples, d) - samples[d] = Below(samples, d) /\ Below(samples, d) \in Nat /\ UpTo(samples, e) \in Nat
  BY Cumulative, Zenon
<1>4. Below(samples, d) < r /\ UpTo(samples, e) >= t
  BY <1>3 DEF HasRank
<1> QED BY <1>2, <1>3, <1>4

\* A duration with a rank was sampled.
LEMMA RankedIsSampled ==
  ASSUME NEW samples \in [Duration -> Nat], NEW r \in Nat, NEW d \in Duration, HasRank(samples, d, r)
  PROVE  samples[d] > 0
<1>1. UpTo(samples, d) \in Nat /\ samples[d] \in Nat
  BY Cumulative, Zenon
<1> QED BY <1>1 DEF HasRank

LEMMA Product == ASSUME NEW a \in Nat, NEW b \in Nat, NEW c \in Nat, a <= b PROVE a * c <= b * c
OBVIOUS

\* There is a sample at every rank, and a higher percentile has no lower a rank.
LEMMA Ranks ==
  ASSUME NEW len \in Nat, len > 0, NEW m \in Nat, NEW n \in Nat, m <= n
  PROVE  Rank(len, m) \in 1..len /\ Rank(len, n) \in 1..len /\ Rank(len, m) <= Rank(len, n)
<1> DEFINE a == len * m
           b == len * n
<1>1. a \in Nat /\ b \in Nat /\ a <= b
  <2>1. m * len <= n * len
    BY Product
  <2> QED BY <2>1
<1>2. /\ Rank(len, m) = IF a \div 1000 - 1 < 0 THEN 1 ELSE IF a \div 1000 - 1 >= len THEN len ELSE a \div 1000
      /\ Rank(len, n) = IF b \div 1000 - 1 < 0 THEN 1 ELSE IF b \div 1000 - 1 >= len THEN len ELSE b \div 1000
  <2> HIDE DEF a, b
  <2>1. a \div 1000 \in Nat /\ b \div 1000 \in Nat
    BY <1>1
  <2> QED BY <2>1 DEF Rank, a, b
<1> HIDE DEF a, b
<1> QED BY <1>1, <1>2

\* The percentiles of the samples are in order, and none is above the maximum.
LEMMA PercentilesInOrder ==
  ASSUME NEW l \in LatencyType, NEW m \in Nat, NEW n \in Nat, m <= n
  PROVE  /\ Percentile(l.samples, m) \in Nat /\ Percentile(l.samples, m) <= l.max
         /\ Percentile(l.samples, m) <= Percentile(l.samples, n)
<1> DEFINE s == l.samples
           len == SumFunction(s)
           P(share) == Percentile(s, share)
           R(share) == Rank(len, share)
<1>1. s \in [Duration -> Nat] /\ l.max \in Nat /\ \A d \in Duration : s[d] > 0 => d <= l.max
  BY Zenon DEF LatencyType
<1>2. Duration \in SUBSET Nat
  BY StressAssumption
<1>3. len \in Nat
  <2>1. PICK d : d \in Duration
    BY StressAssumption
  <2> HIDE DEF s
  <2> QED BY <1>1, <2>1, Cumulative
<1>4. CASE len = 0
  <2>1. P(m) = 0 /\ P(n) = 0
    BY <1>4, PercentileIs
  <2> QED BY <1>1, <2>1
<1>5. CASE len # 0
  <2>0. len > 0
    BY <1>3, <1>5
  <2>1. R(m) \in 1..len /\ R(n) \in 1..len /\ R(m) <= R(n)
    <3> HIDE DEF len
    <3> QED BY <1>3, <2>0, Ranks
  <2>2. ASSUME NEW share, R(share) \in 1..len PROVE P(share) \in Duration /\ HasRank(s, P(share), R(share))
    <3>1. R(share) \in Nat /\ R(share) > 0 /\ R(share) <= SumFunction(s)
      BY <1>3, <2>2
    <3>2. \E d \in Duration : HasRank(s, d, R(share))
      <4> HIDE DEF s, R
      <4> QED BY <1>1, <3>1, SomeHasRank
    <3>3. P(share) = CHOOSE d \in Duration : HasRank(s, d, R(share))
      BY <1>5, PercentileIs
    <3> QED BY <3>2, <3>3
  <2>3. /\ P(m) \in Duration /\ HasRank(s, P(m), R(m))
        /\ P(n) \in Duration /\ HasRank(s, P(n), R(n))
    BY <2>1, <2>2
  <2>4. R(m) \in Nat /\ R(n) \in Nat
    BY <1>3, <2>1
  <2> HIDE DEF P, R, s
  <2>5. P(m) <= P(n)
    BY <1>1, <2>1, <2>3, <2>4, RanksInOrder
  <2>6. s[P(m)] > 0
    BY <1>1, <2>3, <2>4, RankedIsSampled
  <2>7. P(m) <= l.max /\ P(m) \in Nat
    BY <1>1, <1>2, <2>3, <2>6, Zenon
  <2> QED BY <2>5, <2>7 DEF P, s
<1> QED BY <1>4, <1>5

\* So are those that a report has of them.
LEMMA LatencyInOrder ==
  ASSUME NEW l \in LatencyType, NEW ps \in SUBSET Percentiles
  PROVE  InOrder(LatencyMs(l, ps), ps)
<1> DEFINE ms == LatencyMs(l, ps)
<1>1. \A p \in Percentiles : Share[p] \in Nat /\ (p # "max" => Share[p] < Share["max"])
  BY DEF Share, Percentiles
<1>2. l.max \in Nat
  BY Zenon DEF LatencyType
<1>3. \A p \in ps : ms[p] = IF p = "max" THEN l.max ELSE Percentile(l.samples, Share[p])
  BY DEF LatencyMs
<1> HIDE DEF ms
<1>4. ASSUME NEW p \in ps PROVE ms[p] \in Nat
  <2>1. Percentile(l.samples, Share[p]) \in Nat
    BY <1>1, PercentilesInOrder
  <2> QED BY <1>2, <1>3, <2>1
<1>5. ASSUME NEW p \in ps, NEW q \in ps, Share[p] <= Share[q] PROVE ms[p] <= ms[q]
  <2>1. p \in Percentiles /\ q \in Percentiles /\ Share[p] \in Nat /\ Share[q] \in Nat
    BY <1>1
  <2>2. CASE p = "max"
    <3>1. q = "max"
      BY <1>1, <1>5, <2>1, <2>2
    <3> QED BY <1>2, <1>3, <2>2, <3>1
  <2>3. CASE p # "max"
    <3>1. /\ Percentile(l.samples, Share[p]) <= l.max
          /\ Percentile(l.samples, Share[p]) <= Percentile(l.samples, Share[q])
      BY <1>5, <2>1, PercentilesInOrder
    <3> QED BY <1>3, <2>3, <3>1
  <2> QED BY <2>2, <2>3
<1> QED BY <1>4, <1>5 DEF InOrder, ms
----------------------------------------------------------------------------

NoLatencies == [samples |-> [d \in Duration |-> 0], max |-> 0]
MoreLatencies(L) == UNION {AddLatency(l, d) : l \in L, d \in Duration}
NextLatencies(g, n) == IF n = 0 THEN {NoLatencies} ELSE MoreLatencies(g[n - 1])
IsLatencies(g) == g = [n \in Nat |-> NextLatencies(g, n)]

\* There is a function as Latencies is defined: its values up to n, for every n.
LEMMA LatenciesAre == IsLatencies(Latencies)
<1>0. \A g : NextLatencies(g, 0) = {NoLatencies}
  BY Zenon DEF NextLatencies
<1>00. \A g, n : n # 0 => NextLatencies(g, n) = MoreLatencies(g[n - 1])
  BY DEF NextLatencies
<1> DEFINE Upto(g, n) == \A i \in 0..n : g[i] = NextLatencies(g, i)
           None0 == {n \in Nat : ~\E g : Upto(g, n)}
<1>1. None0 = {}
  <2> SUFFICES ASSUME None0 # {} PROVE FALSE
    OBVIOUS
  <2>1. PICK n \in None0 : \A m \in None0 : n <= m
    <3>1. None0 \in SUBSET Nat
      OBVIOUS
    <3> HIDE DEF None0
    <3> QED BY <3>1, LeastNumber
  <2>2. n \in Nat /\ ~\E g : Upto(g, n)
    BY Zenon
  <2>3. n # 0
    <3> SUFFICES ASSUME n = 0 PROVE FALSE
      BY Zenon
    <3>1. Upto([i \in 0..0 |-> {NoLatencies}], 0)
      BY <1>0
    <3> QED BY <2>2, <3>1
  <2>4. PICK h : Upto(h, n - 1)
    <3>1. n - 1 \in Nat /\ ~(n <= n - 1)
      BY <2>2, <2>3
    <3>2. n - 1 \notin None0
      <4> HIDE DEF None0
      <4> QED BY <2>1, <3>1
    <3> QED BY <3>1, <3>2
  <2> DEFINE g == [i \in 0..n |-> IF i = n THEN MoreLatencies(h[n - 1]) ELSE h[i]]
  <2>5. ASSUME NEW i \in 0..n PROVE g[i] = NextLatencies(g, i)
    <3>1. CASE i = n
      BY <1>00, <2>2, <2>3, <3>1
    <3>2. CASE i # n
      <4>1. i \in 0..(n - 1) /\ g[i] = h[i] /\ (i # 0 => g[i - 1] = h[i - 1])
        BY <2>2, <3>2
      <4> HIDE DEF g
      <4> QED BY <1>0, <1>00, <2>4, <4>1
    <3> QED BY <3>1, <3>2
  <2> QED BY <2>2, <2>5, ZenonT(30)
<1>2. ASSUME NEW n \in Nat, NEW g, Upto(g, n), NEW h, Upto(h, n) PROVE g[n] = h[n]
  <2> DEFINE D == {i \in 0..n : g[i] # h[i]}
  <2> SUFFICES ASSUME D # {} PROVE FALSE
    OBVIOUS
  <2>1. PICK i \in D : \A j \in D : i <= j
    <3>1. D \in SUBSET Nat
      OBVIOUS
    <3> HIDE DEF D
    <3> QED BY <3>1, LeastNumber
  <2>2. i \in 0..n /\ g[i] # h[i]
    BY Zenon
  <2>3. CASE i = 0
    BY <1>0, <1>2, <2>2, <2>3
  <2>4. CASE i # 0
    <3>1. i - 1 \in 0..n /\ ~(i <= i - 1)
      BY <2>2, <2>4
    <3>2. i - 1 \notin D
      <4> HIDE DEF D
      <4> QED BY <2>1, <3>1
    <3>3. g[i - 1] = h[i - 1]
      BY <3>1, <3>2
    <3> QED BY <1>00, <1>2, <2>2, <2>4, <3>3
  <2> QED BY <2>3, <2>4
<1> DEFINE F(n) == CHOOSE g : Upto(g, n)
           G == [n \in Nat |-> F(n)[n]]
<1>3. ASSUME NEW n \in Nat PROVE Upto(F(n), n)
  <2>1. \E g : Upto(g, n)
    BY <1>1, Zenon
  <2> HIDE DEF Upto
  <2> QED BY <2>1, Zenon
<1>4. ASSUME NEW n \in Nat PROVE G[n] = NextLatencies(G, n)
  <2>0. G[n] = F(n)[n]
    OBVIOUS
  <2>1. F(n)[n] = NextLatencies(F(n), n)
    <3> HIDE DEF F
    <3>1. Upto(F(n), n) /\ n \in 0..n
      BY <1>3
    <3> QED BY <3>1, Zenon
  <2>2. CASE n = 0
    <3> HIDE DEF F, G
    <3> QED BY <1>0, <2>0, <2>1, <2>2
  <2>3. CASE n # 0
    <3>1. n - 1 \in Nat /\ G[n - 1] = F(n - 1)[n - 1]
      BY <2>3
    <3>2. Upto(F(n - 1), n - 1) /\ Upto(F(n), n)
      BY <1>3, <3>1
    <3>3. Upto(F(n), n - 1)
      <4> HIDE DEF F
      <4> QED BY <3>1, <3>2
    <3>4. F(n)[n - 1] = F(n - 1)[n - 1]
      <4> HIDE DEF F, Upto
      <4> QED BY <1>2, <3>1, <3>2, <3>3
    <3> HIDE DEF F, G
    <3> QED BY <1>00, <2>0, <2>1, <2>3, <3>1, <3>4
  <2> QED BY <2>2, <2>3
<1>5. G = [n \in Nat |-> G[n]]
  OBVIOUS
<1>6. IsLatencies(G)
  <2> HIDE DEF G
  <2>1. [n \in Nat |-> G[n]] = [n \in Nat |-> NextLatencies(G, n)]
    BY <1>4, Zenon
  <2> QED BY <1>5, <2>1, Zenon DEF IsLatencies
<1>7. Latencies = CHOOSE g : IsLatencies(g)
  BY DEF Latencies, IsLatencies, NextLatencies, NoLatencies, MoreLatencies
<1>8. \E g : IsLatencies(g)
  BY <1>6
<1> QED BY <1>7, <1>8

\* A sample is added within the maximum.
LEMMA AddLatencyType ==
  ASSUME NEW l \in LatencyType, NEW d \in Duration, NEW x \in AddLatency(l, d)
  PROVE  x \in LatencyType
<1> DEFINE s == [l.samples EXCEPT ![d] = @ + 1]
           m == IF d > l.max THEN d ELSE l.max
           kept == [samples |-> s, max |-> m]
<1>0. \A e \in Duration : e \in Nat
  BY StressAssumption
<1>1. l.samples \in [Duration -> Nat] /\ l.max \in Nat /\ \A e \in Duration : l.samples[e] > 0 => e <= l.max
  BY Zenon DEF LatencyType
<1>2. s \in [Duration -> Nat] /\ m \in Nat /\ \A e \in Duration : s[e] > 0 => e <= m
  BY <1>0, <1>1
<1> HIDE DEF s, m
<1>3. CASE x = kept
  BY <1>2, <1>3 DEF LatencyType
<1>4. ASSUME NEW e \in Duration, kept.samples[e] > 0, x = [kept EXCEPT !.samples[e] = @ - 1]
      PROVE  x \in LatencyType
  <2> DEFINE t == [s EXCEPT ![e] = @ - 1]
  <2>1. t \in [Duration -> Nat] /\ \A y \in Duration : t[y] > 0 => s[y] > 0
    BY <1>2, <1>4
  <2>2. x = [samples |-> t, max |-> m]
    BY <1>4
  <2> HIDE DEF t
  <2> QED BY <1>2, <2>1, <2>2, Zenon DEF LatencyType
<1>5. x = kept \/ \E e \in Duration : kept.samples[e] > 0 /\ x = [kept EXCEPT !.samples[e] = @ - 1]
  BY Zenon DEF AddLatency, s, m
<1> QED BY <1>3, <1>4, <1>5

\* So are all the latencies there can be.
LEMMA LatenciesType == ASSUME NEW n \in Nat, NEW l \in Latencies[n] PROVE l \in LatencyType
<1> DEFINE D == {i \in Nat : \E x \in Latencies[i] : x \notin LatencyType}
<1> SUFFICES ASSUME D # {} PROVE FALSE
  BY Zenon
<1>1. PICK i \in D : \A j \in D : i <= j
  <2>1. D \in SUBSET Nat
    BY Zenon
  <2> HIDE DEF D
  <2> QED BY <2>1, LeastNumber
<1>2. PICK x \in Latencies[i] : x \notin LatencyType
  OBVIOUS
<1>3. i \in Nat /\ Latencies[i] = IF i = 0 THEN {NoLatencies} ELSE MoreLatencies(Latencies[i - 1])
  BY LatenciesAre, Zenon DEF IsLatencies, NextLatencies
<1>4. CASE i = 0
  <2>1. NoLatencies \in LatencyType
    BY DEF NoLatencies, LatencyType
  <2> QED BY <1>2, <1>3, <1>4, <2>1
<1>5. CASE i # 0
  <2>1. PICK y \in Latencies[i - 1], d \in Duration : x \in AddLatency(y, d)
    BY <1>2, <1>3, <1>5 DEF MoreLatencies
  <2>2. i - 1 \in Nat /\ ~(i <= i - 1)
    BY <1>3, <1>5
  <2>3. i - 1 \notin D
    <3> HIDE DEF D
    <3> QED BY <1>1, <2>2
  <2>4. y \in LatencyType
    BY <2>1, <2>2, <2>3
  <2> QED BY <1>2, <2>1, <2>4, AddLatencyType
<1> QED BY <1>4, <1>5

----------------------------------------------------------------------------

\* The report accounts for every request (emitJSON of the counters and latencies).
LEMMA ReportWellFormed ==
  ASSUME StressInv, KindsCounted, lat \in AllLatencies
  PROVE  WellFormed(EmitJSON(stats, lat))
<1> DEFINE r == EmitJSON(stats, lat)
           S == {k \in Kind : stats.byKind[k].count > 0}
           ep == [k \in S |-> [count |-> stats.byKind[k].count, failures |-> stats.byKind[k].failures,
                               latency |-> LatencyMs(lat.byKind[k], EndpointPercentiles)]]
<1>1. /\ stats \in Stats /\ SumFunction(Counts(stats)) = stats.overall.count
      /\ SumFunction(Failures(stats)) = stats.overall.failures
      /\ stats.hits + stats.misses + stats.transErr = stats.overall.count
  BY DEF StressInv, StressTypeOK, Tallied, Accounted
<1>2. /\ stats.overall.count \in Nat /\ stats.overall.failures \in Nat /\ stats.transErr \in Nat
      /\ stats.hits \in Nat /\ stats.misses \in Nat
      /\ \A k \in Kind : stats.byKind[k].count \in Nat /\ stats.byKind[k].failures \in Nat
  BY <1>1 DEF Stats, Bucket
<1>3. /\ lat.overall \in LatencyType /\ \A k \in Kind : lat.byKind[k] \in LatencyType
      /\ EndpointPercentiles \in SUBSET Percentiles
  BY DEF AllLatencies, EndpointPercentiles, Percentiles
<1>4. /\ r.total = stats.overall.count /\ r.failures = stats.overall.failures /\ r.transErr = stats.transErr
      /\ r.cache = [hits |-> stats.hits, misses |-> stats.misses] /\ r.endpoints = ep
      /\ r.latency = LatencyMs(lat.overall, Percentiles)
  BY Zenon DEF EmitJSON
<1> HIDE DEF r
<1>5. InOrder(r.latency, Percentiles)
  BY <1>3, <1>4, LatencyInOrder
<1>6. DOMAIN r.cache = {"hits", "misses"} /\ r.cache["hits"] = stats.hits /\ r.cache["misses"] = stats.misses
  BY <1>4
<1>7. DOMAIN ep = S /\ S \in SUBSET Kind
  BY Zenon
<1>8. ASSUME NEW k \in S
      PROVE  /\ ep[k].count = stats.byKind[k].count /\ ep[k].failures = stats.byKind[k].failures
             /\ ep[k].latency = LatencyMs(lat.byKind[k], EndpointPercentiles)
             /\ stats.byKind[k].count \in Nat \ {0} /\ k \in Kind
  BY <1>2
<1>9. IsFiniteSet(Kind) /\ IsFiniteSet(S)
  BY <1>7, KindsFinite, FS_Subset
<1>10. \A k \in Kind \ S : Counts(stats)[k] = 0 /\ Failures(stats)[k] = 0
  BY <1>2 DEF Counts, Failures, KindsCounted
<1>11. \A k \in Kind : /\ Counts(stats)[k] \in Int /\ Counts(stats)[k] = stats.byKind[k].count
                       /\ Failures(stats)[k] \in Int /\ Failures(stats)[k] = stats.byKind[k].failures
  BY <1>2 DEF Counts, Failures
<1>12. DOMAIN Counts(stats) = Kind /\ DOMAIN Failures(stats) = Kind
  BY DEF Counts, Failures
<1> HIDE DEF S, ep
<1>13. ASSUME NEW f, NEW g, DOMAIN g = Kind, \A k \in Kind : g[k] \in Int, \A k \in Kind \ S : g[k] = 0,
              \A k \in S : ep[k][f] = g[k]
       PROVE  SumFunction(EndpointField(r, f)) = SumFunction(g)
  <2> DEFINE h == EndpointField(r, f)
  <2>1. DOMAIN h = S /\ \A k \in S : h[k] = g[k]
    BY <1>4, <1>7, <1>13 DEF EndpointField
  <2> HIDE DEF h
  <2>2. SumFunction(h) = SumFunctionOnSet(h, S) /\ SumFunction(g) = SumFunctionOnSet(g, Kind)
    BY <1>13, <2>1 DEF SumFunction
  <2>3. SumFunctionOnSet(g, Kind) = SumFunctionOnSet(g, S)
    BY <1>7, <1>9, <1>13, SumNonzero
  <2>4. SumFunctionOnSet(h, S) = SumFunctionOnSet(g, S)
    BY <1>9, <2>1, SumAgree
  <2> QED BY <2>2, <2>3, <2>4 DEF h
<1>14. SumFunction(EndpointField(r, "count")) = r.total
  <2>1. \A k \in S : ep[k]["count"] = Counts(stats)[k]
    BY <1>8, <1>11
  <2>2. SumFunction(EndpointField(r, "count")) = SumFunction(Counts(stats))
    BY <1>10, <1>11, <1>12, <1>13, <2>1
  <2> QED BY <1>1, <1>4, <2>2
<1>15. SumFunction(EndpointField(r, "failures")) = r.failures
  <2>1. \A k \in S : ep[k]["failures"] = Failures(stats)[k]
    BY <1>8, <1>11
  <2>2. SumFunction(EndpointField(r, "failures")) = SumFunction(Failures(stats))
    BY <1>10, <1>11, <1>12, <1>13, <2>1
  <2> QED BY <1>1, <1>4, <2>2
<1>16. ASSUME NEW k \in DOMAIN r.endpoints
       PROVE  /\ r.endpoints[k].count \in Nat \ {0} /\ r.endpoints[k].failures \in Nat
              /\ InOrder(r.endpoints[k].latency, EndpointPercentiles)
  <2>1. k \in S /\ r.endpoints[k] = ep[k]
    BY <1>4, <1>7
  <2>2. InOrder(LatencyMs(lat.byKind[k], EndpointPercentiles), EndpointPercentiles)
    BY <1>3, <1>8, <2>1, LatencyInOrder
  <2> QED BY <1>2, <1>8, <2>1, <2>2
<1>17. WellFormed(r)
  <2>1. r.cache["hits"] + r.cache["misses"] + r.transErr = r.total
    BY <1>1, <1>4, <1>6
  <2>2. IsFiniteSet(DOMAIN r.endpoints)
    BY <1>4, <1>7, <1>9
  <2> QED BY <1>2, <1>4, <1>5, <1>6, <1>14, <1>15, <1>16, <2>1, <2>2 DEF WellFormed
<1> QED BY <1>17 DEF r

\* Maps added key by key hold together what they held apart.
LEMMA AddMapsSum ==
  ASSUME NEW maps, IsFiniteSet(DOMAIN maps),
         \A i \in DOMAIN maps : IsFiniteSet(DOMAIN maps[i]) /\ \A k \in DOMAIN maps[i] : maps[i][k] \in Nat,
         NEW sums, \A i \in DOMAIN maps : sums[i] = SumFunction(maps[i])
  PROVE  SumFunction(AddMaps(maps)) = SumFunctionOnSet(sums, DOMAIN maps)
<1> DEFINE I == DOMAIN maps
           doms == {DOMAIN maps[i] : i \in I}
           K == UNION doms
           e == [i \in I |-> [k \in K |-> IF k \in DOMAIN maps[i] THEN maps[i][k] ELSE 0]]
           col == [k \in K |-> [i \in I |-> IF k \in DOMAIN maps[i] THEN maps[i][k] ELSE 0]]
           cols == AddMaps(maps)
           rows == [i \in I |-> SumFunctionOnSet(e[i], K)]
<1>1. IsFiniteSet(K)
  <2>1. IsFiniteSet(doms)
    <3> DEFINE f == [i \in I |-> DOMAIN maps[i]]
    <3>1. f \in Surjection(I, doms)
      BY Zenon DEF Surjection
    <3> HIDE DEF doms, f
    <3> QED BY <3>1, FS_Surjection
  <2>2. \A s \in doms : IsFiniteSet(s)
    OBVIOUS
  <2> HIDE DEF doms
  <2> QED BY <2>1, <2>2, FS_UNION
<1>2. /\ DOMAIN cols = K
      /\ \A k \in K : cols[k] = SumFunctionOnSet(col[k], I)
  <2>1. cols = [k \in K |-> SumFunction(col[k])]
    BY DEF AddMaps
  <2>2. \A k \in K : DOMAIN col[k] = I
    BY Zenon
  <2> HIDE DEF cols, K, col
  <2> QED BY <2>1, <2>2 DEF SumFunction
<1>3. \A i \in I, k \in K : e[i][k] \in Int /\ col[k][i] = e[i][k]
  OBVIOUS
<1>4. ASSUME NEW i \in I PROVE rows[i] = sums[i]
  <2> DEFINE D == DOMAIN maps[i]
  <2>1. D \in SUBSET K /\ IsFiniteSet(D)
    OBVIOUS
  <2>2. /\ \A k \in D : e[i][k] = maps[i][k]
        /\ \A k \in K \ D : e[i][k] = 0
    BY <2>1
  <2>3. sums[i] = SumFunctionOnSet(maps[i], D)
    BY DEF SumFunction
  <2>4. rows[i] = SumFunctionOnSet(e[i], K)
    BY Zenon
  <2> HIDE DEF e, K, D, rows
  <2>5. SumFunctionOnSet(e[i], K) = SumFunctionOnSet(e[i], D)
    BY <1>1, <1>3, <2>1, <2>2, SumNonzero
  <2>6. SumFunctionOnSet(e[i], D) = SumFunctionOnSet(maps[i], D)
    BY <2>1, <2>2, SumAgree
  <2> QED BY <2>3, <2>4, <2>5, <2>6
<1>5. \A i \in I : rows[i] = SumFunctionOnSet(e[i], K)
  BY Zenon
<1> HIDE DEF e, K, col, cols, rows
<1>6. SumFunctionOnSet(cols, K) = SumFunctionOnSet(rows, I)
  <2>1. \A i \in I, k \in K : e[i][k] \in Int
    BY <1>3
  <2>2. SumFunctionOnSet(ColumnSums(e, I, K), K) = SumFunctionOnSet(RowSums(e, I, K), I)
    BY <1>1, <2>1, SumExchange
  <2>3. \A k \in K : Column(e, I, k) = col[k]
    BY <1>3 DEF Column, col
  <2>4. \A k \in K : ColumnSums(e, I, K)[k] = cols[k]
    BY <1>2, <2>3 DEF ColumnSums
  <2>5. SumFunctionOnSet(ColumnSums(e, I, K), K) = SumFunctionOnSet(cols, K)
    BY <1>1, <2>4, SumAgree
  <2>6. RowSums(e, I, K) = rows
    BY Zenon DEF RowSums, rows
  <2> QED BY <2>2, <2>5, <2>6, ZenonT(30)
<1>7. SumFunctionOnSet(rows, I) = SumFunctionOnSet(sums, I)
  BY <1>4, SumAgree
<1>8. SumFunction(cols) = SumFunctionOnSet(cols, K)
  BY <1>2 DEF SumFunction
<1> QED BY <1>6, <1>7, <1>8 DEF cols

----------------------------------------------------------------------------

\* The totals of well-formed reports.
Reports(rs) == IsFiniteSet(DOMAIN rs) /\ DOMAIN rs # {} /\ \A i \in DOMAIN rs : WellFormed(rs[i])
EndpointMaps(rs, field) == [i \in DOMAIN rs |-> EndpointField(rs[i], field)]
Sums(rs, field) == AddMaps(EndpointMaps(rs, field))
Endpoints(rs) == UNION {DOMAIN rs[i].endpoints : i \in DOMAIN rs}

LEMMA AggregateIs ==
  ASSUME NEW rs, NEW all, all = Aggregate(rs)
  PROVE  /\ all.total = SumFunctionOnSet(Field(rs, "total"), DOMAIN rs)
         /\ all.failures = SumFunctionOnSet(Field(rs, "failures"), DOMAIN rs)
         /\ all.transErr = SumFunctionOnSet(Field(rs, "transErr"), DOMAIN rs)
         /\ all.cache = AddMaps(Field(rs, "cache"))
         /\ all.total = 0 => all.endpoints = <<>>
         /\ all.total # 0 =>
              /\ all.endpoints = ByEndpoint(rs)
              /\ all.latency = WeightedLatency(Field(rs, "latency"), Field(rs, "total"), Percentiles)
<1>1. \A f : Total(rs, f) = SumFunctionOnSet(Field(rs, f), DOMAIN rs)
  BY Zenon DEF SumFunction, Field, Total
<1>2. /\ all.total = Total(rs, "total") /\ all.failures = Total(rs, "failures") /\ all.transErr = Total(rs, "transErr")
      /\ all.cache = AddMaps(Field(rs, "cache"))
  BY Zenon DEF Aggregate
<1>3. /\ all.endpoints = IF Total(rs, "total") = 0 THEN <<>> ELSE ByEndpoint(rs)
      /\ all.latency = IF Total(rs, "total") = 0 THEN <<>>
                       ELSE WeightedLatency(Field(rs, "latency"), Field(rs, "total"), Percentiles)
  BY Zenon DEF Aggregate
<1> QED BY <1>1, <1>2, <1>3

\* A number is at most the sum it is part of.
LEMMA SumAtLeast ==
  ASSUME NEW f, NEW S, IsFiniteSet(S), \A x \in S : f[x] \in Nat, NEW x \in S
  PROVE  f[x] <= SumFunctionOnSet(f, S)
<1>1. IsFiniteSet(S \ {x}) /\ \A y \in S : f[y] \in Int
  BY FS_Subset
<1>2. SumFunctionOnSet(f, S) = f[x] + SumFunctionOnSet(f, S \ {x})
  BY <1>1, SumTake
<1>3. SumFunctionOnSet(f, S \ {x}) \in Nat
  <2>1. \A y \in S \ {x} : f[y] \in Nat
    OBVIOUS
  <2> QED BY <1>1, <2>1, SumNat
<1>4. f[x] \in Nat
  OBVIOUS
<1> QED BY <1>2, <1>3, <1>4

\* A report without requests has no endpoints.
LEMMA QuietReport == ASSUME NEW r, WellFormed(r), r.total = 0 PROVE DOMAIN r.endpoints = {}
<1> SUFFICES ASSUME NEW k \in DOMAIN r.endpoints PROVE FALSE
  OBVIOUS
<1> DEFINE f == EndpointField(r, "count")
           K == DOMAIN r.endpoints
<1>1. DOMAIN f = K /\ \A x \in K : f[x] \in Nat \ {0}
  BY DEF EndpointField, WellFormed
<1>2. IsFiniteSet(K) /\ SumFunction(f) = 0
  BY DEF WellFormed
<1>3. SumFunctionOnSet(f, K) = 0
  BY <1>1, <1>2 DEF SumFunction
<1>4. k \in K
  OBVIOUS
<1> HIDE DEF f, K
<1>5. f[k] <= SumFunctionOnSet(f, K)
  BY <1>1, <1>2, <1>4, SumAtLeast
<1> QED BY <1>1, <1>3, <1>4, <1>5

\* Reports without requests have no failures.
LEMMA QuietReports ==
  ASSUME NEW rs, Reports(rs), SumFunctionOnSet(Field(rs, "total"), DOMAIN rs) = 0
  PROVE  SumFunctionOnSet(Field(rs, "failures"), DOMAIN rs) = 0
<1> DEFINE t == Field(rs, "total")
           f == Field(rs, "failures")
           I == DOMAIN rs
<1>1. /\ IsFiniteSet(I)
      /\ \A i \in I : t[i] = rs[i].total /\ f[i] = rs[i].failures /\ rs[i].total \in Nat /\ WellFormed(rs[i])
  BY DEF Reports, Field, WellFormed
<1>2. ASSUME NEW i \in I PROVE f[i] = 0
  <2>1. t[i] <= 0
    <3> HIDE DEF t, I
    <3>1. \A x \in I : t[x] \in Nat
      BY <1>1
    <3>2. t[i] <= SumFunctionOnSet(t, I)
      BY <1>1, <3>1, SumAtLeast
    <3> QED BY <3>2 DEF t, I
  <2>2. rs[i].total = 0
    BY <1>1, <2>1
  <2>3. DOMAIN rs[i].endpoints = {}
    BY <1>1, <2>2, QuietReport
  <2>4. DOMAIN EndpointField(rs[i], "failures") = {}
    BY <2>3 DEF EndpointField
  <2>5. SumFunction(EndpointField(rs[i], "failures")) = 0
    BY <2>4, SumNone DEF SumFunction
  <2> QED BY <1>1, <2>5 DEF WellFormed
<1> HIDE DEF f, I
<1>3. SumFunctionOnSet(f, I) = 0
  BY <1>1, <1>2, SumZero
<1> QED BY <1>3 DEF f, I

\* The keys that the endpoints' maps have together.
LEMMA SumsDomain ==
  ASSUME NEW rs, NEW field
  PROVE  DOMAIN Sums(rs, field) = Endpoints(rs)
<1> DEFINE maps == EndpointMaps(rs, field)
<1>1. DOMAIN maps = DOMAIN rs /\ \A i \in DOMAIN rs : DOMAIN maps[i] = DOMAIN rs[i].endpoints
  BY DEF EndpointMaps, EndpointField
<1> HIDE DEF maps
<1>2. DOMAIN AddMaps(maps) = UNION {DOMAIN maps[i] : i \in DOMAIN maps}
  BY Zenon DEF AddMaps
<1> QED BY <1>1, <1>2 DEF Sums, Endpoints, maps

\* Every request, and every failure, is under its endpoint.
LEMMA EndpointsAddUp ==
  ASSUME NEW rs, Reports(rs)
  PROVE  /\ SumFunction(Sums(rs, "count")) = SumFunctionOnSet(Field(rs, "total"), DOMAIN rs)
         /\ SumFunction(Sums(rs, "failures")) = SumFunctionOnSet(Field(rs, "failures"), DOMAIN rs)
<1>1. \A i \in DOMAIN rs : /\ IsFiniteSet(DOMAIN rs[i].endpoints)
                           /\ \A k \in DOMAIN rs[i].endpoints : /\ rs[i].endpoints[k]["count"] \in Nat
                                                                /\ rs[i].endpoints[k]["failures"] \in Nat
                           /\ SumFunction(EndpointField(rs[i], "count")) = rs[i]["total"]
                           /\ SumFunction(EndpointField(rs[i], "failures")) = rs[i]["failures"]
  BY DEF Reports, WellFormed
<1>2. ASSUME NEW f, NEW g,
             \A i \in DOMAIN rs : /\ \A k \in DOMAIN rs[i].endpoints : rs[i].endpoints[k][f] \in Nat
                                  /\ SumFunction(EndpointField(rs[i], f)) = rs[i][g]
      PROVE  SumFunction(Sums(rs, f)) = SumFunctionOnSet(Field(rs, g), DOMAIN rs)
  <2> DEFINE m == EndpointMaps(rs, f)
             t == Field(rs, g)
  <2>1. DOMAIN m = DOMAIN rs /\ \A i \in DOMAIN rs : m[i] = EndpointField(rs[i], f) /\ t[i] = rs[i][g]
    BY DEF Field, EndpointMaps
  <2> HIDE DEF m, t
  <2>2. IsFiniteSet(DOMAIN m)
    BY <2>1, Zenon DEF Reports
  <2>3. ASSUME NEW i \in DOMAIN m
        PROVE  /\ IsFiniteSet(DOMAIN m[i]) /\ \A k \in DOMAIN m[i] : m[i][k] \in Nat
               /\ t[i] = SumFunction(m[i])
    <3>1. /\ DOMAIN EndpointField(rs[i], f) = DOMAIN rs[i].endpoints
          /\ \A k \in DOMAIN rs[i].endpoints : EndpointField(rs[i], f)[k] = rs[i].endpoints[k][f]
      BY DEF EndpointField
    <3> QED BY <1>1, <1>2, <2>1, <3>1
  <2>4. SumFunction(AddMaps(m)) = SumFunctionOnSet(t, DOMAIN m)
    BY <2>2, <2>3, AddMapsSum
  <2> QED BY <2>1, <2>4 DEF m, t, Sums
<1>3. SumFunction(Sums(rs, "count")) = SumFunctionOnSet(Field(rs, "total"), DOMAIN rs)
  BY <1>1, <1>2, Zenon
<1>4. SumFunction(Sums(rs, "failures")) = SumFunctionOnSet(Field(rs, "failures"), DOMAIN rs)
  BY <1>1, <1>2, Zenon
<1> QED BY <1>3, <1>4

\* The endpoint roll-up has their sums.
LEMMA ByEndpointIs ==
  ASSUME NEW rs, NEW all, all.endpoints = ByEndpoint(rs)
  PROVE  /\ EndpointField(all, "count") = Sums(rs, "count")
         /\ EndpointField(all, "failures") = Sums(rs, "failures")
         /\ DOMAIN all.endpoints = Endpoints(rs)
         /\ \A k \in Endpoints(rs) : all.endpoints[k].latency =
              WeightedLatency(OfEndpoint(rs, k, "latency"), OfEndpoint(rs, k, "count"), EndpointPercentiles)
<1> DEFINE W(k) == WeightedLatency(OfEndpoint(rs, k, "latency"), OfEndpoint(rs, k, "count"), EndpointPercentiles)
           c == Sums(rs, "count")
           f == Sums(rs, "failures")
<1>1. all.endpoints = [k \in DOMAIN c |-> [count |-> c[k], failures |-> f[k], latency |-> W(k)]]
  BY Zenon DEF ByEndpoint, Sums, EndpointMaps
<1>2. c = [k \in DOMAIN c |-> c[k]] /\ f = [k \in DOMAIN f |-> f[k]]
  BY Zenon DEF Sums, AddMaps
<1>3. DOMAIN c = Endpoints(rs) /\ DOMAIN f = Endpoints(rs)
  BY SumsDomain
<1> HIDE DEF c, f, W
<1>4. /\ DOMAIN all.endpoints = Endpoints(rs)
      /\ \A k \in Endpoints(rs) : /\ all.endpoints[k]["count"] = c[k] /\ all.endpoints[k]["failures"] = f[k]
                                  /\ all.endpoints[k]["latency"] = W(k)
  BY <1>1, <1>3
<1>5. EndpointField(all, "count") = c /\ EndpointField(all, "failures") = f
  BY <1>2, <1>3, <1>4 DEF EndpointField
<1> QED BY <1>4, <1>5 DEF c, f, W

\* Every request is a hit, a miss or a transport error.
LEMMA CacheAddsUp ==
  ASSUME NEW rs, Reports(rs), NEW c, c = AddMaps(Field(rs, "cache"))
  PROVE  c.hits + c.misses + SumFunctionOnSet(Field(rs, "transErr"), DOMAIN rs)
           = SumFunctionOnSet(Field(rs, "total"), DOMAIN rs)
<1> DEFINE I == DOMAIN rs
           maps == Field(rs, "cache")
           hits == [i \in I |-> rs[i].cache["hits"]]
           misses == [i \in I |-> rs[i].cache["misses"]]
           errs == Field(rs, "transErr")
           total == Field(rs, "total")
           some == [i \in I |-> rs[i].cache["hits"] + rs[i].cache["misses"]]
<1>1. \A i \in I : /\ DOMAIN rs[i].cache = {"hits", "misses"} /\ rs[i].cache["hits"] \in Nat
                   /\ rs[i].cache["misses"] \in Nat /\ rs[i].transErr \in Nat
                   /\ rs[i].cache["hits"] + rs[i].cache["misses"] + rs[i].transErr = rs[i].total
  BY DEF Reports, WellFormed
<1>2. IsFiniteSet(I) /\ I # {}
  BY Zenon DEF Reports
<1>3. DOMAIN maps = I /\ \A i \in I : maps[i] = rs[i].cache /\ errs[i] = rs[i].transErr /\ total[i] = rs[i].total
  BY DEF Field
<1> HIDE DEF maps, errs, total
<1>4. UNION {DOMAIN maps[i] : i \in DOMAIN maps} = {"hits", "misses"}
  BY <1>1, <1>2, <1>3
<1>5. ASSUME NEW k \in {"hits", "misses"} PROVE c[k] = SumFunction([i \in I |-> rs[i].cache[k]])
  <2>1. c[k] = SumFunction([i \in DOMAIN maps |-> IF k \in DOMAIN maps[i] THEN maps[i][k] ELSE 0])
    BY <1>4 DEF AddMaps, maps
  <2>2. [i \in DOMAIN maps |-> IF k \in DOMAIN maps[i] THEN maps[i][k] ELSE 0] = [i \in I |-> rs[i].cache[k]]
    BY <1>1, <1>3
  <2> QED BY <2>1, <2>2
<1>6. c.hits = SumFunctionOnSet(hits, I) /\ c.misses = SumFunctionOnSet(misses, I)
  <2>1. c["hits"] = SumFunction(hits) /\ c["misses"] = SumFunction(misses)
    BY <1>5, Zenon
  <2>2. DOMAIN hits = I /\ DOMAIN misses = I
    OBVIOUS
  <2> HIDE DEF hits, misses
  <2> QED BY <2>1, <2>2 DEF SumFunction
<1>7. \A i \in I : hits[i] \in Int /\ misses[i] \in Int /\ some[i] = hits[i] + misses[i]
  BY <1>1
<1>8. \A i \in I : some[i] \in Int /\ errs[i] \in Int /\ total[i] = some[i] + errs[i]
  BY <1>1, <1>3
<1> HIDE DEF I, hits, misses, some
<1>9. SumFunctionOnSet(some, I) = SumFunctionOnSet(hits, I) + SumFunctionOnSet(misses, I)
  BY <1>2, <1>7, SumPlus
<1>10. SumFunctionOnSet(total, I) = SumFunctionOnSet(some, I) + SumFunctionOnSet(errs, I)
  BY <1>2, <1>8, SumPlus
<1> QED BY <1>6, <1>9, <1>10, Zenon DEF I, errs, total

\* The sum of weighted percentiles.
Weighted(latencies, requests, p) == [i \in DOMAIN requests |-> latencies[i][p] * requests[i]]
Latency(latencies, requests, ps) ==
  IsFiniteSet(DOMAIN requests) /\ \A i \in DOMAIN requests : requests[i] \in Nat /\ InOrder(latencies[i], ps)

\* Weighted percentiles are in the order of those they are of.
LEMMA WeightedInOrder ==
  ASSUME NEW ls, NEW t, NEW ps, Latency(ls, t, ps), NEW p \in ps, NEW q \in ps, Share[p] <= Share[q]
  PROVE  SumFunctionOnSet(Weighted(ls, t, p), DOMAIN t) <= SumFunctionOnSet(Weighted(ls, t, q), DOMAIN t)
<1>1. \A i \in DOMAIN t : t[i] \in Nat /\ ls[i][p] \in Nat /\ ls[i][q] \in Nat /\ ls[i][p] <= ls[i][q]
  BY Zenon DEF Latency, InOrder
<1>2. ASSUME NEW i \in DOMAIN t
      PROVE  /\ Weighted(ls, t, p)[i] \in Int /\ Weighted(ls, t, q)[i] \in Int
             /\ Weighted(ls, t, p)[i] <= Weighted(ls, t, q)[i]
  <2>1. Weighted(ls, t, p)[i] = ls[i][p] * t[i] /\ Weighted(ls, t, q)[i] = ls[i][q] * t[i]
    BY DEF Weighted
  <2>2. ls[i][p] * t[i] <= ls[i][q] * t[i]
    BY <1>1, Product
  <2>3. ls[i][p] * t[i] \in Int /\ ls[i][q] * t[i] \in Int
    BY <1>1
  <2> QED BY <2>1, <2>2, <2>3
<1>3. IsFiniteSet(DOMAIN t)
  BY Zenon DEF Latency
<1> QED BY <1>2, <1>3, SumMonotone

\* A weighted percentile is not below the least of those that had requests, nor above the
\* greatest.
LEMMA WeightedBetween ==
  ASSUME NEW ls, NEW t, NEW ps, Latency(ls, t, ps), NEW p \in ps,
         NEW busy, busy = {i \in DOMAIN t : t[i] > 0}, busy # {},
         NEW T, T = SumFunctionOnSet(t, DOMAIN t), NEW W, W = SumFunctionOnSet(Weighted(ls, t, p), DOMAIN t)
  PROVE  /\ \E i \in busy : W >= ls[i][p] * T
         /\ \E i \in busy : W <= ls[i][p] * T
<1> DEFINE I == DOMAIN t
           l == [i \in I |-> ls[i][p]]
           w == Weighted(ls, t, p)
<1>0. \A i \in I : t[i] \in Nat /\ ls[i][p] \in Nat
  BY Zenon DEF Latency, InOrder
<1>1. /\ IsFiniteSet(I) /\ busy \in SUBSET I
      /\ \A i \in I : l[i] \in Nat /\ t[i] \in Nat /\ l[i] = ls[i][p] /\ w[i] = l[i] * t[i]
  BY <1>0 DEF Latency, Weighted
<1>2. \A i \in I \ busy : t[i] = 0
  BY <1>0
<1>3. T = SumFunctionOnSet(t, I) /\ W = SumFunctionOnSet(w, I)
  BY Zenon
<1> HIDE DEF I, l, w
<1>4. IsFiniteSet(busy)
  BY <1>1, FS_Subset
<1>5. \A i \in I : t[i] \in Int /\ w[i] \in Int
  BY <1>1
<1>6. ASSUME NEW j \in busy
      PROVE  /\ l[j] \in Nat /\ l[j] = ls[j][p]
             /\ \A i \in I : [k \in I |-> l[j] * t[k]][i] = l[j] * t[i] /\ l[j] * t[i] \in Int
             /\ SumFunctionOnSet([k \in I |-> l[j] * t[k]], I) = l[j] * T
  <2> DEFINE g == [k \in I |-> l[j] * t[k]]
  <2>1. l[j] \in Nat /\ l[j] = ls[j][p]
    BY <1>1
  <2>2. \A i \in I : g[i] = l[j] * t[i] /\ l[j] * t[i] \in Int
    BY <1>1, <2>1
  <2>3. SumFunctionOnSet(g, I) = l[j] * SumFunctionOnSet(t, I)
    <3> HIDE DEF g
    <3>1. l[j] \in Int /\ \A i \in I : t[i] \in Int /\ g[i] = l[j] * t[i]
      BY <1>5, <2>1, <2>2
    <3> QED BY <1>1, <3>1, SumScale
  <2> QED BY <1>3, <2>1, <2>2, <2>3
<1>7. PICK j \in busy : \A i \in busy : l[j] <= l[i]
  <2>1. \A i \in busy : l[i] \in Nat
    BY <1>1, Zenon
  <2> QED BY <2>1, Least, Zenon
<1>8. PICK m \in busy : \A i \in busy : l[i] <= l[m]
  <2>1. \A i \in busy : l[i] \in Nat
    BY <1>1
  <2> QED BY <1>4, <2>1, Greatest, Zenon
<1>9. W >= ls[j][p] * T
  <2> DEFINE g == [k \in I |-> l[j] * t[k]]
  <2>1. \A i \in I : g[i] = l[j] * t[i] /\ g[i] \in Int
    BY <1>6, Zenon
  <2>2. SumFunctionOnSet(g, I) = ls[j][p] * T /\ l[j] \in Nat
    BY <1>6
  <2> HIDE DEF g
  <2>3. ASSUME NEW i \in I PROVE g[i] \in Int /\ w[i] \in Int /\ g[i] <= w[i]
    <3>1. CASE i \in busy
      <4>1. l[j] <= l[i] /\ l[i] \in Nat /\ t[i] \in Nat /\ w[i] = l[i] * t[i]
        BY <1>1, <1>7, <3>1, ZenonT(30)
      <4>2. l[j] * t[i] <= l[i] * t[i]
        BY <2>2, <4>1, Product
      <4> QED BY <1>5, <2>1, <4>1, <4>2
    <3>2. CASE i \notin busy
      <4>1. t[i] = 0 /\ w[i] = l[i] * t[i] /\ l[i] \in Nat
        BY <1>1, <1>2, <3>2, ZenonT(30)
      <4>2. l[j] * 0 = 0 /\ l[i] * 0 = 0
        BY <2>2, <4>1
      <4> QED BY <1>5, <2>1, <4>1, <4>2
    <3> QED BY <3>1, <3>2
  <2>4. SumFunctionOnSet(g, I) <= SumFunctionOnSet(w, I)
    BY <1>1, <2>3, SumMonotone
  <2>5. SumFunctionOnSet(g, I) \in Int /\ SumFunctionOnSet(w, I) \in Int
    BY <1>1, <2>3, SumType
  <2> QED BY <1>3, <2>2, <2>4, <2>5
<1>10. W <= ls[m][p] * T
  <2> DEFINE g == [k \in I |-> l[m] * t[k]]
  <2>1. \A i \in I : g[i] = l[m] * t[i] /\ g[i] \in Int
    BY <1>6, ZenonT(30)
  <2>2. SumFunctionOnSet(g, I) = ls[m][p] * T /\ l[m] \in Nat
    BY <1>6
  <2> HIDE DEF g
  <2>3. ASSUME NEW i \in I PROVE g[i] \in Int /\ w[i] \in Int /\ w[i] <= g[i]
    <3>1. CASE i \in busy
      <4>1. l[i] <= l[m] /\ l[i] \in Nat /\ t[i] \in Nat /\ w[i] = l[i] * t[i]
        BY <1>1, <1>8, <3>1
      <4>2. l[i] * t[i] <= l[m] * t[i]
        BY <2>2, <4>1, Product
      <4> QED BY <1>5, <2>1, <4>1, <4>2
    <3>2. CASE i \notin busy
      <4>1. t[i] = 0 /\ w[i] = l[i] * t[i] /\ l[i] \in Nat
        BY <1>1, <1>2, <3>2, Zenon
      <4>2. l[m] * 0 = 0 /\ l[i] * 0 = 0
        BY <2>2, <4>1
      <4> QED BY <1>5, <2>1, <4>1, <4>2
    <3> QED BY <3>1, <3>2
  <2>4. SumFunctionOnSet(w, I) <= SumFunctionOnSet(g, I)
    BY <1>1, <2>3, SumMonotone
  <2> QED BY <1>3, <2>2, <2>4, Zenon
<1> QED BY <1>9, <1>10

\* Weighted percentiles are faithful, if there was a request.
LEMMA WeightedFaithful ==
  ASSUME NEW ls, NEW t, NEW ps, Latency(ls, t, ps), \E i \in DOMAIN t : t[i] > 0
  PROVE  Between(WeightedLatency(ls, t, ps), ls, t, ps)
<1> DEFINE v == WeightedLatency(ls, t, ps)
           busy == {i \in DOMAIN t : t[i] > 0}
           T == SumFunctionOnSet(t, DOMAIN t)
           W(p) == SumFunctionOnSet(Weighted(ls, t, p), DOMAIN t)
<1>1. \A p \in ps : v[p] = <<SumFunction(Weighted(ls, t, p)), SumFunction(t)>>
  BY DEF WeightedLatency, Weighted
<1>2. SumFunction(t) = T /\ \A p : SumFunction(Weighted(ls, t, p)) = W(p)
  <2>1. \A p : DOMAIN Weighted(ls, t, p) = DOMAIN t
    BY DEF Weighted
  <2> QED BY <2>1, Zenon DEF SumFunction
<1> HIDE DEF v, T, W
<1>3. \A p \in ps : v[p][1] = W(p) /\ v[p][2] = T
  BY <1>1, <1>2
<1>4. ASSUME NEW p \in ps
      PROVE  /\ \E i \in busy : v[p][1] >= ls[i][p] * v[p][2]
             /\ \E i \in busy : v[p][1] <= ls[i][p] * v[p][2]
  <2> DEFINE b == busy
             w == W(p)
  <2>1. b = {i \in DOMAIN t : t[i] > 0} /\ b # {} /\ T = SumFunctionOnSet(t, DOMAIN t)
        /\ w = SumFunctionOnSet(Weighted(ls, t, p), DOMAIN t)
    BY Zenon DEF T, W
  <2>2. v[p][1] = w /\ v[p][2] = T
    BY <1>3
  <2> HIDE DEF b, w
  <2>3. /\ \E i \in b : w >= ls[i][p] * T
        /\ \E i \in b : w <= ls[i][p] * T
    BY <2>1, WeightedBetween
  <2> QED BY <2>2, <2>3 DEF b
<1>5. ASSUME NEW p \in ps, NEW q \in ps, Share[p] <= Share[q] PROVE v[p][1] <= v[q][1]
  <2>1. W(p) <= W(q)
    BY <1>5, WeightedInOrder DEF W
  <2> QED BY <1>3, <2>1
<1> QED BY <1>4, <1>5, Zenon DEF Between, v

\* The percentiles of the reports, and of the endpoints they have.
LEMMA ReportLatencies ==
  ASSUME NEW rs, Reports(rs), SumFunctionOnSet(Field(rs, "total"), DOMAIN rs) # 0
  PROVE  Between(WeightedLatency(Field(rs, "latency"), Field(rs, "total"), Percentiles),
                 Field(rs, "latency"), Field(rs, "total"), Percentiles)
<1> DEFINE ls == Field(rs, "latency")
           t == Field(rs, "total")
<1>1. DOMAIN t = DOMAIN rs /\ \A i \in DOMAIN rs : t[i] = rs[i].total /\ ls[i] = rs[i].latency
  BY DEF Field
<1>2. /\ IsFiniteSet(DOMAIN rs)
      /\ \A i \in DOMAIN rs : rs[i].total \in Nat /\ InOrder(rs[i].latency, Percentiles)
  BY Zenon DEF Reports, WellFormed
<1>3. SumFunctionOnSet(t, DOMAIN t) # 0
  BY <1>1
<1> HIDE DEF ls, t
<1>4. Latency(ls, t, Percentiles)
  BY <1>1, <1>2, Zenon DEF Latency
<1>5. \E i \in DOMAIN t : t[i] > 0
  <2> SUFFICES ASSUME \A i \in DOMAIN t : ~(t[i] > 0) PROVE FALSE
    OBVIOUS
  <2>1. \A i \in DOMAIN t : t[i] = 0
    BY <1>1, <1>2
  <2>2. SumFunctionOnSet(t, DOMAIN t) = 0
    BY <1>1, <1>2, <2>1, SumZero
  <2> QED BY <1>3, <2>2
<1>6. Between(WeightedLatency(ls, t, Percentiles), ls, t, Percentiles)
  BY <1>4, <1>5, WeightedFaithful
<1> QED BY <1>6 DEF ls, t

LEMMA EndpointLatencies ==
  ASSUME NEW rs, Reports(rs), NEW k \in Endpoints(rs)
  PROVE  Between(WeightedLatency(OfEndpoint(rs, k, "latency"), OfEndpoint(rs, k, "count"), EndpointPercentiles),
                 OfEndpoint(rs, k, "latency"), OfEndpoint(rs, k, "count"), EndpointPercentiles)
<1> DEFINE ls == OfEndpoint(rs, k, "latency")
           t == OfEndpoint(rs, k, "count")
           H == Having(rs, k)
<1>1. H \in SUBSET DOMAIN rs /\ H # {} /\ \A i \in H : k \in DOMAIN rs[i].endpoints
  BY DEF Having, Endpoints
<1>2. DOMAIN t = H /\ \A i \in H : t[i] = rs[i].endpoints[k].count /\ ls[i] = rs[i].endpoints[k].latency
  BY DEF OfEndpoint
<1>3. IsFiniteSet(DOMAIN rs) /\ \A i \in DOMAIN rs : WellFormed(rs[i])
  BY Zenon DEF Reports
<1> HIDE DEF ls, t, H
<1>4. \A i \in H : rs[i].endpoints[k].count \in Nat \ {0} /\ InOrder(rs[i].endpoints[k].latency, EndpointPercentiles)
  BY <1>1, <1>3, Zenon DEF WellFormed
<1>5. IsFiniteSet(H)
  BY <1>1, <1>3, FS_Subset
<1>6. Latency(ls, t, EndpointPercentiles) /\ \E i \in DOMAIN t : t[i] > 0
  BY <1>1, <1>2, <1>4, <1>5 DEF Latency
<1>7. Between(WeightedLatency(ls, t, EndpointPercentiles), ls, t, EndpointPercentiles)
  BY <1>6, WeightedFaithful
<1> QED BY <1>7 DEF ls, t

\* What was rolled up from well-formed reports is faithful to them.
LEMMA LoadTestInvMeans == LoadTestInv => RollUpFaithful
<1> SUFFICES ASSUME LoadTestInv, combined # None PROVE RollUpFaithful
  BY Zenon DEF RollUpFaithful
<1> DEFINE rs == combined.reports
           all == combined.result
           T == SumFunctionOnSet(Field(rs, "total"), DOMAIN rs)
           F == SumFunctionOnSet(Field(rs, "failures"), DOMAIN rs)
<1>1. Reports(rs) /\ all = Aggregate(rs)
  BY Zenon DEF LoadTestInv, Reports
<1> HIDE DEF rs, all
<1>2. /\ all.total = T /\ all.failures = F
      /\ all.transErr = SumFunctionOnSet(Field(rs, "transErr"), DOMAIN rs)
      /\ all.cache = AddMaps(Field(rs, "cache"))
      /\ all.total = 0 => all.endpoints = <<>>
      /\ all.total # 0 =>
           /\ all.endpoints = ByEndpoint(rs)
           /\ all.latency = WeightedLatency(Field(rs, "latency"), Field(rs, "total"), Percentiles)
  BY <1>1, AggregateIs
<1>3. all.cache.hits + all.cache.misses + all.transErr = all.total
  <2> DEFINE c == all.cache
  <2>1. c = AddMaps(Field(rs, "cache"))
    BY <1>2
  <2> HIDE DEF c
  <2>2. c.hits + c.misses + SumFunctionOnSet(Field(rs, "transErr"), DOMAIN rs) = T
    BY <1>1, <2>1, CacheAddsUp
  <2> QED BY <1>2, <2>2 DEF c
<1> HIDE DEF T, F
<1>4. CASE all.total = 0
  <2>1. DOMAIN all.endpoints = {} /\ ~(all.total > 0)
    BY <1>2, <1>4
  <2>2. DOMAIN EndpointField(all, "count") = {} /\ DOMAIN EndpointField(all, "failures") = {}
    BY <2>1 DEF EndpointField
  <2>3. SumFunction(EndpointField(all, "count")) = 0 /\ SumFunction(EndpointField(all, "failures")) = 0
    BY <2>2, SumNone DEF SumFunction
  <2>4. all.failures = 0
    BY <1>1, <1>2, <1>4, QuietReports DEF T, F
  <2> QED BY <1>3, <1>4, <2>1, <2>3, <2>4, Zenon DEF RollUpFaithful, rs, all
<1>5. CASE all.total # 0
  <2>1. /\ EndpointField(all, "count") = Sums(rs, "count") /\ EndpointField(all, "failures") = Sums(rs, "failures")
        /\ DOMAIN all.endpoints = Endpoints(rs)
        /\ \A k \in Endpoints(rs) : all.endpoints[k].latency =
             WeightedLatency(OfEndpoint(rs, k, "latency"), OfEndpoint(rs, k, "count"), EndpointPercentiles)
    BY <1>2, <1>5, ByEndpointIs
  <2>2. SumFunction(EndpointField(all, "count")) = all.total /\ SumFunction(EndpointField(all, "failures")) = all.failures
    BY <1>1, <1>2, <2>1, EndpointsAddUp DEF T, F
  <2>3. Between(all.latency, Field(rs, "latency"), Field(rs, "total"), Percentiles)
    BY <1>1, <1>2, <1>5, ReportLatencies DEF T
  <2>4. \A k \in DOMAIN all.endpoints :
          Between(all.endpoints[k].latency, OfEndpoint(rs, k, "latency"), OfEndpoint(rs, k, "count"),
                  EndpointPercentiles)
    BY <1>1, <2>1, EndpointLatencies
  <2> QED BY <1>3, <2>2, <2>3, <2>4, Zenon DEF RollUpFaithful, rs, all
<1> QED BY <1>4, <1>5

\* The reports that are rolled up are well formed.
LEMMA RollUpKeeps ==
  ASSUME StressInv, KindsCounted, lat \in AllLatencies, NEW rs \in Others
  PROVE  Reports(<<EmitJSON(stats, lat)>> \o rs)
<1> DEFINE r == EmitJSON(stats, lat)
           s == <<r>> \o rs
<1>1. WellFormed(r)
  BY ReportWellFormed
<1>2. rs \in Seq(Range(rs)) /\ \A i \in DOMAIN rs : WellFormed(rs[i])
  BY OthersAssumption
<1> HIDE DEF r
<1> DEFINE S == Range(rs) \cup {r}
<1>3. rs \in Seq(S) /\ <<r>> \in Seq(S) /\ Len(<<r>>) = 1 /\ <<r>>[1] = r
  BY <1>2
<1> HIDE DEF S
<1>4. /\ s \in Seq(S) /\ Len(s) = 1 + Len(rs)
      /\ \A i \in 1..Len(s) : s[i] = IF i <= 1 THEN r ELSE rs[i - 1]
  BY <1>3
<1> HIDE DEF s
<1>5. Len(rs) \in Nat /\ DOMAIN rs = 1..Len(rs) /\ DOMAIN s = 1..Len(s) /\ Len(s) \in Nat
  BY <1>3, <1>4
<1>6. IsFiniteSet(DOMAIN s) /\ DOMAIN s # {}
  <2>1. IsFiniteSet(1..Len(s))
    BY <1>5, FS_Interval
  <2> QED BY <1>4, <1>5, <2>1
<1>7. \A i \in DOMAIN s : WellFormed(s[i])
  <2> SUFFICES ASSUME NEW i \in 1..Len(s) PROVE WellFormed(s[i])
    BY <1>5
  <2>1. CASE i <= 1
    BY <1>1, <1>4, <2>1
  <2>2. CASE ~(i <= 1)
    <3>1. i - 1 \in DOMAIN rs /\ s[i] = rs[i - 1]
      BY <1>4, <1>5, <2>2
    <3> QED BY <1>2, <3>1
  <2> QED BY <2>1, <2>2
<1> QED BY <1>6, <1>7, Zenon DEF Reports, s, r

----------------------------------------------------------------------------
(***************************************************************************)
(* The load test.                                                          *)
(***************************************************************************)

\* The corpus is complete and the load test begins.
LEMMA BeginKeeps ==
  ASSUME SeedInv, StressInv, Begin
  PROVE  SeedInv' /\ StressInv'
<1>1. /\ seeder.pc = "complete" /\ seeder' = [seeder EXCEPT !.truncate = TRUE] /\ before' = db
      /\ runs' = MaxRuns /\ db' = db
  BY DEF Begin, StartWarmup, StartAtOnce
<1>2. PICK next \in {"warmup", "measure"} : StartRun(next)
  BY DEF Begin, StartWarmup, StartAtOnce
<1>3. /\ seeder' \in [pc : {"none", "truncate", "insert", "complete", "rejected", "interrupted"},
                       at : Nat, n : Nat, truncate : BOOLEAN]
      /\ seeder'.pc = "complete" /\ seeder'.truncate /\ seeder'.n = seeder.n
  BY <1>1, Zenon DEF SeedInv, SeedTypeOK
<1>4. SeedTypeOK'
  BY <1>1, <1>3, SeedAssumption, Zenon DEF SeedInv, SeedTypeOK
<1>5. SeedInv'
  BY <1>1, <1>3, <1>4 DEF SeedInv
<1>6. StressInv'
  BY <1>2, <1>3, StartRunKeeps, Zenon DEF StressInv
<1> QED BY <1>5, <1>6

\* The seeder's invariant reads only what the seeder writes.
LEMMA SameSeed == ASSUME SeedInv, UNCHANGED seedVars PROVE SeedInv'
<1>1. db' = db /\ seeder' = seeder /\ before' = before /\ runs' = runs
  BY Zenon DEF seedVars
<1> QED BY <1>1 DEF SeedInv, SeedTypeOK

\* The load generator's invariant, when it does not run.
LEMMA SameStress ==
  ASSUME StressInv, UNCHANGED stressVars, phase # "idle" => seeder' = seeder
  PROVE  StressInv'
<1>1. /\ phase' = phase /\ expired' = expired /\ at' = at /\ query' = query /\ stats' = stats /\ facts' = facts
  BY Zenon DEF stressVars
<1>2. /\ phase' \in {"idle", "warmup", "measure", "reported"} /\ expired' \in BOOLEAN
      /\ phase' \in {"idle", "reported"} => Idle
      /\ phase' # "idle" => seeder'.pc = "complete"
  BY <1>1 DEF StressInv, StressTypeOK
<1> QED BY <1>1, <1>2, SameCounters

\* The part of the invariant that is about the report and the roll-up.
LatencyInv == Reported => lat \in AllLatencies
RollUpInv == combined # None => Reports(combined.reports) /\ combined.result = Aggregate(combined.reports)

LEMMA LoadTestInvIs == LoadTestInv <=> SeedInv /\ StressInv /\ KindsCounted /\ LatencyInv /\ RollUpInv
BY Zenon DEF LoadTestInv, LatencyInv, RollUpInv, Reports

\* A kind is counted before a worker judges an answer of it.
LEMMA SameKinds ==
  ASSUME KindsCounted, stats' = stats, NEW w \in Worker, StressTypeOK,
         \A v \in Worker \ {w} : at'[v] = at[v] /\ query'[v] = query[v],
         at'[w] \in {"status", "store"} => at[w] = "status" /\ query'[w] = query[w]
  PROVE  KindsCounted'
BY DEF KindsCounted

LEMMA StartRunCounts == ASSUME NEW next, StartRun(next) PROVE KindsCounted'
<1>1. stats' = NewStats /\ at' = [w \in Worker |-> "pick"]
  BY DEF StartRun
<1>2. \A k \in Kind : stats'.byKind[k].failures = 0
  BY <1>1 DEF NewStats, NewBucket
<1>3. \A w \in Worker : at'[w] = "pick"
  BY <1>1
<1> QED BY <1>2, <1>3 DEF KindsCounted

\* Counting a request, or a failure of a kind that was counted.
LEMMA AddFailureIs ==
  ASSUME NEW st \in Stats, NEW kind \in Kind
  PROVE  LET new == AddFailure(st, kind)
         IN  \A k \in Kind : /\ new.byKind[k].count = st.byKind[k].count
                             /\ k # kind => new.byKind[k].failures = st.byKind[k].failures
BY DEF AddFailure, RecordMismatch, Stats, Bucket

LEMMA CountedIs ==
  ASSUME NEW st \in Stats, NEW kind \in Kind
  PROVE  LET new == Counted(st, kind)
         IN  \A k \in Kind : /\ new.byKind[k].count = st.byKind[k].count + (IF k = kind THEN 1 ELSE 0)
                             /\ new.byKind[k].failures = st.byKind[k].failures
BY DEF Counted, Stats, Bucket

LEMMA TallyCounts ==
  ASSUME StressInv, KindsCounted, NEW w \in Worker, NEW q \in Returned, Tally(w, q, stats)
  PROVE  KindsCounted'
<1> DEFINE C == Counted(stats, q.kind)
           L == WithTransErr(C)
<1>1. /\ stats \in Stats /\ Tallied(stats) /\ q.kind \in Kind
      /\ DOMAIN query = Worker /\ at \in [Worker -> {"done", "pick", "wait", "bucket", "status", "store"}]
      /\ \A v \in Worker : at[v] \in {"status", "store"} => query[v] \in Returned
  BY Zenon DEF StressInv, StressTypeOK, Returned
<1>2. \A v \in Worker \ {w} : at'[v] = at[v] /\ query'[v] = query[v]
  BY <1>1 DEF Tally
<1>3. at'[w] = "pick" \/ query'[w] = [q EXCEPT !.hit = FALSE]
  BY <1>1, Zenon DEF Tally
<1>4. stats' = AddFailure(L, q.kind) \/ stats' = WithHit(C) \/ stats' = WithMiss(C)
  BY Zenon DEF Tally, Counted, WithTransErr, WithHit, WithMiss
<1>5. C \in Stats /\ Tallied(C)
  BY <1>1, CountedKeeps, Zenon
<1>6. \A k \in Kind : /\ stats'.byKind[k].count = stats.byKind[k].count + (IF k = q.kind THEN 1 ELSE 0)
                      /\ k # q.kind => stats'.byKind[k].failures = stats.byKind[k].failures
                      /\ stats.byKind[k].count \in Nat
  <2>1. \A k \in Kind : /\ C.byKind[k].count = stats.byKind[k].count + (IF k = q.kind THEN 1 ELSE 0)
                        /\ C.byKind[k].failures = stats.byKind[k].failures
    BY <1>1, CountedIs
  <2>2. \A k \in Kind : stats.byKind[k].count \in Nat
    BY <1>1, Zenon DEF Stats, Bucket
  <2> HIDE DEF C
  <2>3. /\ L \in Stats /\ L.byKind = C.byKind
        /\ WithHit(C).byKind = C.byKind /\ WithMiss(C).byKind = C.byKind
    BY <1>5 DEF Stats, WithTransErr, WithHit, WithMiss
  <2> HIDE DEF L
  <2>4. CASE stats' = AddFailure(L, q.kind)
    <3>1. \A k \in Kind : /\ AddFailure(L, q.kind).byKind[k].count = L.byKind[k].count
                          /\ k # q.kind => AddFailure(L, q.kind).byKind[k].failures = L.byKind[k].failures
      BY <1>1, <2>3, AddFailureIs, Zenon
    <3>2. \A k \in Kind : /\ stats'.byKind[k].count = C.byKind[k].count
                          /\ k # q.kind => stats'.byKind[k].failures = C.byKind[k].failures
      BY <2>3, <2>4, <3>1, Zenon
    <3> QED BY <2>1, <2>2, <3>2, Zenon
  <2>5. CASE stats' = WithHit(C) \/ stats' = WithMiss(C)
    BY <2>1, <2>2, <2>3, <2>5
  <2> QED BY <1>4, <2>4, <2>5 DEF L
<1>7. \A k \in Kind : stats'.byKind[k].count = 0 => stats'.byKind[k].failures = 0
  BY <1>6 DEF KindsCounted
<1>8. ASSUME NEW v \in Worker, at'[v] \in {"status", "store"} PROVE stats'.byKind[query'[v].kind].count > 0
  <2>1. CASE v = w
    <3>1. query'[v] = [q EXCEPT !.hit = FALSE]
      BY <1>3, <1>8, <2>1
    <3>2. query'[v].kind = q.kind
      BY <3>1, Zenon DEF Returned
    <3> QED BY <1>1, <1>6, <3>2
  <2>2. CASE v # w
    <3>1. /\ query'[v] = query[v] /\ at[v] \in {"status", "store"} /\ query[v].kind \in Kind
          /\ stats.byKind[query[v].kind].count > 0
      BY <1>1, <1>2, <1>8, <2>2 DEF Returned, KindsCounted
    <3> QED BY <1>6, <3>1
  <2> QED BY <2>1, <2>2
<1> QED BY <1>7, <1>8 DEF KindsCounted

LEMMA JudgeCounts ==
  ASSUME StressTypeOK, KindsCounted, NEW w \in Worker, at[w] \in {"status", "store"},
         NEW st \in Stats, st.byKind = stats.byKind, Judge(w, st)
  PROVE  KindsCounted'
<1> DEFINE kind == query[w].kind
<1>1. stats \in Stats /\ query[w] \in Returned /\ kind \in Kind /\ DOMAIN query = Worker /\ DOMAIN at = Worker
  BY DEF StressTypeOK, Returned
<1>2. \A v \in Worker \ {w} : at'[v] = at[v] /\ query'[v] = query[v]
  BY <1>1 DEF Judge
<1>3. at'[w] = "pick"
  BY <1>1 DEF Judge
<1>4. stats' = AddFailure(st, kind) \/ stats' = st
  BY Zenon DEF Judge
<1>5. stats.byKind[kind].count > 0
  BY DEF KindsCounted
<1> HIDE DEF kind
<1>6. \A k \in Kind : /\ stats'.byKind[k].count = stats.byKind[k].count
                      /\ k # kind => stats'.byKind[k].failures = stats.byKind[k].failures
  BY <1>1, <1>4, AddFailureIs
<1>7. \A k \in Kind : stats'.byKind[k].count = 0 => stats'.byKind[k].failures = 0
  BY <1>5, <1>6 DEF KindsCounted
<1>8. ASSUME NEW v \in Worker, at'[v] \in {"status", "store"} PROVE stats'.byKind[query'[v].kind].count > 0
  <2>1. /\ query'[v] = query[v] /\ at[v] \in {"status", "store"} /\ query[v].kind \in Kind
        /\ stats.byKind[query[v].kind].count > 0
    BY <1>2, <1>3, <1>8 DEF StressTypeOK, Returned, KindsCounted
  <2> QED BY <1>6, <2>1
<1> QED BY <1>7, <1>8 DEF KindsCounted

LEMMA StressKeepsCounts ==
  ASSUME StressInv, KindsCounted, StressNext
  PROVE  KindsCounted'
<1>1. StressTypeOK /\ stats \in Stats /\ DOMAIN query = Worker /\ DOMAIN at = Worker
  BY DEF StressInv, StressTypeOK
<1>2. CASE EndWarmup
  BY <1>2, StartRunCounts DEF EndWarmup
<1>3. CASE Report \/ Expire
  <2>1. stats' = stats /\ at' = at /\ query' = query
    BY <1>3 DEF Report, Expire
  <2> QED BY <2>1 DEF KindsCounted
<1>4. ASSUME NEW w \in Worker, Pick(w) \/ Leave(w) PROVE KindsCounted'
  <2>1. /\ stats' = stats /\ \A v \in Worker \ {w} : at'[v] = at[v] /\ query'[v] = query[v]
        /\ at'[w] \in {"wait", "done"}
    BY <1>1, <1>4 DEF Pick, Leave
  <2> QED BY <1>1, <2>1, SameKinds
<1>5. ASSUME NEW w \in Worker, NEW q \in Returned, Return(w, q) PROVE KindsCounted'
  <2>1. CASE Tally(w, q, stats)
    BY <2>1, TallyCounts
  <2>2. CASE at' = [at EXCEPT ![w] = "bucket"] /\ query' = [query EXCEPT ![w] = q] /\ UNCHANGED stats
    <3>1. /\ stats' = stats /\ \A v \in Worker \ {w} : at'[v] = at[v] /\ query'[v] = query[v]
          /\ at'[w] = "bucket"
      BY <1>1, <2>2
    <3> QED BY <1>1, <3>1, SameKinds
  <2> QED BY <1>5, <2>1, <2>2, Zenon DEF Return
<1>6. ASSUME NEW w \in Worker, Answer(w) \/ Misanswer(w) \/ TimeOut(w) PROVE KindsCounted'
  <2>1. query[w] \in Query
    <3>1. at[w] = "wait"
      BY <1>6, Zenon DEF Answer, Misanswer, TimeOut
    <3> QED BY <1>1, <3>1, Zenon DEF StressTypeOK
  <2>2. /\ query[w].kind \in Kind /\ query[w].want \in Code /\ query[w].status \in Code
    BY <2>1 DEF Query
  <2>3. ASSUME NEW outcome \in {"right", "wrong", "none"}, NEW status \in Code \cup {0}, NEW hit \in BOOLEAN
        PROVE  Response(w, outcome, status, hit) \in Returned
    BY <2>2, Zenon DEF Response, Returned
  <2>4. \E q \in Returned : Return(w, q)
    <3>1. CASE Answer(w)
      <4>1. PICK hit \in BOOLEAN : Return(w, Response(w, "right", query[w].status, hit))
        BY <3>1 DEF Answer
      <4>2. query[w].status \in Code \cup {0}
        BY <2>2
      <4>3. Response(w, "right", query[w].status, hit) \in Returned
        BY <2>3, <4>2, Zenon
      <4> QED BY <4>1, <4>3, Zenon
    <3>2. CASE Misanswer(w)
      <4>1. PICK status \in {query[w].status, 500} : Return(w, Response(w, "wrong", status, FALSE))
        BY <3>2, Zenon DEF Misanswer
      <4>2. status \in Code \cup {0}
        BY <2>2, <4>1 DEF Code
      <4> QED BY <2>3, <4>1, <4>2, Zenon
    <3>3. CASE TimeOut(w)
      BY <2>3, <3>3, Zenon DEF TimeOut
    <3> QED BY <1>6, <3>1, <3>2, <3>3
  <2> QED BY <1>5, <2>4
<1>7. ASSUME NEW w \in Worker, MakeBucket(w) PROVE KindsCounted'
  <2>1. query[w] \in Returned
    BY <1>1, <1>7 DEF MakeBucket, StressTypeOK
  <2> QED BY <1>7, <2>1, TallyCounts DEF MakeBucket
<1>8. ASSUME NEW w \in Worker, CountStatus(w) PROVE KindsCounted'
  <2> DEFINE st == [stats EXCEPT !.byStatus[query[w].status] = @ + 1]
  <2>1. st.byKind = stats.byKind /\ at[w] = "status"
    BY <1>1, <1>8 DEF CountStatus, Stats
  <2>2. st \in Stats
    BY <1>1 DEF Stats
  <2>3. CASE Judge(w, st)
    <3> HIDE DEF st
    <3> QED BY <1>1, <2>1, <2>2, <2>3, JudgeCounts
  <2>4. CASE at' = [at EXCEPT ![w] = "store"] /\ UNCHANGED <<stats, query>>
    <3>1. stats' = stats /\ query' = query /\ \A v \in Worker \ {w} : at'[v] = at[v]
      BY <1>1, <2>4
    <3> QED BY <1>1, <2>1, <3>1, SameKinds
  <2> QED BY <1>8, <2>3, <2>4 DEF CountStatus
<1>9. ASSUME NEW w \in Worker, StoreStatus(w) PROVE KindsCounted'
  <2> DEFINE st == [stats EXCEPT !.byStatus[query[w].status] = IF @ = 0 THEN 1 ELSE @]
  <2>1. st.byKind = stats.byKind /\ at[w] = "store"
    BY <1>1, <1>9 DEF StoreStatus, Stats
  <2>2. st \in Stats
    BY <1>1 DEF Stats
  <2>3. Judge(w, st)
    BY <1>9 DEF StoreStatus
  <2> HIDE DEF st
  <2> QED BY <1>1, <2>1, <2>2, <2>3, JudgeCounts
<1> QED BY <1>2, <1>3, <1>4, <1>6, <1>7, <1>8, <1>9, Zenon DEF StressNext, WorkerStep

\* The latencies are drawn as the report is made.
LEMMA StressKeepsLatency ==
  ASSUME StressInv, LatencyInv, StressNext
  PROVE  LatencyInv'
<1>1. CASE Report
  <2>1. stats.overall.count \in Nat /\ \A k \in Kind : stats.byKind[k].count \in Nat
    BY DEF StressInv, StressTypeOK, Stats, Bucket
  <2>2. lat' \in Drawn(stats)
    BY <1>1, Zenon DEF Report
  <2> DEFINE of == [k \in Kind |-> Latencies[stats.byKind[k].count]]
  <2>3. /\ lat' \in [overall : Latencies[stats.overall.count], byKind : [Kind -> UNION Range(of)]]
        /\ \A k \in Kind : lat'.byKind[k] \in of[k]
    BY <2>2 DEF Drawn
  <2>4. \A k \in Kind : of[k] = Latencies[stats.byKind[k].count]
    OBVIOUS
  <2> DEFINE U == UNION Range(of)
  <2> HIDE DEF of, U
  <2>5. /\ lat' = [overall |-> lat'.overall, byKind |-> lat'.byKind]
        /\ lat'.overall \in Latencies[stats.overall.count] /\ lat'.byKind \in [Kind -> U]
    BY <2>3, Zenon DEF U
  <2>6. lat'.overall \in LatencyType /\ \A k \in Kind : lat'.byKind[k] \in LatencyType
    BY <2>1, <2>3, <2>4, <2>5, LatenciesType
  <2>7. lat'.byKind \in [Kind -> LatencyType]
    BY <2>5, <2>6
  <2>8. lat' \in AllLatencies
    BY <2>5, <2>6, <2>7, Zenon DEF AllLatencies
  <2> QED BY <2>8, Zenon DEF LatencyInv, AllLatencies, LatencyType
<1>2. CASE EndWarmup
  BY <1>2, Zenon DEF EndWarmup, StartRun, LatencyInv, Reported
<1>3. ASSUME phase' = phase, lat' = lat PROVE LatencyInv'
  BY <1>3, Zenon DEF LatencyInv, Reported, AllLatencies, LatencyType
<1>4. CASE Expire
  BY <1>3, <1>4, Zenon DEF Expire
<1>5. ASSUME NEW w \in Worker, WorkerStep(w) \/ Answer(w) \/ Misanswer(w) \/ TimeOut(w) PROVE LatencyInv'
  <2>1. phase' = phase /\ lat' = lat
    BY <1>5, Zenon DEF WorkerStep, Pick, Leave, MakeBucket, CountStatus, StoreStatus, Answer, Misanswer, TimeOut, Return
  <2> QED BY <1>3, <2>1
<1> QED BY <1>1, <1>2, <1>4, <1>5 DEF StressNext

\* Without a step of gordap-stress its counts and latencies stay.
LEMMA SameReport ==
  ASSUME LatencyInv, KindsCounted, UNCHANGED stressVars
  PROVE  LatencyInv' /\ KindsCounted'
<1>1. phase' = phase /\ lat' = lat /\ at' = at /\ query' = query /\ stats' = stats
  BY Zenon DEF stressVars
<1>2. LatencyInv'
  BY <1>1, Zenon DEF LatencyInv, Reported, AllLatencies, LatencyType
<1>3. KindsCounted'
  BY <1>1, Zenon DEF KindsCounted
<1> QED BY <1>2, <1>3

\* What the aggregator printed stays.
LEMMA SameRollUp == ASSUME RollUpInv, UNCHANGED combined PROVE RollUpInv'
<1> QED BY Zenon DEF RollUpInv, Reports, Aggregate, WellFormed

\* The inductive invariant holds throughout a load test.
THEOREM LoadTestInvariant == Spec => []LoadTestInv
<1> DEFINE Inv == SeedInv /\ StressInv /\ KindsCounted /\ LatencyInv /\ RollUpInv
<1>1. Init => Inv
  <2> SUFFICES ASSUME Init PROVE Inv
    BY Zenon
  <2>1. SeedInv /\ StressInv /\ LatencyInv /\ RollUpInv
    BY SeedInitInv, StressInitInv, Zenon DEF Init, StressInit, LatencyInv, Reported, RollUpInv
  <2>2. KindsCounted
    BY DEF Init, StressInit, KindsCounted, NewStats, NewBucket
  <2> QED BY <2>1, <2>2
<1>2. Inv /\ [Next]_vars => Inv'
  <2> SUFFICES ASSUME SeedInv, StressInv, KindsCounted, LatencyInv, RollUpInv, [Next]_vars PROVE Inv'
    BY Zenon
  <2>1. CASE phase = "idle" /\ SeedNext /\ UNCHANGED <<stressVars, combined>>
    <3>1. SeedInv' /\ StressInv' /\ RollUpInv'
      BY <2>1, SeedNextKeeps, SameStress, SameRollUp
    <3>2. LatencyInv' /\ KindsCounted'
      BY <2>1, SameReport
    <3> QED BY <3>1, <3>2
  <2>2. CASE Begin
    <3>1. SeedInv' /\ StressInv'
      BY <2>2, BeginKeeps
    <3>2. LatencyInv'
      BY <2>2, Zenon DEF Begin, StartWarmup, StartAtOnce, StartRun, LatencyInv, Reported
    <3>3. RollUpInv'
      <4>1. UNCHANGED combined
        BY <2>2, Zenon DEF Begin
      <4> QED BY <4>1, SameRollUp
    <3>4. KindsCounted'
      BY <2>2, StartRunCounts DEF Begin, StartWarmup, StartAtOnce
    <3> QED BY <3>1, <3>2, <3>3, <3>4
  <2>3. CASE StressNext /\ UNCHANGED <<seedVars, combined>>
    <3>1. SeedTypeOK /\ SeedsWhole
      BY SeedInvMeans, Zenon DEF SeedInv
    <3> QED BY <2>3, <3>1, StressNextKeeps, SameSeed, StressKeepsCounts, StressKeepsLatency, SameRollUp
  <2>4. ASSUME NEW rs \in Others, RollUp(rs) PROVE Inv'
    <3>1. UNCHANGED seedVars /\ UNCHANGED stressVars /\ Reported
      BY <2>4 DEF RollUp
    <3>2. seeder' = seeder
      BY <3>1 DEF seedVars
    <3>3. SeedInv' /\ StressInv'
      BY <3>1, <3>2, SameSeed, SameStress
    <3>4. LatencyInv' /\ KindsCounted'
      BY <3>1, SameReport
    <3> DEFINE reports == <<EmitJSON(stats, lat)>> \o rs
    <3>5. Reports(reports)
      BY <3>1, RollUpKeeps, Zenon DEF LatencyInv
    <3>6. combined' = [reports |-> reports, result |-> Aggregate(reports)]
      BY <2>4 DEF RollUp
    <3> HIDE DEF reports
    <3>7. combined'.reports = reports /\ combined'.result = Aggregate(reports)
      BY <3>6
    <3>8. RollUpInv'
      BY <3>5, <3>7, Zenon DEF RollUpInv, Reports, Aggregate
    <3> QED BY <3>3, <3>4, <3>8
  <2>5. CASE UNCHANGED vars
    <3>1. UNCHANGED seedVars /\ UNCHANGED stressVars /\ UNCHANGED combined
      BY <2>5 DEF vars
    <3>2. seeder' = seeder
      BY <3>1 DEF seedVars
    <3>3. LatencyInv' /\ KindsCounted'
      BY <3>1, SameReport
    <3> QED BY <3>1, <3>2, <3>3, SameSeed, SameStress, SameRollUp
  <2> QED BY <2>1, <2>2, <2>3, <2>4, <2>5 DEF Next
<1>3. Inv => LoadTestInv
  BY LoadTestInvIs
<1> HIDE DEF Inv
<1> QED BY <1>1, <1>2, <1>3, PTL DEF Spec

\* When gordap-seed reports the corpus, it is whole, whatever was there and however
\* often it was interrupted or rejected before.
THEOREM SeedingIsWhole == Spec => []SeedsWhole
<1>1. LoadTestInv => SeedsWhole
  BY SeedInvMeans, Zenon DEF LoadTestInv
<1> QED BY <1>1, LoadTestInvariant, PTL

\* Seeding again without truncating changes nothing.
THEOREM PlainRerunsChangeNothing == Spec => []PlainRerunChangesNothing
<1>1. LoadTestInv => PlainRerunChangesNothing
  BY SeedInvMeans DEF LoadTestInv
<1> QED BY <1>1, LoadTestInvariant, PTL

\* The report of gordap-stress adds up, though all workers count at once.
THEOREM ReportsAddUp == Spec => []ReportAddsUp
<1>1. LoadTestInv => ReportAddsUp
  BY StressInvMeans DEF LoadTestInv
<1> QED BY <1>1, LoadTestInvariant, PTL

\* It reports exactly the failures that were the server's.
THEOREM FailuresAreTheServers == Spec => []NoFalseAlarms
<1>1. LoadTestInv => NoFalseAlarms
  BY StressInvMeans DEF LoadTestInv
<1> QED BY <1>1, LoadTestInvariant, PTL

\* recordStatus loses less than one count of a code per worker.
THEOREM StatusLossIsBounded == Spec => []StatusLossBounded
<1>1. LoadTestInv => StatusLossBounded
  BY StressInvMeans, Zenon DEF LoadTestInv
<1> QED BY <1>1, LoadTestInvariant, PTL

\* The aggregator's roll-up is faithful to any number of well-formed reports.
THEOREM RollUpsAreFaithful == Spec => []RollUpFaithful
<1> QED BY LoadTestInvMeans, LoadTestInvariant, PTL
=============================================================================
