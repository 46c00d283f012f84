---------------------------- MODULE StressProofs ---------------------------
(***************************************************************************)
(* The seeder and the load generator, step by step, for every size of the  *)
(* corpus and every number of workers: SeedInv and StressInv are kept.     *)
(*                                                                         *)
(* SumFunctionOnSet is a fold that chooses the order of the elements; the  *)
(* lemmas about sums show that the order does not matter.  What the        *)
(* counters need of them comes first, what the roll-up needs comes last.   *)
(***************************************************************************)
EXTENDS Stress, FiniteSetTheorems, WellFoundedInduction, TLAPS

\* A leaf that names no prover is tried with SMT, if need be again with more time.
USE SMT, SMTT(30)

\* The length and the elements of a concatenation.
LEMMA Concatenation ==
  ASSUME NEW S, NEW s \in Seq(S), NEW t \in Seq(S)
  PROVE  /\ s \o t \in Seq(S) /\ Len(s \o t) = Len(s) + Len(t)
         /\ \A i \in 1..(Len(s) + Len(t)) : (s \o t)[i] = IF i <= Len(s) THEN s[i] ELSE t[i - Len(s)]
OBVIOUS

\* Concatenation is associative.
LEMMA Associates ==
  ASSUME NEW S, NEW s \in Seq(S), NEW t \in Seq(S), NEW u \in Seq(S)
  PROVE  (s \o t) \o u = s \o (t \o u)
OBVIOUS

(***************************************************************************)
(* Sums over finite sets.                                                  *)
(***************************************************************************)

\* A set of numbers has a least one.
LEMMA LeastNumber ==
  ASSUME NEW T \in SUBSET Nat, T # {}
  PROVE  \E x \in T : \A y \in T : x <= y
<1> DEFINE R == OpToRel(<, Nat)
<1>1. IsWellFoundedOn(R, Nat)
  BY NatLessThanWellFounded, Zenon
<1>2. \A x, y \in Nat : x < y => <<x, y>> \in R
  BY Zenon DEF OpToRel
<1> HIDE DEF R
<1>3. \E x \in T : \A y \in T : ~(<<y, x>> \in R)
  BY <1>1, WFMin, Zenon
<1>4. PICK x \in T : \A y \in T : ~(<<y, x>> \in R)
  BY <1>3, Zenon
<1>5. ASSUME NEW y \in T PROVE x <= y
  <2>1. x \in Nat /\ y \in Nat
    BY Zenon
  <2>2. ~(y < x)
    BY <1>2, <1>4, <2>1, Zenon
  <2> QED BY <2>1, <2>2
<1> QED BY <1>5, Zenon

\* A finite set without one of its elements.
LEMMA OneLess ==
  ASSUME NEW s, IsFiniteSet(s), NEW x \in s
  PROVE  /\ IsFiniteSet(s \ {x}) /\ Cardinality(s) \in Nat /\ Cardinality(s) > 0
         /\ Cardinality(s \ {x}) = Cardinality(s) - 1
<1>1. IsFiniteSet(s \ {x}) /\ Cardinality(s \ {x}) = Cardinality(s) - 1
  BY FS_RemoveElement, Zenon
<1>2. Cardinality(s) \in Nat /\ Cardinality(s \ {x}) \in Nat
  BY <1>1, FS_CardinalityType, Zenon
<1> QED BY <1>1, <1>2

\* Induction over the subsets of a finite set: C is the set of those that are as claimed.
LEMMA SubsetInduction ==
  ASSUME NEW U, IsFiniteSet(U), NEW C, {} \in C,
         \A s \in SUBSET U : s # {} /\ (\A x \in s : s \ {x} \in C) => s \in C
  PROVE  \A s \in SUBSET U : s \in C
<1> SUFFICES ASSUME NEW b \in SUBSET U, b \notin C PROVE FALSE
  BY Zenon
<1> DEFINE T == {n \in Nat : \E s \in SUBSET U : s \notin C /\ Cardinality(s) = n}
<1>0. \A s \in SUBSET U : IsFiniteSet(s) /\ Cardinality(s) \in Nat
  BY FS_Subset, FS_CardinalityType, Zenon
<1>1. T # {} /\ T \in SUBSET Nat
  BY <1>0, Zenon
<1>2. PICK n \in T : \A m \in T : n <= m
  <2> HIDE DEF T
  <2> QED BY <1>1, LeastNumber, Zenon
<1>3. PICK s \in SUBSET U : s \notin C /\ Cardinality(s) = n
  BY Zenon
<1>4. s # {}
  BY <1>3, Zenon
<1>5. ASSUME NEW x \in s PROVE s \ {x} \in C
  <2>1. Cardinality(s) \in Nat /\ Cardinality(s \ {x}) = Cardinality(s) - 1 /\ Cardinality(s) > 0
    BY <1>0, OneLess, Zenon
  <2>2. s \ {x} \in SUBSET U
    BY Zenon
  <2>3. ASSUME s \ {x} \notin C PROVE FALSE
    <3>1. Cardinality(s \ {x}) \in T
      <4>1. Cardinality(s \ {x}) \in Nat
        BY <1>0, <2>2, Zenon
      <4> QED BY <2>2, <2>3, <4>1, Zenon
    <3>2. n <= Cardinality(s \ {x})
      <4> HIDE DEF T
      <4> QED BY <1>2, <3>1, Zenon
    <3> QED BY <1>3, <2>1, <3>2
  <2> QED BY <2>3, Zenon
<1> QED BY <1>3, <1>4, <1>5, Zenon

----------------------------------------------------------------------------

\* The sum that SumFunctionOnSet chooses: the table of the sums of all subsets of S.
First(s) == CHOOSE x \in s : TRUE
IsSum(g, f, S) ==
  g = [s \in SUBSET S |-> IF s = {} THEN 0 ELSE f[First(s)] + g[s \ {First(s)}]]

\* What SumFunctionOnSet is by its definition.
LEMMA SumIsChosen ==
  ASSUME NEW f, NEW S
  PROVE  SumFunctionOnSet(f, S) = (CHOOSE g : IsSum(g, f, S))[S]
BY Zenon DEF SumFunctionOnSet, FoldFunctionOnSet, MapThenFoldSet, IsSum, First

\* There is such a table for a finite set, made by the size of the subsets.
LEMMA SumExists ==
  ASSUME NEW f, NEW S, IsFiniteSet(S)
  PROVE  \E g : IsSum(g, f, S)
<1> DEFINE D(n) == {s \in SUBSET S : Cardinality(s) <= n}
           Upto(g, n) == /\ DOMAIN g = D(n)
                         /\ \A s \in D(n) : g[s] = IF s = {} THEN 0 ELSE f[First(s)] + g[s \ {First(s)}]
           T == {n \in Nat : ~\E g : Upto(g, n)}
<1>0. \A s \in SUBSET S : IsFiniteSet(s) /\ Cardinality(s) \in Nat
  BY FS_Subset, FS_CardinalityType, Zenon
<1>1. \A s \in SUBSET S : s # {} =>
        /\ First(s) \in s /\ s \ {First(s)} \in SUBSET S
        /\ Cardinality(s \ {First(s)}) = Cardinality(s) - 1
  <2> SUFFICES ASSUME NEW s \in SUBSET S, s # {}
               PROVE  /\ First(s) \in s /\ s \ {First(s)} \in SUBSET S
                      /\ Cardinality(s \ {First(s)}) = Cardinality(s) - 1
    BY Zenon
  <2>1. First(s) \in s
    BY Zenon DEF First
  <2>2. IsFiniteSet(s)
    BY <1>0, Zenon
  <2> QED BY <2>1, <2>2, OneLess, Zenon
<1>2. T = {}
  <2> SUFFICES ASSUME T # {} PROVE FALSE
    BY Zenon
  <2>1. PICK n \in T : \A m \in T : n <= m
    <3>1. T \in SUBSET Nat
      BY Zenon
    <3> HIDE DEF T
    <3> QED BY <3>1, LeastNumber, Zenon
  <2>2. n \in Nat /\ ~\E g : Upto(g, n)
    BY Zenon
  <2>3. n # 0
    <3> SUFFICES ASSUME n = 0 PROVE \E g : Upto(g, n)
      BY <2>2, Zenon
    <3> DEFINE g == [s \in D(0) |-> 0]
    <3>1. \A s \in D(0) : s = {}
      <4> SUFFICES ASSUME NEW s \in D(0), s # {} PROVE FALSE
        BY Zenon
      <4>1. s \in SUBSET S /\ Cardinality(s) <= 0
        BY Zenon
      <4>2. IsFiniteSet(s) /\ Cardinality(s) \in Nat
        BY <1>0, <4>1, Zenon
      <4>3. PICK x : x \in s
        BY Zenon
      <4>4. Cardinality(s) > 0
        BY <4>2, <4>3, OneLess, Zenon
      <4> QED BY <4>1, <4>2, <4>4
    <3> HIDE DEF D
    <3>2. Upto(g, 0)
      BY <3>1, Zenon
    <3> QED BY <3>2, Zenon
  <2>4. n - 1 \in Nat /\ n - 1 \notin T
    <3>1. n - 1 \in Nat
      BY <2>2, <2>3
    <3>2. ~(n <= n - 1)
      BY <2>2
    <3> HIDE DEF T
    <3> QED BY <2>1, <3>1, <3>2, Zenon
  <2>5. PICK h : Upto(h, n - 1)
    BY <2>4, Zenon
  <2> DEFINE g == [s \in D(n) |-> IF s = {} THEN 0 ELSE f[First(s)] + h[s \ {First(s)}]]
  <2>6. \A s \in D(n - 1) : s \in D(n)
    BY <1>0, <2>2
  <2>7. \A s \in D(n) : s # {} => s \ {First(s)} \in D(n - 1)
    <3> SUFFICES ASSUME NEW s \in D(n), s # {} PROVE s \ {First(s)} \in D(n - 1)
      BY Zenon
    <3>1. s \in SUBSET S /\ Cardinality(s) \in Nat /\ Cardinality(s) <= n
      BY <1>0, Zenon
    <3>2. s \ {First(s)} \in SUBSET S /\ Cardinality(s \ {First(s)}) = Cardinality(s) - 1
      BY <1>1, <3>1, Zenon
    <3>3. Cardinality(s \ {First(s)}) <= n - 1
      BY <2>2, <3>1, <3>2
    <3> QED BY <3>2, <3>3, Zenon
  <2> HIDE DEF D
  <2>8. \A s \in D(n - 1) : g[s] = h[s]
    BY <2>5, <2>6, Zenon
  <2>9. Upto(g, n)
    BY <2>7, <2>8, Zenon
  <2> QED BY <2>2, <2>9, Zenon
<1>3. PICK g : Upto(g, Cardinality(S))
  <2>1. Cardinality(S) \in Nat
    BY <1>0, Zenon
  <2> QED BY <1>2, <2>1, Zenon
<1>4. D(Cardinality(S)) = SUBSET S
  <2>1. \A s \in SUBSET S : Cardinality(s) <= Cardinality(S)
    BY FS_Subset, Zenon
  <2> QED BY <2>1, Zenon
<1> HIDE DEF D
<1>5. DOMAIN g = SUBSET S /\ \A s \in SUBSET S : g[s] = IF s = {} THEN 0 ELSE f[First(s)] + g[s \ {First(s)}]
  BY <1>3, <1>4, Zenon
<1> DEFINE h == [s \in SUBSET S |-> g[s]]
<1>6. \A s \in SUBSET S : h[s] = IF s = {} THEN 0 ELSE f[First(s)] + h[s \ {First(s)}]
  BY <1>1, <1>5, Zenon
<1>7. h = [s \in SUBSET S |-> h[s]]
  BY Zenon
<1> HIDE DEF h
<1>8. IsSum(h, f, S)
  BY <1>6, <1>7, Zenon DEF IsSum
<1> QED BY <1>8, Zenon

\* The tables of two sets agree on the subsets of both.
LEMMA TablesAgree ==
  ASSUME NEW f, NEW S, NEW U, IsFiniteSet(U), U \subseteq S,
         NEW g, IsSum(g, f, S), NEW h, IsSum(h, f, U)
  PROVE  g[U] = h[U]
<1> DEFINE C == {s \in SUBSET U : g[s] = h[s]}
<1>1. \A s \in SUBSET U : g[s] = (IF s = {} THEN 0 ELSE f[First(s)] + g[s \ {First(s)}])
  BY Zenon DEF IsSum
<1>2. \A s \in SUBSET U : h[s] = (IF s = {} THEN 0 ELSE f[First(s)] + h[s \ {First(s)}])
  BY Zenon DEF IsSum
<1>3. {} \in C
  BY <1>1, <1>2, Zenon
<1>4. ASSUME NEW s \in SUBSET U, s # {}, \A x \in s : s \ {x} \in C PROVE s \in C
  <2>1. First(s) \in s
    BY <1>4, Zenon DEF First
  <2>2. g[s] = f[First(s)] + g[s \ {First(s)}] /\ h[s] = f[First(s)] + h[s \ {First(s)}]
    BY <1>1, <1>2, <1>4, Zenon
  <2>3. g[s \ {First(s)}] = h[s \ {First(s)}]
    BY <1>4, <2>1, Zenon
  <2> QED BY <2>2, <2>3, Zenon
<1>5. \A s \in SUBSET U : s \in C
  <2> HIDE DEF C
  <2> QED BY <1>3, <1>4, SubsetInduction, Zenon
<1> QED BY <1>5, Zenon

\* The sum over no elements, and over a set with a first one.
LEMMA SumFirst ==
  ASSUME NEW f, NEW S, IsFiniteSet(S)
  PROVE  /\ S = {} => SumFunctionOnSet(f, S) = 0
         /\ S # {} => SumFunctionOnSet(f, S) = f[First(S)] + SumFunctionOnSet(f, S \ {First(S)})
<1> DEFINE g == CHOOSE g : IsSum(g, f, S)
           R == S \ {First(S)}
           h == CHOOSE h : IsSum(h, f, R)
<1>0. IsFiniteSet(R) /\ R \in SUBSET S
  BY FS_Subset, Zenon
<1>1. IsSum(g, f, S) /\ SumFunctionOnSet(f, S) = g[S]
  BY SumExists, SumIsChosen, Zenon
<1>2. IsSum(h, f, R) /\ SumFunctionOnSet(f, R) = h[R]
  BY <1>0, SumExists, SumIsChosen, Zenon
<1> HIDE DEF g, h
<1>3. g[R] = h[R]
  BY <1>0, <1>1, <1>2, TablesAgree
<1>4. g[S] = IF S = {} THEN 0 ELSE f[First(S)] + g[R]
  BY <1>1, Zenon DEF IsSum
<1> QED BY <1>1, <1>2, <1>3, <1>4, Zenon

\* The empty sum.
LEMMA SumNone == ASSUME NEW f PROVE SumFunctionOnSet(f, {}) = 0
<1>1. IsFiniteSet({})
  BY FS_EmptySet, Zenon
<1> DEFINE e == {}
<1>2. e = {} /\ IsFiniteSet(e)
  BY <1>1, Zenon
<1> HIDE DEF e
<1>3. SumFunctionOnSet(f, e) = 0
  BY <1>2, SumFirst, Zenon
<1> QED BY <1>2, <1>3, Zenon

\* Functions that agree on a set have the same sum over it.
LEMMA SumAgree ==
  ASSUME NEW f, NEW h, NEW S, IsFiniteSet(S), \A x \in S : f[x] = h[x]
  PROVE  SumFunctionOnSet(f, S) = SumFunctionOnSet(h, S)
<1> DEFINE C == {s \in SUBSET S : SumFunctionOnSet(f, s) = SumFunctionOnSet(h, s)}
<1>0. \A s \in SUBSET S : IsFiniteSet(s)
  BY FS_Subset, Zenon
<1>1. {} \in C
  <2>1. SumFunctionOnSet(f, {}) = 0 /\ SumFunctionOnSet(h, {}) = 0
    BY SumNone, Zenon
  <2> QED BY <2>1, Zenon
<1>2. ASSUME NEW s \in SUBSET S, s # {}, \A x \in s : s \ {x} \in C PROVE s \in C
  <2>1. First(s) \in s
    BY <1>2, Zenon DEF First
  <2>2. /\ SumFunctionOnSet(f, s) = f[First(s)] + SumFunctionOnSet(f, s \ {First(s)})
        /\ SumFunctionOnSet(h, s) = h[First(s)] + SumFunctionOnSet(h, s \ {First(s)})
    BY <1>0, <1>2, SumFirst, Zenon
  <2>3. SumFunctionOnSet(f, s \ {First(s)}) = SumFunctionOnSet(h, s \ {First(s)}) /\ f[First(s)] = h[First(s)]
    BY <1>2, <2>1, Zenon
  <2> QED BY <2>2, <2>3, Zenon
<1>3. \A s \in SUBSET S : s \in C
  <2> HIDE DEF C
  <2> QED BY <1>1, <1>2, SubsetInduction, Zenon
<1> QED BY <1>3, Zenon

\* Sums of integers are integers.
LEMMA SumType ==
  ASSUME NEW f, NEW S, IsFiniteSet(S), \A x \in S : f[x] \in Int
  PROVE  SumFunctionOnSet(f, S) \in Int
<1> DEFINE C == {s \in SUBSET S : SumFunctionOnSet(f, s) \in Int}
<1>0. \A s \in SUBSET S : IsFiniteSet(s)
  BY FS_Subset, Zenon
<1>1. {} \in C
  <2>1. SumFunctionOnSet(f, {}) = 0
    BY SumNone, Zenon
  <2> QED BY <2>1
<1>2. ASSUME NEW s \in SUBSET S, s # {}, \A x \in s : s \ {x} \in C PROVE s \in C
  <2>1. First(s) \in s
    BY <1>2, Zenon DEF First
  <2>2. SumFunctionOnSet(f, s) = f[First(s)] + SumFunctionOnSet(f, s \ {First(s)})
    BY <1>0, <1>2, SumFirst, Zenon
  <2>3. SumFunctionOnSet(f, s \ {First(s)}) \in Int /\ f[First(s)] \in Int
    BY <1>2, <2>1, Zenon
  <2> QED BY <2>2, <2>3
<1>3. \A s \in SUBSET S : s \in C
  <2> HIDE DEF C
  <2> QED BY <1>1, <1>2, SubsetInduction, Zenon
<1> QED BY <1>3, Zenon

\* Any element can be taken out of a sum.
LEMMA SumTake ==
  ASSUME NEW f, NEW S, IsFiniteSet(S), \A x \in S : f[x] \in Int, NEW x \in S
  PROVE  SumFunctionOnSet(f, S) = f[x] + SumFunctionOnSet(f, S \ {x})
<1> DEFINE Sum(s) == SumFunctionOnSet(f, s)
           C == {s \in SUBSET S : \A y \in s : Sum(s) = f[y] + Sum(s \ {y})}
<1>0. \A s \in SUBSET S : IsFiniteSet(s) /\ Sum(s) \in Int
  BY FS_Subset, SumType, Zenon
<1>1. {} \in C
  BY Zenon
<1>2. ASSUME NEW s \in SUBSET S, s # {}, \A y \in s : s \ {y} \in C PROVE s \in C
  <2> SUFFICES ASSUME NEW y \in s PROVE Sum(s) = f[y] + Sum(s \ {y})
    BY Zenon
  <2> DEFINE p == First(s)
  <2>1. p \in s
    BY Zenon DEF First
  <2>2. Sum(s) = f[p] + Sum(s \ {p})
    BY <1>0, <1>2, SumFirst, Zenon
  <2> HIDE DEF p
  <2>3. CASE y = p
    BY <2>2, <2>3, Zenon
  <2>4. CASE y # p
    <3>1. Sum(s \ {p}) = f[y] + Sum((s \ {p}) \ {y})
      BY <1>2, <2>1, <2>4, Zenon
    <3>2. Sum(s \ {y}) = f[p] + Sum((s \ {y}) \ {p})
      BY <1>2, <2>1, <2>4, Zenon
    <3>3. (s \ {p}) \ {y} = (s \ {y}) \ {p}
      BY Zenon
    <3>4. Sum((s \ {p}) \ {y}) \in Int /\ f[p] \in Int /\ f[y] \in Int
      BY <1>0, <2>1
    <3> DEFINE a == Sum(s)
               b == Sum(s \ {p})
               c == Sum(s \ {y})
               d == Sum((s \ {p}) \ {y})
    <3>5. a = f[p] + b /\ b = f[y] + d /\ c = f[p] + d /\ d \in Int /\ f[p] \in Int /\ f[y] \in Int
      BY <2>2, <3>1, <3>2, <3>3, <3>4, Zenon
    <3>6. a = f[y] + c
      <4> HIDE DEF a, b, c, d
      <4> QED BY <3>5
    <3> QED BY <3>6, Zenon
  <2> QED BY <2>3, <2>4, Zenon
<1>3. \A s \in SUBSET S : s \in C
  <2> HIDE DEF C
  <2> QED BY <1>1, <1>2, SubsetInduction, Zenon
<1> QED BY <1>3, Zenon

\* A sum changes by what one of its terms changes.
LEMMA SumChange ==
  ASSUME NEW f, NEW h, NEW S, IsFiniteSet(S), \A y \in S : f[y] \in Int, NEW x \in S, h[x] \in Int,
         \A y \in S \ {x} : h[y] = f[y]
  PROVE  SumFunctionOnSet(h, S) = SumFunctionOnSet(f, S) + (h[x] - f[x])
<1>1. SumFunctionOnSet(f, S) = f[x] + SumFunctionOnSet(f, S \ {x})
  BY SumTake
<1>2. \A y \in S : h[y] \in Int
  BY Zenon
<1>3. SumFunctionOnSet(h, S) = h[x] + SumFunctionOnSet(h, S \ {x})
  BY <1>2, SumTake
<1>4. IsFiniteSet(S \ {x})
  BY FS_Subset, Zenon
<1>5. SumFunctionOnSet(h, S \ {x}) = SumFunctionOnSet(f, S \ {x})
  BY <1>4, SumAgree, Zenon
<1>6. SumFunctionOnSet(f, S \ {x}) \in Int
  BY <1>4, SumType, Zenon
<1> QED BY <1>1, <1>3, <1>5, <1>6

\* A sum of zeros.
LEMMA SumZero ==
  ASSUME NEW f, NEW S, IsFiniteSet(S), \A x \in S : f[x] = 0
  PROVE  SumFunctionOnSet(f, S) = 0
<1> DEFINE C == {s \in SUBSET S : SumFunctionOnSet(f, s) = 0}
<1>0. \A s \in SUBSET S : IsFiniteSet(s)
  BY FS_Subset, Zenon
<1>1. {} \in C
  <2>1. SumFunctionOnSet(f, {}) = 0
    BY SumNone, Zenon
  <2> QED BY <2>1, Zenon
<1>2. ASSUME NEW s \in SUBSET S, s # {}, \A x \in s : s \ {x} \in C PROVE s \in C
  <2>1. First(s) \in s
    BY <1>2, Zenon DEF First
  <2>2. SumFunctionOnSet(f, s) = f[First(s)] + SumFunctionOnSet(f, s \ {First(s)})
    BY <1>0, <1>2, SumFirst, Zenon
  <2>3. SumFunctionOnSet(f, s \ {First(s)}) = 0 /\ f[First(s)] = 0
    BY <1>2, <2>1, Zenon
  <2> QED BY <2>2, <2>3
<1>3. \A s \in SUBSET S : s \in C
  <2> HIDE DEF C
  <2> QED BY <1>1, <1>2, SubsetInduction, Zenon
<1> QED BY <1>3, Zenon

----------------------------------------------------------------------------
(***************************************************************************)
(* gordap-stress: StressInv.                                               *)
(***************************************************************************)

\* There are finitely many kinds of query.
LEMMA KindsFinite == IsFiniteSet(Kind)
<1> DEFINE A1 == {} \cup {"domain"}
           A2 == A1 \cup {"domain_missing"}
           A3 == A2 \cup {"entity"}
           A4 == A3 \cup {"entity_invalid"}
           A5 == A4 \cup {"nameserver"}
           A6 == A5 \cup {"search_domains"}
           A7 == A6 \cup {"search_entities"}
           A8 == A7 \cup {"help"}
<1>1. IsFiniteSet(A1)
  BY FS_EmptySet, FS_AddElement, Zenon
<1>2. IsFiniteSet(A2)
  <2> HIDE DEF A1
  <2> QED BY <1>1, FS_AddElement, Zenon
<1>3. IsFiniteSet(A3)
  <2> HIDE DEF A2
  <2> QED BY <1>2, FS_AddElement, Zenon
<1>4. IsFiniteSet(A4)
  <2> HIDE DEF A3
  <2> QED BY <1>3, FS_AddElement, Zenon
<1>5. IsFiniteSet(A5)
  <2> HIDE DEF A4
  <2> QED BY <1>4, FS_AddElement
<1>6. IsFiniteSet(A6)
  <2> HIDE DEF A5
  <2> QED BY <1>5, FS_AddElement, Zenon
<1>7. IsFiniteSet(A7)
  <2> HIDE DEF A6
  <2> QED BY <1>6, FS_AddElement
<1>8. IsFiniteSet(A8)
  <2> HIDE DEF A7
  <2> QED BY <1>7, FS_AddElement, Zenon
<1>9. Kind \in SUBSET A8
  BY StressAssumption DEF AllKinds
<1> HIDE DEF A8
<1> QED BY <1>8, <1>9, FS_Subset, Zenon

\* How many workers there are in a set that one worker may enter or leave.
LEMMA OneMoves ==
  ASSUME NEW A \in SUBSET Worker, NEW B \in SUBSET Worker, NEW w \in Worker,
         \A v \in Worker \ {w} : v \in A <=> v \in B
  PROVE  /\ Cardinality(A \ {w}) \in Nat
         /\ w \in A => Cardinality(A) = Cardinality(A \ {w}) + 1
         /\ w \notin A => Cardinality(A) = Cardinality(A \ {w})
         /\ w \in B => Cardinality(B) = Cardinality(A \ {w}) + 1
         /\ w \notin B => Cardinality(B) = Cardinality(A \ {w})
<1>1. IsFiniteSet(A) /\ IsFiniteSet(B) /\ Cardinality(A) \in Nat /\ Cardinality(B) \in Nat
  BY StressAssumption, FS_Subset, FS_CardinalityType, Zenon
<1>2. Cardinality(A \ {w}) \in Nat
  <2>1. A \ {w} \in SUBSET Worker
    BY Zenon
  <2> QED BY <2>1, StressAssumption, FS_Subset, FS_CardinalityType
<1>3. A \ {w} = B \ {w} /\ (w \notin A => A \ {w} = A) /\ (w \notin B => B \ {w} = B)
  BY Zenon
<1>4. w \in A => Cardinality(A \ {w}) = Cardinality(A) - 1
  BY <1>1, OneLess, Zenon
<1>5. w \in B => Cardinality(B \ {w}) = Cardinality(B) - 1
  BY <1>1, OneLess, Zenon
<1>6. Cardinality(A \ {w}) = Cardinality(B \ {w})
  BY <1>3, Zenon
<1>7. (w \notin A => Cardinality(A \ {w}) = Cardinality(A)) /\ (w \notin B => Cardinality(B \ {w}) = Cardinality(B))
  BY <1>3
<1> QED BY <1>1, <1>2, <1>4, <1>5, <1>6, <1>7

----------------------------------------------------------------------------

\* Counting a request of kind k.
Counted(st, k) == [st EXCEPT !.overall.count = @ + 1, !.byKind[k].count = @ + 1]

\* The counters of a kind that is counted stay those of the overall count.
LEMMA CountedKeeps ==
  ASSUME NEW st \in Stats, Tallied(st), NEW k \in Kind
  PROVE  /\ Counted(st, k) \in Stats /\ Tallied(Counted(st, k))
         /\ Counted(st, k).overall.count = st.overall.count + 1
         /\ Counted(st, k).overall.failures = st.overall.failures
         /\ Counted(st, k).hits = st.hits /\ Counted(st, k).misses = st.misses
         /\ Counted(st, k).transErr = st.transErr /\ Counted(st, k).byStatus = st.byStatus
<1> DEFINE c == Counted(st, k)
           b == [st.byKind[k] EXCEPT !.count = @ + 1]
           X == [st.overall EXCEPT !.count = @ + 1]
           Y == [st.byKind EXCEPT ![k] = b]
<1>1. /\ st.overall \in Bucket /\ st.byKind \in [Kind -> Bucket] /\ st.byStatus \in [Code -> Nat]
      /\ st.hits \in Nat /\ st.misses \in Nat /\ st.transErr \in Nat /\ st.mismatches \in Nat
  BY Zenon DEF Stats
<1>2. X \in Bucket /\ X.count = st.overall.count + 1 /\ X.failures = st.overall.failures
  BY <1>1 DEF Bucket
<1>3. b \in Bucket /\ b.count = st.byKind[k].count + 1 /\ b.failures = st.byKind[k].failures
  BY <1>1 DEF Bucket
<1>4. Y \in [Kind -> Bucket] /\ Y[k] = b /\ \A j \in Kind \ {k} : Y[j] = st.byKind[j]
  <2> HIDE DEF b
  <2> QED BY <1>1, <1>3, Zenon
<1>5. c = [st EXCEPT !.overall = X, !.byKind = Y]
  BY Zenon DEF Counted, Stats
<1> HIDE DEF X, Y, b
<1>6. /\ c \in Stats /\ c.overall = X /\ c.byKind = Y /\ c.hits = st.hits /\ c.misses = st.misses
       /\ c.transErr = st.transErr /\ c.mismatches = st.mismatches /\ c.byStatus = st.byStatus
  <2> HIDE DEF c
  <2> QED BY <1>2, <1>4, <1>5, Zenon DEF Stats
<1> HIDE DEF c
<1>7. \A j \in Kind : st.byKind[j].count \in Nat /\ st.byKind[j].failures \in Nat
  BY <1>1 DEF Bucket
<1>8. SumFunction(Counts(c)) = SumFunction(Counts(st)) + 1
  <2> DEFINE f == Counts(st)
             h == Counts(c)
  <2>1. /\ \A j \in Kind : f[j] = st.byKind[j].count /\ h[j] = c.byKind[j].count
        /\ DOMAIN f = Kind /\ DOMAIN h = Kind
    BY DEF Counts
  <2> HIDE DEF f, h
  <2>2. /\ \A j \in Kind : f[j] \in Int
        /\ h[k] \in Int /\ h[k] - f[k] = 1 /\ \A j \in Kind \ {k} : h[j] = f[j]
    BY <1>3, <1>4, <1>6, <1>7, <2>1
  <2>3. SumFunctionOnSet(h, Kind) = SumFunctionOnSet(f, Kind) + (h[k] - f[k])
    BY <2>2, KindsFinite, SumChange
  <2> QED BY <2>1, <2>2, <2>3, Zenon DEF SumFunction, f, h
<1>9. SumFunction(Failures(c)) = SumFunction(Failures(st))
  <2>1. \A j \in Kind : c.byKind[j].failures = st.byKind[j].failures
    BY <1>3, <1>4, <1>6, Zenon
  <2>2. Failures(c) = Failures(st)
    BY <2>1 DEF Failures
  <2> QED BY <2>2, Zenon
<1>10. Tallied(c)
  BY <1>2, <1>6, <1>8, <1>9, Zenon DEF Tallied
<1> QED BY <1>2, <1>6, <1>10, Zenon DEF c

\* A failure of kind k without its example.
Failed(st, k) == [st EXCEPT !.overall.failures = @ + 1, !.byKind[k].failures = @ + 1]

\* AddFailure counts a failure under its kind and overall, and keeps an example of it.
LEMMA AddFailureKeeps ==
  ASSUME NEW st \in Stats, Tallied(st), NEW k \in Kind
  PROVE  /\ AddFailure(st, k) \in Stats /\ Tallied(AddFailure(st, k))
         /\ AddFailure(st, k).overall.count = st.overall.count
         /\ AddFailure(st, k).overall.failures = st.overall.failures + 1
         /\ AddFailure(st, k).hits = st.hits /\ AddFailure(st, k).misses = st.misses
         /\ AddFailure(st, k).transErr = st.transErr /\ AddFailure(st, k).byStatus = st.byStatus
<1> DEFINE c == Failed(st, k)
           b == [st.byKind[k] EXCEPT !.failures = @ + 1]
           X == [st.overall EXCEPT !.failures = @ + 1]
           Y == [st.byKind EXCEPT ![k] = b]
           m == IF c.mismatches >= MaxMismatches THEN c.mismatches ELSE c.mismatches + 1
           r == AddFailure(st, k)
<1>1. /\ st.overall \in Bucket /\ st.byKind \in [Kind -> Bucket] /\ st.byStatus \in [Code -> Nat]
      /\ st.hits \in Nat /\ st.misses \in Nat /\ st.transErr \in Nat /\ st.mismatches \in Nat
      /\ st.overall.failures \in Nat /\ MaxMismatches \in Nat
  BY StressAssumption, Zenon DEF Stats, Bucket
<1>2. X \in Bucket /\ X.count = st.overall.count /\ X.failures = st.overall.failures + 1
  BY <1>1 DEF Bucket
<1>3. b \in Bucket /\ b.count = st.byKind[k].count /\ b.failures = st.byKind[k].failures + 1
  BY <1>1 DEF Bucket
<1>4. Y \in [Kind -> Bucket] /\ Y[k] = b /\ \A j \in Kind \ {k} : Y[j] = st.byKind[j]
  <2> HIDE DEF b
  <2> QED BY <1>1, <1>3, Zenon
<1>5. c = [st EXCEPT !.overall = X, !.byKind = Y]
  BY Zenon DEF Failed, Stats
<1> HIDE DEF X, Y, b
<1>6. /\ c \in Stats /\ c.overall = X /\ c.byKind = Y /\ c.hits = st.hits /\ c.misses = st.misses
      /\ c.transErr = st.transErr /\ c.mismatches = st.mismatches /\ c.byStatus = st.byStatus
  <2> HIDE DEF c
  <2> QED BY <1>2, <1>4, <1>5, Zenon DEF Stats
<1>7. r = [c EXCEPT !.mismatches = m]
  BY DEF AddFailure, RecordMismatch, Failed
<1>8. m \in Nat
  <2> HIDE DEF c
  <2> QED BY <1>1, <1>6
<1> HIDE DEF c, m
<1>9. /\ r \in Stats /\ r.overall = X /\ r.byKind = Y /\ r.hits = st.hits /\ r.misses = st.misses
      /\ r.transErr = st.transErr /\ r.mismatches = m /\ r.byStatus = st.byStatus
  <2> HIDE DEF r
  <2> QED BY <1>6, <1>7, <1>8, Zenon DEF Stats
<1> HIDE DEF r
<1>10. \A j \in Kind : st.byKind[j].count \in Nat /\ st.byKind[j].failures \in Nat
  BY <1>1 DEF Bucket
<1>11. SumFunction(Failures(r)) = SumFunction(Failures(st)) + 1
  <2> DEFINE f == Failures(st)
             h == Failures(r)
  <2>1. /\ \A j \in Kind : f[j] = st.byKind[j].failures /\ h[j] = r.byKind[j].failures
        /\ DOMAIN f = Kind /\ DOMAIN h = Kind
    BY DEF Failures
  <2> HIDE DEF f, h
  <2>2. /\ \A j \in Kind : f[j] \in Int
        /\ h[k] \in Int /\ h[k] - f[k] = 1 /\ \A j \in Kind \ {k} : h[j] = f[j]
    BY <1>3, <1>4, <1>9, <1>10, <2>1
  <2>3. SumFunctionOnSet(h, Kind) = SumFunctionOnSet(f, Kind) + (h[k] - f[k])
    BY <2>2, KindsFinite, SumChange
  <2> QED BY <2>1, <2>2, <2>3, Zenon DEF SumFunction, f, h
<1>12. SumFunction(Counts(r)) = SumFunction(Counts(st))
  <2>1. \A j \in Kind : r.byKind[j].count = st.byKind[j].count
    BY <1>3, <1>4, <1>9
  <2>2. Counts(r) = Counts(st)
    BY <2>1, Zenon DEF Counts
  <2> QED BY <2>2, Zenon
<1>13. m = IF st.overall.failures + 1 < MaxMismatches THEN st.overall.failures + 1 ELSE MaxMismatches
  <2>1. st.mismatches = IF st.overall.failures < MaxMismatches THEN st.overall.failures ELSE MaxMismatches
    BY Zenon DEF Tallied
  <2>2. m = IF st.mismatches >= MaxMismatches THEN st.mismatches ELSE st.mismatches + 1
    BY <1>6, Zenon DEF m
  <2> QED BY <1>1, <2>1, <2>2
<1>14. Tallied(r)
  BY <1>2, <1>9, <1>11, <1>12, <1>13 DEF Tallied
<1> QED BY <1>2, <1>9, <1>14 DEF r

\* Counting a hit, a miss, a transport error or a status.
WithHit(st) == [st EXCEPT !.hits = @ + 1]
WithMiss(st) == [st EXCEPT !.misses = @ + 1]
WithTransErr(st) == [st EXCEPT !.transErr = @ + 1]
WithStatus(st, c, x) == [st EXCEPT !.byStatus[c] = x]

\* The other counters stay as they are.
LEMMA WithHitKeeps ==
  ASSUME NEW st \in Stats, Tallied(st)
  PROVE  /\ WithHit(st) \in Stats /\ Tallied(WithHit(st)) /\ WithHit(st).overall = st.overall
         /\ WithHit(st).hits = st.hits + 1 /\ WithHit(st).misses = st.misses
         /\ WithHit(st).transErr = st.transErr /\ WithHit(st).byStatus = st.byStatus
<1> DEFINE r == WithHit(st)
<1>1. /\ r \in Stats /\ r.overall = st.overall /\ r.byKind = st.byKind /\ r.hits = st.hits + 1
      /\ r.misses = st.misses /\ r.transErr = st.transErr /\ r.mismatches = st.mismatches
      /\ r.byStatus = st.byStatus
  BY DEF Stats, WithHit
<1> HIDE DEF r
<1>2. Tallied(r)
  BY <1>1, Zenon DEF Tallied, Counts, Failures
<1> QED BY <1>1, <1>2, Zenon DEF r

\* As for a hit.
LEMMA WithMissKeeps ==
  ASSUME NEW st \in Stats, Tallied(st)
  PROVE  /\ WithMiss(st) \in Stats /\ Tallied(WithMiss(st)) /\ WithMiss(st).overall = st.overall
         /\ WithMiss(st).hits = st.hits /\ WithMiss(st).misses = st.misses + 1
         /\ WithMiss(st).transErr = st.transErr /\ WithMiss(st).byStatus = st.byStatus
<1> DEFINE r == WithMiss(st)
<1>1. /\ r \in Stats /\ r.overall = st.overall /\ r.byKind = st.byKind /\ r.hits = st.hits
      /\ r.misses = st.misses + 1 /\ r.transErr = st.transErr /\ r.mismatches = st.mismatches
      /\ r.byStatus = st.byStatus
  BY DEF Stats, WithMiss
<1> HIDE DEF r
<1>2. Tallied(r)
  BY <1>1, Zenon DEF Tallied, Counts, Failures
<1> QED BY <1>1, <1>2, Zenon DEF r

\* As for a hit.
LEMMA WithTransErrKeeps ==
  ASSUME NEW st \in Stats, Tallied(st)
  PROVE  /\ WithTransErr(st) \in Stats /\ Tallied(WithTransErr(st)) /\ WithTransErr(st).overall = st.overall
         /\ WithTransErr(st).hits = st.hits /\ WithTransErr(st).misses = st.misses
         /\ WithTransErr(st).transErr = st.transErr + 1 /\ WithTransErr(st).byStatus = st.byStatus
<1> DEFINE r == WithTransErr(st)
<1>1. /\ r \in Stats /\ r.overall = st.overall /\ r.byKind = st.byKind /\ r.hits = st.hits
      /\ r.misses = st.misses /\ r.transErr = st.transErr + 1 /\ r.mismatches = st.mismatches
      /\ r.byStatus = st.byStatus
  BY DEF Stats, WithTransErr
<1> HIDE DEF r
<1>2. Tallied(r)
  BY <1>1, Zenon DEF Tallied, Counts, Failures
<1> QED BY <1>1, <1>2, Zenon DEF r

\* As for a hit.
LEMMA WithStatusKeeps ==
  ASSUME NEW st \in Stats, Tallied(st), NEW c \in Code, NEW x \in Nat
  PROVE  /\ WithStatus(st, c, x) \in Stats /\ Tallied(WithStatus(st, c, x))
         /\ WithStatus(st, c, x).overall = st.overall
         /\ WithStatus(st, c, x).hits = st.hits /\ WithStatus(st, c, x).misses = st.misses
         /\ WithStatus(st, c, x).transErr = st.transErr
         /\ WithStatus(st, c, x).byStatus[c] = x
         /\ \A d \in Code \ {c} : WithStatus(st, c, x).byStatus[d] = st.byStatus[d]
<1> DEFINE r == WithStatus(st, c, x)
           Y == [st.byStatus EXCEPT ![c] = x]
<1>1. /\ Y \in [Code -> Nat] /\ Y[c] = x /\ \A d \in Code \ {c} : Y[d] = st.byStatus[d]
  BY Zenon DEF Stats
<1>2. r = [st EXCEPT !.byStatus = Y]
  BY DEF WithStatus
<1> HIDE DEF r, Y
<1>3. /\ r \in Stats /\ r.overall = st.overall /\ r.byKind = st.byKind /\ r.hits = st.hits
      /\ r.misses = st.misses /\ r.transErr = st.transErr /\ r.mismatches = st.mismatches
      /\ r.byStatus = Y
  BY <1>1, <1>2, Zenon DEF Stats
<1>4. Tallied(r)
  BY <1>3 DEF Tallied, Counts, Failures
<1> QED BY <1>1, <1>3, <1>4 DEF r

----------------------------------------------------------------------------

\* A step of worker w leaves the others where they are.
Moves(w) ==
  /\ at' \in [Worker -> {"done", "pick", "wait", "bucket", "status", "store"}]
  /\ DOMAIN query' = Worker
  /\ \A v \in Worker \ {w} : at'[v] = at[v] /\ query'[v] = query[v]

\* The sets of workers change at most by the one that moves.
LEMMA SetsMove ==
  ASSUME NEW w \in Worker, Moves(w)
  PROVE  /\ Cardinality(Wrong \ {w}) \in Nat
         /\ w \in Wrong => Cardinality(Wrong) = Cardinality(Wrong \ {w}) + 1
         /\ w \notin Wrong => Cardinality(Wrong) = Cardinality(Wrong \ {w})
         /\ w \in Wrong' => Cardinality(Wrong') = Cardinality(Wrong \ {w}) + 1
         /\ w \notin Wrong' => Cardinality(Wrong') = Cardinality(Wrong \ {w})
         /\ Cardinality(Unanswered \ {w}) \in Nat
         /\ w \in Unanswered => Cardinality(Unanswered) = Cardinality(Unanswered \ {w}) + 1
         /\ w \notin Unanswered => Cardinality(Unanswered) = Cardinality(Unanswered \ {w})
         /\ w \in Unanswered' => Cardinality(Unanswered') = Cardinality(Unanswered \ {w}) + 1
         /\ w \notin Unanswered' => Cardinality(Unanswered') = Cardinality(Unanswered \ {w})
         /\ \A c \in Code :
              /\ Cardinality(Storing(c) \ {w}) \in Nat
              /\ w \in Storing(c) => Cardinality(Storing(c)) = Cardinality(Storing(c) \ {w}) + 1
              /\ w \notin Storing(c) => Cardinality(Storing(c)) = Cardinality(Storing(c) \ {w})
              /\ w \in Storing(c)' => Cardinality(Storing(c)') = Cardinality(Storing(c) \ {w}) + 1
              /\ w \notin Storing(c)' => Cardinality(Storing(c)') = Cardinality(Storing(c) \ {w})
<1>1. /\ Wrong \in SUBSET Worker /\ Wrong' \in SUBSET Worker
      /\ \A v \in Worker \ {w} : v \in Wrong <=> v \in Wrong'
  BY Zenon DEF Wrong, Moves
<1>2. /\ Unanswered \in SUBSET Worker /\ Unanswered' \in SUBSET Worker
      /\ \A v \in Worker \ {w} : v \in Unanswered <=> v \in Unanswered'
  BY Zenon DEF Unanswered, Moves
<1>3. ASSUME NEW c \in Code
      PROVE  /\ Storing(c) \in SUBSET Worker /\ Storing(c)' \in SUBSET Worker
             /\ \A v \in Worker \ {w} : v \in Storing(c) <=> v \in Storing(c)'
  BY DEF Storing, Moves
<1>4. /\ Cardinality(Wrong \ {w}) \in Nat
      /\ w \in Wrong => Cardinality(Wrong) = Cardinality(Wrong \ {w}) + 1
      /\ w \notin Wrong => Cardinality(Wrong) = Cardinality(Wrong \ {w})
      /\ w \in Wrong' => Cardinality(Wrong') = Cardinality(Wrong \ {w}) + 1
      /\ w \notin Wrong' => Cardinality(Wrong') = Cardinality(Wrong \ {w})
  BY <1>1, OneMoves
<1>5. /\ Cardinality(Unanswered \ {w}) \in Nat
      /\ w \in Unanswered => Cardinality(Unanswered) = Cardinality(Unanswered \ {w}) + 1
      /\ w \notin Unanswered => Cardinality(Unanswered) = Cardinality(Unanswered \ {w})
      /\ w \in Unanswered' => Cardinality(Unanswered') = Cardinality(Unanswered \ {w}) + 1
      /\ w \notin Unanswered' => Cardinality(Unanswered') = Cardinality(Unanswered \ {w})
  BY <1>2, OneMoves
<1>6. ASSUME NEW c \in Code
      PROVE  /\ Cardinality(Storing(c) \ {w}) \in Nat
             /\ w \in Storing(c) => Cardinality(Storing(c)) = Cardinality(Storing(c) \ {w}) + 1
             /\ w \notin Storing(c) => Cardinality(Storing(c)) = Cardinality(Storing(c) \ {w})
             /\ w \in Storing(c)' => Cardinality(Storing(c)') = Cardinality(Storing(c) \ {w}) + 1
             /\ w \notin Storing(c)' => Cardinality(Storing(c)') = Cardinality(Storing(c) \ {w})
  BY <1>3, OneMoves
<1> QED BY <1>4, <1>5, <1>6, Zenon

\* A step of a worker keeps the invariant if it does so for the worker and the counters.
LEMMA WorkerKeeps ==
  ASSUME StressInv, NEW w \in Worker, Moves(w), at[w] # "done", UNCHANGED <<phase, seeder>>, expired' = expired,
         at'[w] = "wait" => query'[w] \in Query,
         at'[w] \in {"bucket", "status", "store"} => query'[w] \in Returned,
         Expected(w)', stats' \in Stats, Tallied(stats'),
         facts' \in [wrong : Nat, unanswered : Nat, answered : [Code -> Nat]],
         Accounted', \A c \in Code : StatusInv(c)'
  PROVE  StressInv'
<1>1. phase \notin {"idle", "reported"}
  BY DEF StressInv, Idle
<1>2. StressTypeOK'
  BY Zenon DEF StressInv, StressTypeOK, Moves
<1>3. ASSUME NEW v \in Worker PROVE Expected(v)'
  <2>1. CASE v = w
    BY <2>1, Zenon
  <2>2. CASE v # w
    <3>1. at'[v] = at[v] /\ query'[v] = query[v] /\ Expected(v)
      BY <2>2, Zenon DEF Moves, StressInv
    <3> QED BY <3>1, Zenon DEF Expected
  <2> QED BY <2>1, <2>2, Zenon
<1>4. seeder'.pc = "complete" /\ phase' \notin {"idle", "reported"}
  BY <1>1, Zenon DEF StressInv
<1>5. Tallied(stats)'
  BY Zenon DEF Tallied, Counts, Failures
<1> QED BY <1>2, <1>3, <1>4, <1>5, Zenon DEF StressInv

\* On the whole corpus the status a query wants is the one the right answer has: the keys
\* that are drawn are there, and those beyond the corpus are not.
LEMMA PickedWant ==
  ASSUME SeedTypeOK, SeedsWhole, seeder.pc = "complete", NEW q \in PickQuery(seeder.n)
  PROVE  q \in Query /\ q.status = q.want
<1> DEFINE n == seeder.n
<1>1. /\ n \in Nat /\ n > 10 /\ Fixtures \in Nat
      /\ db["domains"] = (-Fixtures)..(n - 1) /\ db["entities"] = 0..(n - 1)
      /\ db["nameservers"] = 0..((n + 9) \div 10 - 1)
  <2>1. n \in Sizes /\ \A t \in {"entities", "nameservers", "domains"} : db[t] = SeedSynthetic(n)[t]
    BY Zenon DEF SeedTypeOK, SeedsWhole
  <2>2. n \in Nat /\ n > 10 /\ Fixtures \in Nat
    BY <2>1, SeedAssumption, StressAssumption, Zenon
  <2> QED BY <2>1, <2>2 DEF SeedSynthetic
<1>2. PICK k \in Kind : q \in {[kind |-> k, want |-> WantStatus(k), status |-> RightStatus(k, key)] :
                                 key \in Keys(k, n)}
  BY Zenon DEF PickQuery
<1>3. PICK key \in Keys(k, n) : q = [kind |-> k, want |-> WantStatus(k), status |-> RightStatus(k, key)]
  BY <1>2, Zenon
<1> HIDE DEF n
<1>4. RightStatus(k, key) = WantStatus(k)
  <2>1. CASE k = "domain"
    BY <1>1, <2>1 DEF RightStatus, WantStatus, Keys, PickKey
  <2>2. CASE k = "entity"
    BY <1>1, <2>2 DEF RightStatus, WantStatus, Keys, PickKey
  <2>3. CASE k = "domain_missing"
    BY <1>1, <2>3 DEF RightStatus, WantStatus, Keys, PickKey
  <2>4. CASE k = "nameserver"
    <3>1. PICK i \in 0..(n \div 10 - 1) : key = IF i < 1 THEN 1 ELSE i
      BY <2>4, Zenon DEF Keys
    <3>2. n \div 10 <= (n + 9) \div 10 /\ 1 <= (n + 9) \div 10 - 1 /\ (n + 9) \div 10 \in Nat /\ n \div 10 \in Nat
      BY <1>1
    <3>3. key \in db["nameservers"]
      BY <1>1, <3>1, <3>2
    <3> QED BY <2>4, <3>3 DEF RightStatus, WantStatus
  <2>5. CASE k \notin {"domain", "entity", "domain_missing", "nameserver"}
    BY <2>5 DEF RightStatus, WantStatus
  <2> QED BY <2>1, <2>2, <2>3, <2>4, <2>5
<1>5. WantStatus(k) \in Code
  BY DEF WantStatus, Code
<1> QED BY <1>3, <1>4, <1>5 DEF Query

\* pickQuery: the worker gets its query.
LEMMA PickKeeps ==
  ASSUME SeedTypeOK, SeedsWhole, StressInv, NEW w \in Worker, Pick(w), UNCHANGED seedVars
  PROVE  StressInv'
<1>1. /\ at[w] = "pick" /\ at' = [at EXCEPT ![w] = "wait"] /\ stats' = stats /\ facts' = facts
      /\ phase' = phase /\ expired' = expired /\ seeder' = seeder
  BY Zenon DEF Pick, seedVars
<1>2. PICK q \in PickQuery(seeder.n) : query' = [query EXCEPT ![w] = q]
  BY Zenon DEF Pick
<1>3. /\ StressTypeOK /\ Tallied(stats) /\ Accounted /\ \A c \in Code : StatusInv(c)
  BY DEF StressInv
<1>4. seeder.pc = "complete"
  BY <1>1, Zenon DEF StressInv, Idle
<1>5. q \in Query /\ q.status = q.want
  BY <1>4, PickedWant
<1>6. Moves(w) /\ at'[w] = "wait" /\ query'[w] = q
  BY <1>1, <1>2, <1>3 DEF Moves, StressTypeOK
<1>7. Expected(w)'
  BY <1>5, <1>6, Zenon DEF Expected
<1>8. /\ w \notin Wrong /\ w \notin Wrong' /\ w \notin Unanswered /\ w \notin Unanswered'
      /\ \A c \in Code : w \notin Storing(c) /\ w \notin Storing(c)'
  BY <1>1, <1>6, Zenon DEF Wrong, Unanswered, Storing
<1>9. /\ Cardinality(Wrong') = Cardinality(Wrong) /\ Cardinality(Unanswered') = Cardinality(Unanswered)
      /\ \A c \in Code : Cardinality(Storing(c)') = Cardinality(Storing(c))
  BY <1>6, <1>8, SetsMove
<1>10. Accounted' /\ \A c \in Code : StatusInv(c)'
  BY <1>1, <1>3, <1>9, Zenon DEF Accounted, StatusInv
<1>11. stats' \in Stats /\ facts' \in [wrong : Nat, unanswered : Nat, answered : [Code -> Nat]] /\ Tallied(stats')
  BY <1>1, <1>3 DEF StressTypeOK
<1> QED BY <1>1, <1>5, <1>6, <1>7, <1>10, <1>11, WorkerKeeps, Zenon

\* The worker's loop ends.
LEMMA LeaveKeeps ==
  ASSUME StressInv, NEW w \in Worker, Leave(w), UNCHANGED seedVars
  PROVE  StressInv'
<1>1. /\ at[w] = "pick" /\ at' = [at EXCEPT ![w] = "done"] /\ stats' = stats /\ facts' = facts
      /\ phase' = phase /\ expired' = expired /\ seeder' = seeder /\ query' = query
  BY Zenon DEF Leave, seedVars
<1>2. /\ StressTypeOK /\ Tallied(stats) /\ Accounted /\ \A c \in Code : StatusInv(c)
  BY Zenon DEF StressInv
<1>3. Moves(w) /\ at'[w] = "done"
  BY <1>1, <1>2 DEF Moves, StressTypeOK
<1>4. Expected(w)'
  BY <1>3, Zenon DEF Expected
<1>5. /\ w \notin Wrong /\ w \notin Wrong' /\ w \notin Unanswered /\ w \notin Unanswered'
      /\ \A c \in Code : w \notin Storing(c) /\ w \notin Storing(c)'
  BY <1>1, <1>3 DEF Wrong, Unanswered, Storing
<1>6. /\ Cardinality(Wrong') = Cardinality(Wrong) /\ Cardinality(Unanswered') = Cardinality(Unanswered)
      /\ \A c \in Code : Cardinality(Storing(c)') = Cardinality(Storing(c))
  BY <1>3, <1>5, SetsMove
<1>7. Accounted' /\ \A c \in Code : StatusInv(c)'
  BY <1>1, <1>2, <1>6, Zenon DEF Accounted, StatusInv
<1>8. stats' \in Stats /\ facts' \in [wrong : Nat, unanswered : Nat, answered : [Code -> Nat]] /\ Tallied(stats')
  BY <1>1, <1>2, Zenon DEF StressTypeOK
<1> QED BY <1>1, <1>3, <1>4, <1>7, <1>8, WorkerKeeps

\* The accounts when worker w holds what was returned, counted neither as a failure nor as
\* a transport error yet.
Owes(w, q) ==
  /\ stats.overall.failures + Cardinality(Wrong \ {w}) + Cardinality(Unanswered \ {w})
       + (IF q.outcome = "right" THEN 0 ELSE 1) = facts'.wrong + facts'.unanswered
  /\ stats.transErr + Cardinality(Unanswered \ {w}) + (IF q.outcome = "none" THEN 1 ELSE 0) = facts'.unanswered

\* What client.Do may return.
Proper(q) ==
  /\ q \in Returned /\ (q.outcome = "none" \/ q.status \in Code)
  /\ q.outcome = "right" => q.status = q.want

Facts == [wrong : Nat, unanswered : Nat, answered : [Code -> Nat]]

\* exec's counting of what was returned.
LEMMA TallyKeeps ==
  ASSUME StressInv, NEW w \in Worker, NEW q, Proper(q), at[w] \in {"wait", "bucket"}, Tally(w, q, stats),
         Owes(w, q), facts' \in Facts, facts'.answered = facts.answered,
         phase' = phase, expired' = expired, seeder' = seeder
  PROVE  StressInv'
<1> DEFINE k == q.kind
           C == Counted(stats, k)
<1>1. /\ StressTypeOK /\ Tallied(stats) /\ Accounted /\ \A c \in Code : StatusInv(c)
      /\ stats \in Stats /\ k \in Kind
  BY Zenon DEF StressInv, StressTypeOK, Proper, Returned
<1>2. /\ C \in Stats /\ Tallied(C) /\ C.overall.count = stats.overall.count + 1
      /\ C.overall.failures = stats.overall.failures /\ C.hits = stats.hits /\ C.misses = stats.misses
      /\ C.transErr = stats.transErr /\ C.byStatus = stats.byStatus
  BY <1>1, CountedKeeps, Zenon
<1>3. /\ stats.overall.count \in Nat /\ stats.overall.failures \in Nat /\ stats.hits \in Nat
      /\ stats.misses \in Nat /\ stats.transErr \in Nat /\ facts'.wrong \in Nat /\ facts'.unanswered \in Nat
      /\ stats.hits + stats.misses + stats.transErr = stats.overall.count
  BY <1>1, Zenon DEF Stats, Bucket, Facts, Accounted
<1>4. CASE q.outcome = "none"
  <2>1. /\ stats' = AddFailure(WithTransErr(C), k) /\ at' = [at EXCEPT ![w] = "pick"]
        /\ query' = [query EXCEPT ![w] = None]
    BY <1>4, Zenon DEF Tally, Counted, WithTransErr
  <2> HIDE DEF C
  <2> DEFINE B == WithTransErr(C)
  <2>2. /\ B \in Stats /\ Tallied(B) /\ B.overall = C.overall /\ B.hits = C.hits /\ B.misses = C.misses
        /\ B.transErr = C.transErr + 1 /\ B.byStatus = C.byStatus
    BY <1>2, WithTransErrKeeps, Zenon
  <2> HIDE DEF B
  <2>3. /\ stats' \in Stats /\ Tallied(stats') /\ stats'.overall.count = B.overall.count
        /\ stats'.overall.failures = B.overall.failures + 1 /\ stats'.hits = B.hits
        /\ stats'.misses = B.misses /\ stats'.transErr = B.transErr /\ stats'.byStatus = B.byStatus
    BY <1>1, <2>1, <2>2, AddFailureKeeps, Zenon DEF B
  <2>4. /\ stats'.overall.count = stats.overall.count + 1 /\ stats'.overall.failures = stats.overall.failures + 1
        /\ stats'.hits = stats.hits /\ stats'.misses = stats.misses /\ stats'.transErr = stats.transErr + 1
        /\ stats'.byStatus = stats.byStatus
    BY <1>2, <2>2, <2>3, Zenon
  <2>5. Moves(w) /\ at'[w] = "pick"
    BY <1>1, <2>1, Zenon DEF Moves, StressTypeOK
  <2>6. Expected(w)'
    BY <2>5, Zenon DEF Expected
  <2>7. /\ w \notin Wrong' /\ w \notin Unanswered'
        /\ \A c \in Code : w \notin Storing(c) /\ w \notin Storing(c)'
    BY <2>5, Zenon DEF Wrong, Unanswered, Storing
  <2>8. /\ Cardinality(Wrong \ {w}) \in Nat /\ Cardinality(Unanswered \ {w}) \in Nat
        /\ Cardinality(Wrong') = Cardinality(Wrong \ {w})
        /\ Cardinality(Unanswered') = Cardinality(Unanswered \ {w})
        /\ \A c \in Code : Cardinality(Storing(c)') = Cardinality(Storing(c))
    BY <2>5, <2>7, SetsMove, Zenon
  <2>9. /\ stats.overall.failures + Cardinality(Wrong \ {w}) + Cardinality(Unanswered \ {w}) + 1
             = facts'.wrong + facts'.unanswered
        /\ stats.transErr + Cardinality(Unanswered \ {w}) + 1 = facts'.unanswered
    BY <1>4, Zenon DEF Owes
  <2>10. Accounted'
    BY <1>3, <2>4, <2>8, <2>9 DEF Accounted
  <2>11. \A c \in Code : StatusInv(c)'
    BY <1>1, <2>4, <2>8, Zenon DEF StatusInv
  <2> QED BY <2>3, <2>5, <2>6, <2>10, <2>11, WorkerKeeps, Zenon DEF Facts
<1>5. CASE q.outcome # "none"
  <2> DEFINE r == [q EXCEPT !.hit = FALSE]
  <2>1. /\ stats' = WithHit(C) \/ stats' = WithMiss(C)
        /\ at' = [at EXCEPT ![w] = "status"] /\ query' = [query EXCEPT ![w] = r]
    BY <1>5, Zenon DEF Tally, Counted, WithHit, WithMiss
  <2>2. r \in Returned /\ r.outcome = q.outcome /\ r.status = q.status /\ r.want = q.want
    BY Zenon DEF Proper, Returned
  <2> HIDE DEF C, r
  <2>3. /\ stats' \in Stats /\ Tallied(stats') /\ stats'.overall = C.overall
        /\ stats'.hits + stats'.misses = C.hits + C.misses + 1
        /\ stats'.transErr = C.transErr /\ stats'.byStatus = C.byStatus
    <3>1. C.hits \in Nat /\ C.misses \in Nat
      BY <1>2, <1>3, Zenon
    <3>2. CASE stats' = WithHit(C)
      <4>1. /\ stats' \in Stats /\ Tallied(stats') /\ stats'.overall = C.overall
            /\ stats'.hits = C.hits + 1 /\ stats'.misses = C.misses
            /\ stats'.transErr = C.transErr /\ stats'.byStatus = C.byStatus
        BY <1>2, <3>2, WithHitKeeps, Zenon
      <4> QED BY <3>1, <4>1
    <3>3. CASE stats' = WithMiss(C)
      <4>1. /\ stats' \in Stats /\ Tallied(stats') /\ stats'.overall = C.overall
            /\ stats'.hits = C.hits /\ stats'.misses = C.misses + 1
            /\ stats'.transErr = C.transErr /\ stats'.byStatus = C.byStatus
        BY <1>2, <3>3, WithMissKeeps, Zenon
      <4> QED BY <3>1, <4>1
    <3> QED BY <2>1, <3>2, <3>3, Zenon
  <2>4. /\ stats'.overall.count = stats.overall.count + 1 /\ stats'.overall.failures = stats.overall.failures
        /\ stats'.hits + stats'.misses = stats.hits + stats.misses + 1 /\ stats'.transErr = stats.transErr
        /\ stats'.byStatus = stats.byStatus
    BY <1>2, <2>3, Zenon
  <2>5. Moves(w) /\ at'[w] = "status" /\ query'[w] = r
    BY <1>1, <2>1, Zenon DEF Moves, StressTypeOK
  <2>6. Expected(w)'
    BY <1>5, <2>2, <2>5, Zenon DEF Expected, Proper
  <2>7. /\ (w \in Wrong' <=> q.outcome = "wrong") /\ w \notin Unanswered'
        /\ \A c \in Code : w \notin Storing(c) /\ w \notin Storing(c)'
    BY <2>2, <2>5, Zenon DEF Wrong, Unanswered, Storing
  <2>8. /\ Cardinality(Wrong \ {w}) \in Nat /\ Cardinality(Unanswered \ {w}) \in Nat
        /\ q.outcome = "wrong" => Cardinality(Wrong') = Cardinality(Wrong \ {w}) + 1
        /\ q.outcome # "wrong" => Cardinality(Wrong') = Cardinality(Wrong \ {w})
        /\ Cardinality(Unanswered') = Cardinality(Unanswered \ {w})
        /\ \A c \in Code : Cardinality(Storing(c)') = Cardinality(Storing(c))
    BY <2>5, <2>7, SetsMove, Zenon
  <2>9. /\ q.outcome = "wrong" \/ q.outcome = "right"
        /\ q.outcome = "wrong" =>
             stats.overall.failures + Cardinality(Wrong \ {w}) + Cardinality(Unanswered \ {w}) + 1
               = facts'.wrong + facts'.unanswered
        /\ q.outcome = "right" =>
             stats.overall.failures + Cardinality(Wrong \ {w}) + Cardinality(Unanswered \ {w}) + 0
               = facts'.wrong + facts'.unanswered
        /\ stats.transErr + Cardinality(Unanswered \ {w}) + 0 = facts'.unanswered
    BY <1>5, Zenon DEF Owes, Proper, Returned
  <2>10. stats'.overall.failures + Cardinality(Wrong') + Cardinality(Unanswered') = facts'.wrong + facts'.unanswered
    BY <1>3, <2>4, <2>8, <2>9
  <2>11. Accounted'
    BY <1>3, <2>4, <2>8, <2>9, <2>10 DEF Accounted
  <2>12. \A c \in Code : StatusInv(c)'
    BY <1>1, <2>4, <2>8, Zenon DEF StatusInv
  <2> QED BY <2>2, <2>3, <2>5, <2>6, <2>11, <2>12, WorkerKeeps, Zenon DEF Facts
<1> QED BY <1>4, <1>5, Zenon

\* client.Do returns: the worker counts at once, or goes to make the bucket of its kind.
LEMMA ReturnKeeps ==
  ASSUME StressInv, NEW w \in Worker, NEW q, Proper(q), at[w] = "wait", Return(w, q),
         Owes(w, q), facts' \in Facts, facts'.answered = facts.answered, seeder' = seeder
  PROVE  StressInv'
<1>0. phase' = phase /\ expired' = expired
  BY Zenon DEF Return
<1>1. CASE stats.byKind[q.kind].count > 0
  <2>1. Tally(w, q, stats)
    BY <1>1, Zenon DEF Return
  <2> QED BY <1>0, <2>1, TallyKeeps
<1>2. CASE ~(stats.byKind[q.kind].count > 0)
  <2>1. at' = [at EXCEPT ![w] = "bucket"] /\ query' = [query EXCEPT ![w] = q] /\ stats' = stats
    BY <1>2, Zenon DEF Return
  <2>2. /\ StressTypeOK /\ Tallied(stats) /\ Accounted /\ \A c \in Code : StatusInv(c)
        /\ stats \in Stats /\ q \in Returned
    BY Zenon DEF StressInv, StressTypeOK, Proper
  <2>3. Moves(w) /\ at'[w] = "bucket" /\ query'[w] = q
    BY <2>1, <2>2, Zenon DEF Moves, StressTypeOK
  <2>4. Expected(w)'
    BY <2>3, Zenon DEF Expected, Proper
  <2>5. /\ (w \in Wrong' <=> q.outcome = "wrong") /\ (w \in Unanswered' <=> q.outcome = "none")
        /\ \A c \in Code : w \notin Storing(c) /\ w \notin Storing(c)'
    BY <2>3, Zenon DEF Wrong, Unanswered, Storing
  <2>6. /\ Cardinality(Wrong \ {w}) \in Nat /\ Cardinality(Unanswered \ {w}) \in Nat
        /\ q.outcome = "wrong" => Cardinality(Wrong') = Cardinality(Wrong \ {w}) + 1
        /\ q.outcome # "wrong" => Cardinality(Wrong') = Cardinality(Wrong \ {w})
        /\ q.outcome = "none" => Cardinality(Unanswered') = Cardinality(Unanswered \ {w}) + 1
        /\ q.outcome # "none" => Cardinality(Unanswered') = Cardinality(Unanswered \ {w})
        /\ \A c \in Code : Cardinality(Storing(c)') = Cardinality(Storing(c))
    BY <2>3, <2>5, SetsMove, Zenon
  <2>7. /\ stats.overall.failures \in Nat /\ stats.transErr \in Nat /\ q.outcome \in {"right", "wrong", "none"}
    BY <2>2, Zenon DEF Stats, Bucket, Returned
  <2>8. /\ stats'.overall.failures + Cardinality(Wrong') + Cardinality(Unanswered') = facts'.wrong + facts'.unanswered
        /\ stats'.transErr + Cardinality(Unanswered') = facts'.unanswered
    <3>1. CASE q.outcome = "right"
      BY <2>1, <2>6, <2>7, <3>1 DEF Owes
    <3>2. CASE q.outcome = "wrong"
      BY <2>1, <2>6, <2>7, <3>2 DEF Owes
    <3>3. CASE q.outcome = "none"
      BY <2>1, <2>6, <2>7, <3>3 DEF Owes
    <3> QED BY <2>7, <3>1, <3>2, <3>3, Zenon
  <2>9. Accounted'
    BY <2>1, <2>2, <2>8, Zenon DEF Accounted
  <2>10. \A c \in Code : StatusInv(c)'
    BY <2>1, <2>2, <2>6, Zenon DEF StatusInv
  <2>11. stats' \in Stats /\ Tallied(stats')
    BY <2>1, <2>2, Zenon
  <2> QED BY <1>0, <2>2, <2>3, <2>4, <2>9, <2>10, <2>11, WorkerKeeps, Zenon DEF Facts
<1> QED BY <1>1, <1>2, Zenon

\* A worker that waits owes nothing yet.
LEMMA WaitingOwes ==
  ASSUME StressInv, NEW w \in Worker, at[w] = "wait"
  PROVE  /\ query[w] \in Query /\ query[w].status = query[w].want /\ facts \in Facts
         /\ Cardinality(Wrong \ {w}) \in Nat /\ Cardinality(Unanswered \ {w}) \in Nat
         /\ stats.overall.failures \in Nat /\ stats.transErr \in Nat
         /\ stats.overall.failures + Cardinality(Wrong \ {w}) + Cardinality(Unanswered \ {w})
              = facts.wrong + facts.unanswered
         /\ stats.transErr + Cardinality(Unanswered \ {w}) = facts.unanswered
<1>1. query[w] \in Query /\ facts \in Facts /\ Expected(w) /\ Accounted /\ stats \in Stats
  BY Zenon DEF StressInv, StressTypeOK, Facts
<1>2. Wrong \ {w} = Wrong /\ Unanswered \ {w} = Unanswered
  BY Zenon DEF Wrong, Unanswered
<1>3. Cardinality(Wrong) \in Nat /\ Cardinality(Unanswered) \in Nat
  <2>1. Wrong \in SUBSET Worker /\ Unanswered \in SUBSET Worker
    BY DEF Wrong, Unanswered
  <2> QED BY <2>1, StressAssumption, FS_Subset, FS_CardinalityType
<1>4. /\ stats.overall.failures \in Nat /\ stats.transErr \in Nat
      /\ stats.overall.failures + Cardinality(Wrong) + Cardinality(Unanswered) = facts.wrong + facts.unanswered
      /\ stats.transErr + Cardinality(Unanswered) = facts.unanswered
  BY <1>1, Zenon DEF Accounted, Stats, Bucket
<1>5. query[w].status = query[w].want
  BY <1>1, Zenon DEF Expected
<1> QED BY <1>1, <1>2, <1>3, <1>4, <1>5, Zenon

\* The right answer.
LEMMA AnswerKeeps ==
  ASSUME StressInv, NEW w \in Worker, Answer(w), seeder' = seeder
  PROVE  StressInv'
<1>1. at[w] = "wait" /\ facts' = facts
  BY Zenon DEF Answer
<1>2. PICK hit \in BOOLEAN : Return(w, Response(w, "right", query[w].status, hit))
  BY Zenon DEF Answer
<1> DEFINE q == Response(w, "right", query[w].status, hit)
<1>3. /\ query[w] \in Query /\ query[w].status = query[w].want /\ facts \in Facts
      /\ Cardinality(Wrong \ {w}) \in Nat /\ Cardinality(Unanswered \ {w}) \in Nat
      /\ stats.overall.failures \in Nat /\ stats.transErr \in Nat
      /\ stats.overall.failures + Cardinality(Wrong \ {w}) + Cardinality(Unanswered \ {w})
           = facts.wrong + facts.unanswered
      /\ stats.transErr + Cardinality(Unanswered \ {w}) = facts.unanswered
  BY <1>1, WaitingOwes
<1>4. Proper(q) /\ q.outcome = "right"
  BY <1>3, Zenon DEF Proper, Returned, Response, Query
<1> HIDE DEF q
<1>5. Owes(w, q) /\ facts' \in Facts
  BY <1>1, <1>3, <1>4 DEF Owes
<1>6. Return(w, q)
  BY <1>2, Zenon DEF q
<1> QED BY <1>1, <1>4, <1>5, <1>6, ReturnKeeps

\* A wrong one.
LEMMA MisanswerKeeps ==
  ASSUME StressInv, NEW w \in Worker, Misanswer(w), seeder' = seeder
  PROVE  StressInv'
<1>1. at[w] = "wait" /\ facts' = [facts EXCEPT !.wrong = @ + 1]
  BY DEF Misanswer
<1>2. PICK status \in {query[w].status, 500} : Return(w, Response(w, "wrong", status, FALSE))
  BY Zenon DEF Misanswer
<1> DEFINE q == Response(w, "wrong", status, FALSE)
<1>3. /\ query[w] \in Query /\ facts \in Facts
      /\ Cardinality(Wrong \ {w}) \in Nat /\ Cardinality(Unanswered \ {w}) \in Nat
      /\ stats.overall.failures \in Nat /\ stats.transErr \in Nat
      /\ stats.overall.failures + Cardinality(Wrong \ {w}) + Cardinality(Unanswered \ {w})
           = facts.wrong + facts.unanswered
      /\ stats.transErr + Cardinality(Unanswered \ {w}) = facts.unanswered
  BY <1>1, WaitingOwes
<1>4. Proper(q) /\ q.outcome = "wrong"
  BY <1>3 DEF Proper, Returned, Response, Query, Code
<1> HIDE DEF q
<1>5. /\ facts' \in Facts /\ facts'.wrong = facts.wrong + 1 /\ facts'.unanswered = facts.unanswered
      /\ facts'.answered = facts.answered
  BY <1>1, <1>3 DEF Facts
<1>6. facts.wrong \in Nat /\ facts.unanswered \in Nat
  BY <1>3, Zenon DEF Facts
<1>7. Owes(w, q)
  BY <1>3, <1>4, <1>5, <1>6 DEF Owes
<1>8. Return(w, q)
  BY <1>2, Zenon DEF q
<1> QED BY <1>1, <1>4, <1>5, <1>7, <1>8, ReturnKeeps

\* None.
LEMMA TimeOutKeeps ==
  ASSUME StressInv, NEW w \in Worker, TimeOut(w), seeder' = seeder
  PROVE  StressInv'
<1>1. at[w] = "wait" /\ facts' = [facts EXCEPT !.unanswered = @ + 1]
  BY Zenon DEF TimeOut
<1> DEFINE q == Response(w, "none", 0, FALSE)
<1>2. Return(w, q)
  BY Zenon DEF TimeOut
<1>3. /\ query[w] \in Query /\ facts \in Facts
      /\ Cardinality(Wrong \ {w}) \in Nat /\ Cardinality(Unanswered \ {w}) \in Nat
      /\ stats.overall.failures \in Nat /\ stats.transErr \in Nat
      /\ stats.overall.failures + Cardinality(Wrong \ {w}) + Cardinality(Unanswered \ {w})
           = facts.wrong + facts.unanswered
      /\ stats.transErr + Cardinality(Unanswered \ {w}) = facts.unanswered
  BY <1>1, WaitingOwes
<1>4. Proper(q) /\ q.outcome = "none"
  BY <1>3, Zenon DEF Proper, Returned, Response, Query
<1> HIDE DEF q
<1>5. /\ facts' \in Facts /\ facts'.wrong = facts.wrong /\ facts'.unanswered = facts.unanswered + 1
      /\ facts'.answered = facts.answered
  BY <1>1, <1>3 DEF Facts
<1>6. facts.wrong \in Nat /\ facts.unanswered \in Nat
  BY <1>3, Zenon DEF Facts
<1>7. Owes(w, q)
  BY <1>3, <1>4, <1>5, <1>6 DEF Owes
<1> QED BY <1>1, <1>2, <1>4, <1>5, <1>7, ReturnKeeps

\* bucketFor's LoadOrStore, and the counting after it.
LEMMA MakeBucketKeeps ==
  ASSUME StressInv, NEW w \in Worker, MakeBucket(w), seeder' = seeder
  PROVE  StressInv'
<1> DEFINE q == query[w]
<1>1. /\ at[w] = "bucket" /\ Tally(w, q, stats) /\ facts' = facts /\ phase' = phase /\ expired' = expired
  BY Zenon DEF MakeBucket
<1>2. q \in Returned /\ Expected(w) /\ facts \in Facts /\ stats \in Stats /\ Accounted
  BY <1>1 DEF StressInv, StressTypeOK, Facts
<1>3. Proper(q)
  BY <1>1, <1>2, Zenon DEF Expected, Proper
<1>4. (w \in Wrong <=> q.outcome = "wrong") /\ (w \in Unanswered <=> q.outcome = "none")
  BY <1>1, Zenon DEF Wrong, Unanswered
<1>5. /\ Cardinality(Wrong \ {w}) \in Nat /\ Cardinality(Unanswered \ {w}) \in Nat
      /\ q.outcome = "wrong" => Cardinality(Wrong) = Cardinality(Wrong \ {w}) + 1
      /\ q.outcome # "wrong" => Cardinality(Wrong) = Cardinality(Wrong \ {w})
      /\ q.outcome = "none" => Cardinality(Unanswered) = Cardinality(Unanswered \ {w}) + 1
      /\ q.outcome # "none" => Cardinality(Unanswered) = Cardinality(Unanswered \ {w})
  <2>1. Wrong \in SUBSET Worker /\ Unanswered \in SUBSET Worker
    BY DEF Wrong, Unanswered
  <2>2. /\ Cardinality(Wrong \ {w}) \in Nat
        /\ w \in Wrong => Cardinality(Wrong) = Cardinality(Wrong \ {w}) + 1
        /\ w \notin Wrong => Cardinality(Wrong) = Cardinality(Wrong \ {w})
    BY <2>1, OneMoves
  <2>3. /\ Cardinality(Unanswered \ {w}) \in Nat
        /\ w \in Unanswered => Cardinality(Unanswered) = Cardinality(Unanswered \ {w}) + 1
        /\ w \notin Unanswered => Cardinality(Unanswered) = Cardinality(Unanswered \ {w})
    BY <2>1, OneMoves
  <2> QED BY <1>4, <2>2, <2>3, Zenon
<1>6. /\ stats.overall.failures \in Nat /\ stats.transErr \in Nat /\ q.outcome \in {"right", "wrong", "none"}
      /\ facts.wrong \in Nat /\ facts.unanswered \in Nat
      /\ stats.overall.failures + Cardinality(Wrong) + Cardinality(Unanswered) = facts.wrong + facts.unanswered
      /\ stats.transErr + Cardinality(Unanswered) = facts.unanswered
  BY <1>2, Zenon DEF Stats, Bucket, Returned, Facts, Accounted
<1>7. Owes(w, q)
  <2>1. CASE q.outcome = "right"
    BY <1>1, <1>5, <1>6, <2>1 DEF Owes
  <2>2. CASE q.outcome = "wrong"
    BY <1>1, <1>5, <1>6, <2>2 DEF Owes
  <2>3. CASE q.outcome = "none"
    BY <1>1, <1>5, <1>6, <2>3 DEF Owes
  <2> QED BY <1>6, <2>1, <2>2, <2>3, Zenon
<1>8. facts' \in Facts /\ facts'.answered = facts.answered
  BY <1>1, <1>2
<1> QED BY <1>1, <1>3, <1>7, <1>8, TallyKeeps, Zenon

\* The accounts of the statuses once worker w is not about to store one any more.
StatusSettled(st, w) ==
  \A c \in Code :
    LET lost == facts'.answered[c] - st.byStatus[c]
    IN  /\ st.byStatus[c] = 0 => lost = Cardinality(Storing(c) \ {w})
        /\ st.byStatus[c] > 0 => Cardinality(Storing(c) \ {w}) <= lost /\ lost < Cardinality(Worker)

\* The end of exec: a wrong answer is a failure, a right one is not.
LEMMA JudgeKeeps ==
  ASSUME StressInv, NEW w \in Worker, at[w] \in {"status", "store"}, NEW st \in Stats, Tallied(st),
         st.overall = stats.overall, st.hits = stats.hits, st.misses = stats.misses, st.transErr = stats.transErr,
         Judge(w, st), StatusSettled(st, w), facts' \in Facts, facts'.wrong = facts.wrong,
         facts'.unanswered = facts.unanswered, phase' = phase, expired' = expired, seeder' = seeder
  PROVE  StressInv'
<1> DEFINE q == query[w]
<1>1. /\ StressTypeOK /\ Accounted /\ stats \in Stats /\ q \in Returned /\ Expected(w)
  BY Zenon DEF StressInv, StressTypeOK
<1>2. at' = [at EXCEPT ![w] = "pick"] /\ query' = [query EXCEPT ![w] = None]
  BY Zenon DEF Judge
<1>3. Moves(w) /\ at'[w] = "pick"
  BY <1>1, <1>2, Zenon DEF Moves, StressTypeOK
<1>4. Expected(w)'
  BY <1>3, Zenon DEF Expected
<1>5. /\ (w \in Wrong <=> q.outcome = "wrong") /\ w \notin Wrong' /\ w \notin Unanswered /\ w \notin Unanswered'
      /\ \A c \in Code : w \notin Storing(c)'
  BY <1>3, Zenon DEF Wrong, Unanswered, Storing
<1>6. /\ Cardinality(Wrong \ {w}) \in Nat /\ Cardinality(Unanswered \ {w}) \in Nat
      /\ q.outcome = "wrong" => Cardinality(Wrong) = Cardinality(Wrong \ {w}) + 1
      /\ q.outcome # "wrong" => Cardinality(Wrong) = Cardinality(Wrong \ {w})
      /\ Cardinality(Wrong') = Cardinality(Wrong \ {w})
      /\ Cardinality(Unanswered) = Cardinality(Unanswered \ {w})
      /\ Cardinality(Unanswered') = Cardinality(Unanswered \ {w})
      /\ \A c \in Code : Cardinality(Storing(c)') = Cardinality(Storing(c) \ {w})
  BY <1>3, <1>5, SetsMove, Zenon
<1>7. q.kind \in Kind /\ q.outcome \in {"right", "wrong"} /\ (q.outcome = "right" => q.status = q.want)
  BY <1>1, Zenon DEF Returned, Expected
<1>8. /\ stats' \in Stats /\ Tallied(stats') /\ stats'.overall.count = st.overall.count
      /\ q.outcome = "wrong" => stats'.overall.failures = st.overall.failures + 1
      /\ q.outcome # "wrong" => stats'.overall.failures = st.overall.failures
      /\ stats'.hits = st.hits /\ stats'.misses = st.misses /\ stats'.transErr = st.transErr
      /\ stats'.byStatus = st.byStatus
  <2>1. CASE q.outcome = "wrong"
    <3>1. stats' = AddFailure(st, q.kind)
      BY <2>1, Zenon DEF Judge
    <3>2. /\ AddFailure(st, q.kind) \in Stats /\ Tallied(AddFailure(st, q.kind))
          /\ AddFailure(st, q.kind).overall.count = st.overall.count
          /\ AddFailure(st, q.kind).overall.failures = st.overall.failures + 1
          /\ AddFailure(st, q.kind).hits = st.hits /\ AddFailure(st, q.kind).misses = st.misses
          /\ AddFailure(st, q.kind).transErr = st.transErr /\ AddFailure(st, q.kind).byStatus = st.byStatus
      BY <1>7, AddFailureKeeps, Zenon
    <3> QED BY <2>1, <3>1, <3>2, Zenon
  <2>2. CASE q.outcome = "right"
    <3>1. stats' = st
      BY <1>7, <2>2, Zenon DEF Judge
    <3> QED BY <2>2, <3>1, Zenon
  <2> QED BY <1>7, <2>1, <2>2, Zenon
<1>9. /\ stats.overall.failures \in Nat /\ stats.transErr \in Nat
      /\ stats.hits + stats.misses + stats.transErr = stats.overall.count
      /\ stats.overall.failures + Cardinality(Wrong) + Cardinality(Unanswered) = facts.wrong + facts.unanswered
      /\ stats.transErr + Cardinality(Unanswered) = facts.unanswered
  BY <1>1, Zenon DEF Accounted, Stats, Bucket
<1>10. stats'.overall.failures + Cardinality(Wrong') + Cardinality(Unanswered') = facts'.wrong + facts'.unanswered
  <2>1. CASE q.outcome = "wrong"
    BY <1>6, <1>8, <1>9, <2>1
  <2>2. CASE q.outcome # "wrong"
    BY <1>6, <1>8, <1>9, <2>2, Zenon
  <2> QED BY <2>1, <2>2, Zenon
<1>11. Accounted'
  BY <1>6, <1>8, <1>9, <1>10, Zenon DEF Accounted
<1>12. \A c \in Code : StatusInv(c)'
  BY <1>6, <1>8, Zenon DEF StatusInv, StatusSettled
<1> QED BY <1>3, <1>4, <1>8, <1>11, <1>12, WorkerKeeps, Zenon DEF Facts

\* recordStatus's Load, and Add when there is a counter.
LEMMA CountStatusKeeps ==
  ASSUME StressInv, NEW w \in Worker, CountStatus(w), seeder' = seeder
  PROVE  StressInv'
<1> DEFINE q == query[w]
<1>0. PICK c : c = q.status
  OBVIOUS
<1>1. /\ at[w] = "status" /\ facts' = [facts EXCEPT !.answered[c] = @ + 1] /\ phase' = phase /\ expired' = expired
  BY <1>0 DEF CountStatus
<1>2. /\ StressTypeOK /\ Tallied(stats) /\ Accounted /\ \A d \in Code : StatusInv(d)
      /\ stats \in Stats /\ facts \in Facts /\ q \in Returned /\ Expected(w) /\ c \in Code
  BY <1>0, <1>1 DEF StressInv, StressTypeOK, Facts, Expected
<1>3. /\ facts' \in Facts /\ facts'.wrong = facts.wrong /\ facts'.unanswered = facts.unanswered
      /\ facts'.answered[c] = facts.answered[c] + 1
      /\ \A d \in Code \ {c} : facts'.answered[d] = facts.answered[d]
  BY <1>1, <1>2 DEF Facts
<1>4. /\ stats.byStatus \in [Code -> Nat] /\ facts.answered \in [Code -> Nat] /\ stats.byStatus[c] \in Nat
      /\ facts.answered[c] \in Nat
  BY <1>2 DEF Stats, Facts
<1>5. \A d \in Code : w \notin Storing(d)
  BY <1>1, Zenon DEF Storing
<1>6. CASE stats.byStatus[c] > 0
  <2> DEFINE st == WithStatus(stats, c, stats.byStatus[c] + 1)
  <2>1. Judge(w, st)
    BY <1>0, <1>6, Zenon DEF CountStatus, WithStatus
  <2> HIDE DEF st
  <2>2. stats.byStatus[c] + 1 \in Nat
    BY <1>4
  <2>3. /\ st \in Stats /\ Tallied(st) /\ st.overall = stats.overall /\ st.hits = stats.hits
        /\ st.misses = stats.misses /\ st.transErr = stats.transErr
        /\ st.byStatus[c] = stats.byStatus[c] + 1
        /\ \A d \in Code \ {c} : st.byStatus[d] = stats.byStatus[d]
    BY <1>2, <2>2, WithStatusKeeps, ZenonT(30) DEF st
  <2>4. StatusSettled(st, w)
    <3> SUFFICES ASSUME NEW d \in Code
                 PROVE  /\ st.byStatus[d] = 0 => facts'.answered[d] - st.byStatus[d] = Cardinality(Storing(d) \ {w})
                        /\ st.byStatus[d] > 0 => /\ Cardinality(Storing(d) \ {w}) <= facts'.answered[d] - st.byStatus[d]
                                                 /\ facts'.answered[d] - st.byStatus[d] < Cardinality(Worker)
      BY Zenon DEF StatusSettled
    <3>1. Cardinality(Storing(d) \ {w}) = Cardinality(Storing(d)) /\ StatusInv(d)
      <4>1. Storing(d) \ {w} = Storing(d)
        BY <1>5
      <4> QED BY <1>2, <4>1
    <3>2. facts'.answered[d] - st.byStatus[d] = facts.answered[d] - stats.byStatus[d]
      BY <1>3, <1>4, <2>3
    <3>3. st.byStatus[d] = stats.byStatus[d] \/ (st.byStatus[d] > 0 /\ stats.byStatus[d] > 0)
      BY <1>4, <1>6, <2>3
    <3> QED BY <1>4, <3>1, <3>2, <3>3 DEF StatusInv
  <2> QED BY <1>1, <1>3, <2>1, <2>3, <2>4, JudgeKeeps
<1>7. CASE ~(stats.byStatus[c] > 0)
  <2>1. at' = [at EXCEPT ![w] = "store"] /\ stats' = stats /\ query' = query
    BY <1>0, <1>7 DEF CountStatus
  <2>2. Moves(w) /\ at'[w] = "store" /\ query'[w] = q
    BY <1>2, <2>1 DEF Moves, StressTypeOK
  <2>3. Expected(w)'
    BY <1>1, <1>2, <2>2 DEF Expected
  <2>4. /\ (w \in Wrong <=> w \in Wrong') /\ w \notin Unanswered /\ w \notin Unanswered' /\ w \in Storing(c)'
        /\ \A d \in Code \ {c} : w \notin Storing(d)'
    BY <1>0, <1>1, <2>2, Zenon DEF Wrong, Unanswered, Storing
  <2>5. /\ Cardinality(Wrong') = Cardinality(Wrong) /\ Cardinality(Unanswered') = Cardinality(Unanswered)
        /\ \A d \in Code \ {c} : Cardinality(Storing(d)') = Cardinality(Storing(d))
    <3>1. Cardinality(Wrong') = Cardinality(Wrong)
      <4>1. /\ w \in Wrong => Cardinality(Wrong) = Cardinality(Wrong \ {w}) + 1
            /\ w \notin Wrong => Cardinality(Wrong) = Cardinality(Wrong \ {w})
            /\ w \in Wrong' => Cardinality(Wrong') = Cardinality(Wrong \ {w}) + 1
            /\ w \notin Wrong' => Cardinality(Wrong') = Cardinality(Wrong \ {w})
        BY <2>2, SetsMove, Zenon
      <4> QED BY <2>4, <4>1
    <3>2. Cardinality(Unanswered') = Cardinality(Unanswered)
      BY <2>2, <2>4, SetsMove, Zenon
    <3>3. ASSUME NEW d \in Code \ {c} PROVE Cardinality(Storing(d)') = Cardinality(Storing(d))
      BY <1>5, <2>2, <2>4, SetsMove, ZenonT(30)
    <3> QED BY <3>1, <3>2, <3>3
  <2>6. Cardinality(Storing(c)) \in Nat /\ Cardinality(Storing(c)') = Cardinality(Storing(c)) + 1
    BY <1>2, <1>5, <2>2, <2>4, SetsMove, ZenonT(30)
  <2>7. Accounted'
    BY <1>2, <1>3, <2>1, <2>5, Zenon DEF Accounted
  <2>8. ASSUME NEW d \in Code PROVE StatusInv(d)'
    <3>1. CASE d = c
      <4>1. stats.byStatus[c] = 0 /\ facts.answered[c] - 0 = Cardinality(Storing(c))
        BY <1>2, <1>4, <1>7 DEF StatusInv
      <4>2. stats'.byStatus[c] = 0 /\ facts'.answered[c] - 0 = Cardinality(Storing(c)')
        BY <1>3, <1>4, <2>1, <2>6, <4>1
      <4> QED BY <3>1, <4>2 DEF StatusInv
    <3>2. CASE d # c
      <4>1. stats'.byStatus[d] = stats.byStatus[d] /\ facts'.answered[d] = facts.answered[d] /\ StatusInv(d)
        BY <1>2, <1>3, <2>1, <3>2, Zenon
      <4>2. Cardinality(Storing(d)') = Cardinality(Storing(d))
        BY <2>5, <3>2
      <4> QED BY <4>1, <4>2, Zenon DEF StatusInv
    <3> QED BY <3>1, <3>2
  <2>9. stats' \in Stats /\ Tallied(stats')
    BY <1>2, <2>1
  <2> QED BY <1>1, <1>2, <1>3, <2>2, <2>3, <2>7, <2>8, <2>9, WorkerKeeps DEF Facts
<1> QED BY <1>6, <1>7

\* recordStatus's LoadOrStore.
LEMMA StoreStatusKeeps ==
  ASSUME StressInv, NEW w \in Worker, StoreStatus(w), seeder' = seeder
  PROVE  StressInv'
<1> DEFINE q == query[w]
           c == q.status
           x == IF stats.byStatus[c] = 0 THEN 1 ELSE stats.byStatus[c]
           st == WithStatus(stats, c, x)
<1>1. /\ at[w] = "store" /\ facts' = facts /\ phase' = phase /\ expired' = expired /\ Judge(w, st)
  BY DEF StoreStatus, WithStatus
<1>2. /\ StressTypeOK /\ Tallied(stats) /\ \A d \in Code : StatusInv(d)
      /\ stats \in Stats /\ facts \in Facts /\ c \in Code
  BY <1>1, Zenon DEF StressInv, StressTypeOK, Facts, Expected
<1>3. /\ stats.byStatus \in [Code -> Nat] /\ facts.answered \in [Code -> Nat]
  BY <1>2 DEF Stats, Facts
<1>4. x \in Nat /\ x > 0 /\ (stats.byStatus[c] = 0 => x = 1) /\ (stats.byStatus[c] > 0 => x = stats.byStatus[c])
  BY <1>2, <1>3
<1> HIDE DEF x, st
<1>5. /\ st \in Stats /\ Tallied(st) /\ st.overall = stats.overall /\ st.hits = stats.hits
      /\ st.misses = stats.misses /\ st.transErr = stats.transErr
      /\ st.byStatus[c] = x /\ \A d \in Code \ {c} : st.byStatus[d] = stats.byStatus[d]
  BY <1>2, <1>4, WithStatusKeeps, ZenonT(30) DEF st
<1>6. StatusSettled(st, w)
  <2> SUFFICES ASSUME NEW d \in Code
               PROVE  /\ st.byStatus[d] = 0 => facts'.answered[d] - st.byStatus[d] = Cardinality(Storing(d) \ {w})
                      /\ st.byStatus[d] > 0 => /\ Cardinality(Storing(d) \ {w}) <= facts'.answered[d] - st.byStatus[d]
                                               /\ facts'.answered[d] - st.byStatus[d] < Cardinality(Worker)
    BY Zenon DEF StatusSettled
  <2>1. StatusInv(d) /\ facts'.answered[d] = facts.answered[d]
    BY <1>1, <1>2, Zenon
  <2>2. Storing(d) \in SUBSET Worker
    BY DEF Storing
  <2>3. /\ Cardinality(Storing(d)) \in Nat /\ Cardinality(Worker) \in Nat
        /\ Cardinality(Storing(d)) <= Cardinality(Worker)
    BY <2>2, StressAssumption, FS_Subset, FS_CardinalityType, Zenon
  <2>4. CASE d = c
    <3>1. w \in Storing(d)
      BY <1>1, <2>4, Zenon DEF Storing
    <3>2. Cardinality(Storing(d) \ {w}) \in Nat /\ Cardinality(Storing(d)) = Cardinality(Storing(d) \ {w}) + 1
      BY <2>2, <3>1, OneMoves
    <3>3. st.byStatus[d] = x /\ stats.byStatus[d] \in Nat /\ facts.answered[d] \in Nat
      BY <1>3, <1>5, <2>4, ZenonT(30)
    <3>4. CASE stats.byStatus[d] = 0
      <4>1. x = 1 /\ facts.answered[d] - 0 = Cardinality(Storing(d))
        BY <1>4, <2>1, <2>4, <3>4, ZenonT(30) DEF StatusInv
      <4> QED BY <2>1, <2>3, <3>2, <3>3, <4>1
    <3>5. CASE stats.byStatus[d] > 0
      <4>1. /\ x = stats.byStatus[d] /\ Cardinality(Storing(d)) <= facts.answered[d] - stats.byStatus[d]
            /\ facts.answered[d] - stats.byStatus[d] < Cardinality(Worker)
        BY <1>4, <2>1, <2>4, <3>5, Zenon DEF StatusInv
      <4> QED BY <2>1, <2>3, <3>2, <3>3, <3>5, <4>1
    <3> QED BY <3>3, <3>4, <3>5
  <2>5. CASE d # c
    <3>1. Storing(d) \ {w} = Storing(d)
      BY <2>5, Zenon DEF Storing
    <3>2. st.byStatus[d] = stats.byStatus[d]
      BY <1>5, <2>5, Zenon
    <3> QED BY <2>1, <3>1, <3>2, Zenon DEF StatusInv
  <2> QED BY <2>4, <2>5, Zenon
<1>7. facts' \in Facts /\ facts'.wrong = facts.wrong /\ facts'.unanswered = facts.unanswered
  BY <1>1, <1>2, Zenon
<1> QED BY <1>1, <1>5, <1>6, <1>7, JudgeKeeps, Zenon

----------------------------------------------------------------------------

\* A run begins with counters at zero and nothing that happened.
LEMMA StartRunKeeps ==
  ASSUME StressTypeOK, NEW next \in {"warmup", "measure"}, StartRun(next), seeder'.pc = "complete"
  PROVE  StressInv'
<1>1. /\ phase' = next /\ expired' = FALSE /\ at' = [w \in Worker |-> "pick"] /\ stats' = NewStats
      /\ facts' = NewFacts /\ query' = query /\ DOMAIN query = Worker
  BY DEF StartRun, StressTypeOK
<1>2. NewStats \in Stats /\ NewFacts \in Facts
  BY Zenon DEF NewStats, Stats, NewBucket, Bucket, NewFacts, Facts
<1>3. StressTypeOK'
  BY <1>1, <1>2, Zenon DEF StressTypeOK, Facts
<1>4. Wrong' = {} /\ Unanswered' = {} /\ \A c \in Code : Storing(c)' = {}
  BY <1>1, Zenon DEF Wrong, Unanswered, Storing
<1>5. Cardinality(Wrong') = 0 /\ Cardinality(Unanswered') = 0 /\ \A c \in Code : Cardinality(Storing(c)') = 0
  BY <1>4, FS_EmptySet
<1>6. /\ stats'.overall.count = 0 /\ stats'.overall.failures = 0 /\ stats'.hits = 0 /\ stats'.misses = 0
      /\ stats'.transErr = 0 /\ stats'.mismatches = 0 /\ \A c \in Code : stats'.byStatus[c] = 0
      /\ facts'.wrong = 0 /\ facts'.unanswered = 0 /\ \A c \in Code : facts'.answered[c] = 0
      /\ \A k \in Kind : stats'.byKind[k].count = 0 /\ stats'.byKind[k].failures = 0
  BY <1>1, Zenon DEF NewStats, NewFacts, NewBucket
<1>7. Tallied(stats')
  <2>1. DOMAIN Counts(stats') = Kind /\ \A k \in Kind : Counts(stats')[k] = 0
    BY <1>6, Zenon DEF Counts
  <2>2. DOMAIN Failures(stats') = Kind /\ \A k \in Kind : Failures(stats')[k] = 0
    BY <1>6 DEF Failures
  <2>3. SumFunction(Counts(stats')) = 0
    BY <2>1, KindsFinite, SumZero DEF SumFunction
  <2>4. SumFunction(Failures(stats')) = 0
    BY <2>2, KindsFinite, SumZero DEF SumFunction
  <2> QED BY <1>6, <2>3, <2>4, StressAssumption DEF Tallied
<1>8. Tallied(stats)'
  BY <1>7, Zenon DEF Tallied, Counts, Failures
<1>9. Accounted' /\ \A c \in Code : StatusInv(c)'
  BY <1>5, <1>6 DEF Accounted, StatusInv
<1>10. \A w \in Worker : Expected(w)'
  BY <1>1, Zenon DEF Expected
<1> QED BY <1>1, <1>3, <1>8, <1>9, <1>10 DEF StressInv

\* At first no worker runs and nothing is counted.
LEMMA StressInitInv == ASSUME StressInit PROVE StressInv
<1>1. /\ phase = "idle" /\ expired = FALSE /\ at = [w \in Worker |-> "done"] /\ stats = NewStats
      /\ facts = NewFacts /\ DOMAIN query = Worker
  BY DEF StressInit
<1>2. NewStats \in Stats /\ NewFacts \in Facts
  BY Zenon DEF NewStats, Stats, NewBucket, Bucket, NewFacts, Facts
<1>3. StressTypeOK
  BY <1>1, <1>2, Zenon DEF StressTypeOK, Facts
<1>4. Wrong = {} /\ Unanswered = {} /\ \A c \in Code : Storing(c) = {}
  BY <1>1 DEF Wrong, Unanswered, Storing
<1>5. Cardinality(Wrong) = 0 /\ Cardinality(Unanswered) = 0 /\ \A c \in Code : Cardinality(Storing(c)) = 0
  BY <1>4, FS_EmptySet
<1>6. /\ stats.overall.count = 0 /\ stats.overall.failures = 0 /\ stats.hits = 0 /\ stats.misses = 0
      /\ stats.transErr = 0 /\ stats.mismatches = 0 /\ \A c \in Code : stats.byStatus[c] = 0
      /\ facts.wrong = 0 /\ facts.unanswered = 0 /\ \A c \in Code : facts.answered[c] = 0
      /\ \A k \in Kind : stats.byKind[k].count = 0 /\ stats.byKind[k].failures = 0
  BY <1>1, Zenon DEF NewStats, NewFacts, NewBucket
<1>7. Tallied(stats)
  <2>1. DOMAIN Counts(stats) = Kind /\ \A k \in Kind : Counts(stats)[k] = 0
    BY <1>6 DEF Counts
  <2>2. DOMAIN Failures(stats) = Kind /\ \A k \in Kind : Failures(stats)[k] = 0
    BY <1>6 DEF Failures
  <2>3. SumFunction(Counts(stats)) = 0
    BY <2>1, KindsFinite, SumZero DEF SumFunction
  <2>4. SumFunction(Failures(stats)) = 0
    BY <2>2, KindsFinite, SumZero DEF SumFunction
  <2> QED BY <1>6, <2>3, <2>4, StressAssumption DEF Tallied
<1>8. Accounted /\ \A c \in Code : StatusInv(c)
  BY <1>5, <1>6 DEF Accounted, StatusInv
<1>9. (\A w \in Worker : Expected(w)) /\ Idle
  BY <1>1 DEF Expected, Idle
<1> QED BY <1>1, <1>3, <1>7, <1>8, <1>9 DEF StressInv

\* The report, and the end of the run's context, leave the counters as they are.
LEMMA SameCounters ==
  ASSUME StressInv, at' = at, query' = query, stats' = stats, facts' = facts,
         phase' \in {"idle", "warmup", "measure", "reported"}, expired' \in BOOLEAN,
         phase' \in {"idle", "reported"} => Idle, phase' # "idle" => seeder'.pc = "complete"
  PROVE  StressInv'
<1>1. StressTypeOK'
  BY DEF StressInv, StressTypeOK
<1>2. \A w \in Worker : Expected(w)'
  BY Zenon DEF StressInv, Expected
<1>3. Tallied(stats)' /\ Accounted'
  BY Zenon DEF StressInv, Tallied, Counts, Failures, Accounted, Wrong, Unanswered
<1>4. \A c \in Code : StatusInv(c)'
  BY Zenon DEF StressInv, StatusInv, Storing
<1>5. Idle => Idle'
  BY DEF Idle
<1> QED BY <1>1, <1>2, <1>3, <1>4, <1>5 DEF StressInv

\* Every step of gordap-stress.
LEMMA StressNextKeeps ==
  ASSUME SeedTypeOK, SeedsWhole, StressInv, StressNext, UNCHANGED seedVars
  PROVE  StressInv'
<1>0. seeder' = seeder
  BY DEF seedVars
<1>1. CASE EndWarmup
  <2>1. StressTypeOK /\ StartRun("measure") /\ seeder'.pc = "complete" /\ "measure" \in {"warmup", "measure"}
    BY <1>0, <1>1 DEF EndWarmup, StressInv
  <2> QED BY <2>1, StartRunKeeps
<1>2. CASE Report
  <2>1. /\ phase = "measure" /\ Idle /\ phase' = "reported" /\ expired' = expired /\ at' = at /\ query' = query
        /\ stats' = stats /\ facts' = facts /\ seeder'.pc = "complete" /\ expired' \in BOOLEAN
    BY <1>0, <1>2, Zenon DEF Report, StressInv, StressTypeOK
  <2> QED BY <2>1, SameCounters
<1>3. CASE Expire
  <2>1. /\ phase' = phase /\ phase \in {"warmup", "measure"} /\ expired' = TRUE /\ at' = at /\ query' = query
        /\ stats' = stats /\ facts' = facts /\ seeder'.pc = "complete"
    BY <1>0, <1>3 DEF Expire, StressInv
  <2> QED BY <2>1, SameCounters
<1>4. ASSUME NEW w \in Worker, WorkerStep(w) \/ Answer(w) \/ Misanswer(w) \/ TimeOut(w) PROVE StressInv'
  BY <1>0, <1>4, PickKeeps, LeaveKeeps, MakeBucketKeeps, CountStatusKeeps, StoreStatusKeeps, AnswerKeeps,
     MisanswerKeeps, TimeOutKeeps DEF WorkerStep
<1> QED BY <1>1, <1>2, <1>3, <1>4 DEF StressNext

\* The invariant and the properties of the report.
LEMMA StressInvMeans == ASSUME StressInv PROVE ReportAddsUp /\ NoFalseAlarms /\ StatusLossBounded
<1> SUFFICES ASSUME phase = "reported" PROVE ReportAddsUp /\ NoFalseAlarms /\ StatusLossBounded
  BY Zenon DEF ReportAddsUp, NoFalseAlarms, StatusLossBounded, Reported
<1>1. /\ stats \in Stats /\ facts \in Facts /\ Tallied(stats) /\ Accounted /\ Idle
      /\ \A c \in Code : StatusInv(c)
  BY DEF StressInv, StressTypeOK, Facts
<1>2. Wrong = {} /\ Unanswered = {} /\ \A c \in Code : Storing(c) = {}
  BY <1>1, Zenon DEF Idle, Wrong, Unanswered, Storing
<1>3. Cardinality(Wrong) = 0 /\ Cardinality(Unanswered) = 0 /\ \A c \in Code : Cardinality(Storing(c)) = 0
  BY <1>2, FS_EmptySet
<1>4. NoFalseAlarms
  BY <1>1, <1>3 DEF NoFalseAlarms, Accounted, Stats, Bucket, Facts
<1>5. StatusLossBounded
  <2> SUFFICES ASSUME NEW c \in Code
               PROVE  /\ facts.answered[c] - stats.byStatus[c] >= 0
                      /\ facts.answered[c] - stats.byStatus[c] < Cardinality(Worker)
                      /\ facts.answered[c] > 0 => stats.byStatus[c] > 0
    BY DEF StatusLossBounded
  <2>1. facts.answered[c] \in Nat /\ stats.byStatus[c] \in Nat
    BY <1>1 DEF Stats, Facts
  <2>2. Cardinality(Worker) \in Nat /\ Cardinality(Worker) > 0
    <3>1. PICK w : w \in Worker
      BY StressAssumption
    <3> QED BY <3>1, StressAssumption, OneLess, Zenon
  <2>3. StatusInv(c) /\ Cardinality(Storing(c)) = 0
    BY <1>1, <1>3
  <2> QED BY <2>1, <2>2, <2>3 DEF StatusInv
<1>6. ReportAddsUp
  BY <1>1 DEF ReportAddsUp, Tallied, Counts, Failures, Accounted
<1> QED BY <1>4, <1>5, <1>6
----------------------------------------------------------------------------
(***************************************************************************)
(* gordap-seed: SeedInv.                                                   *)
(***************************************************************************)

\* The quotient by the size of a batch.
LEMMA Quotient ==
  ASSUME NEW a \in Nat, NEW b \in Nat \ {0}
  PROVE  /\ a \div b \in Nat /\ b * (a \div b) <= a /\ a < b * (a \div b) + b
OBVIOUS

\* Products grow with a factor.
LEMMA ProductGrows ==
  ASSUME NEW b \in Nat, NEW x \in Nat, NEW y \in Nat, x <= y
  PROVE  b * x <= b * y
OBVIOUS

BatchType == [table : Table, rows : SUBSET Int]

\* The calls of flush that one seed function makes for rows R of t, no row twice.
Section(s, t, R) ==
  /\ s \in Seq(BatchType)
  /\ \A k \in 1..Len(s) : s[k].table = t
  /\ \A j, k \in 1..Len(s) : j # k => s[j].rows \cap s[k].rows = {}
  /\ \A i : i \in R <=> \E k \in 1..Len(s) : i \in s[k].rows

\* Full batches and the rest of them are just the n rows.
LEMMA BatchesAre ==
  ASSUME NEW t \in Table, NEW n \in Nat
  PROVE  Section(Batches(t, n), t, 0..(n - 1))
<1> DEFINE s == Batches(t, n)
           m == (n + Batch - 1) \div Batch
           R(b) == {i \in 0..(n - 1) : i \div Batch = b - 1}
<1>0. Batch \in Nat \ {0}
  BY SeedAssumption, Zenon
<1>1. m \in Nat /\ n <= Batch * m
  <2>1. n + Batch - 1 \in Nat
    BY <1>0
  <2>2. m \in Nat /\ n + Batch - 1 < Batch * m + Batch
    BY <1>0, <2>1, Quotient, Zenon
  <2>3. Batch * m \in Nat
    BY <1>0, <2>2
  <2> HIDE DEF m
  <2> QED BY <1>0, <2>2, <2>3
<1> HIDE DEF m
<1>2. /\ \A b \in 1..m : R(b) \in SUBSET Int
      /\ s = [b \in 1..m |-> [table |-> t, rows |-> R(b)]]
  BY DEF Batches, m
<1>3. s \in Seq(BatchType) /\ Len(s) = m
  BY <1>1, <1>2 DEF BatchType
<1>4. \A k \in 1..m : s[k].table = t /\ s[k].rows = R(k)
  BY <1>2
<1>5. \A j, k \in 1..m : j # k => R(j) \cap R(k) = {}
  BY <1>1
<1>6. ASSUME NEW i \in 0..(n - 1) PROVE \E k \in 1..m : i \in R(k)
  <2>1. i \in Nat /\ i \div Batch \in Nat /\ Batch * (i \div Batch) <= i
    BY <1>0, Quotient
  <2> DEFINE d == i \div Batch
  <2>2. d < m
    <3> SUFFICES ASSUME m <= d PROVE FALSE
      BY <1>1, <2>1
    <3>1. Batch * m <= Batch * d
      BY <1>0, <1>1, <2>1, ProductGrows, Zenon
    <3>2. Batch * m \in Nat /\ Batch * d \in Nat
      BY <1>0, <1>1, <2>1
    <3> HIDE DEF d
    <3> QED BY <1>1, <2>1, <3>1, <3>2 DEF d
  <2>3. d + 1 \in 1..m /\ i \in R(d + 1)
    BY <1>1, <2>1, <2>2
  <2> QED BY <2>3, Zenon
<1> HIDE DEF s
<1>7. \A i : i \in 0..(n - 1) <=> \E k \in 1..m : i \in R(k)
  BY <1>6, Zenon
<1> HIDE DEF R
<1> QED BY <1>3, <1>4, <1>5, <1>7 DEF Section, s

\* A plan that puts rows C in the tables: no row twice in a table, and every row after the
\* ones it refers to.
Sound(P, C) ==
  /\ P \in Seq(BatchType)
  /\ \A j, k \in 1..Len(P) : j < k /\ P[j].table = P[k].table => P[j].rows \cap P[k].rows = {}
  /\ \A k \in 1..Len(P) : \A i \in P[k].rows : \A ref \in References(P[k].table, i) :
       \E j \in 1..(k - 1) : P[j].table = ref[1] /\ ref[2] \in P[j].rows
  /\ \A t \in Table : \A i : i \in C[t] <=> \E k \in 1..Len(P) : P[k].table = t /\ i \in P[k].rows

\* A sound plan goes on with a seed function for new rows R of t that refer to rows it has.
LEMMA SoundExtends ==
  ASSUME NEW P, NEW C, NEW D, Sound(P, C), NEW t \in Table, NEW s, NEW R, Section(s, t, R),
         \A i \in R : i \notin C[t],
         \A i \in R : \A ref \in References(t, i) : ref[1] \in Table /\ ref[2] \in C[ref[1]],
         \A u \in Table : \A i : i \in D[u] <=> i \in C[u] \/ (u = t /\ i \in R)
  PROVE  Sound(P \o s, D)
<1> DEFINE Q == P \o s
           p == Len(P)
<1>1. /\ P \in Seq(BatchType) /\ s \in Seq(BatchType) /\ p \in Nat /\ Len(s) \in Nat
  BY DEF Sound, Section
<1>2. /\ Q \in Seq(BatchType) /\ Len(Q) = p + Len(s)
      /\ \A k \in 1..Len(Q) : (k <= p => Q[k] = P[k]) /\ (k > p => Q[k] = s[k - p])
  <2>1. /\ Q \in Seq(BatchType) /\ Len(Q) = Len(P) + Len(s)
        /\ \A k \in 1..(Len(P) + Len(s)) : Q[k] = IF k <= Len(P) THEN P[k] ELSE s[k - Len(P)]
    <3>1. P \in Seq(BatchType) /\ s \in Seq(BatchType)
      BY <1>1, Zenon
    <3> QED BY <3>1, Concatenation
  <2> HIDE DEF Q
  <2>2. \A k \in 1..Len(Q) : k <= p => Q[k] = P[k]
    BY <1>1, <2>1, Zenon
  <2>3. \A k \in 1..Len(Q) : k > p => Q[k] = s[k - p]
    BY <1>1, <2>1
  <2> QED BY <1>1, <2>1, <2>2, <2>3, ZenonT(30)
<1> HIDE DEF Q
<1>3. \A k \in 1..p : k \in 1..Len(Q) /\ Q[k] = P[k]
  BY <1>1, <1>2
<1>4. ASSUME NEW k \in 1..Len(s) PROVE p + k \in 1..Len(Q) /\ Q[p + k] = s[k]
  <2>1. p + k \in 1..Len(Q) /\ p + k > p /\ (p + k) - p = k
    BY <1>1, <1>2
  <2>2. Q[p + k] = s[(p + k) - p]
    BY <1>2, <2>1, Zenon
  <2> QED BY <2>1, <2>2, Zenon
<1>5. ASSUME NEW k \in 1..Len(Q)
      PROVE  k \in 1..p \/ (k > p /\ k - p \in 1..Len(s) /\ Q[k] = s[k - p])
  BY <1>1, <1>2
<1>6. ASSUME NEW k \in 1..Len(s), NEW i \in s[k].rows
      PROVE  i \in R
  BY Zenon DEF Section
<1>7. \A k \in 1..Len(s) : s[k].table = t
  BY Zenon DEF Section
<1>8. ASSUME NEW j \in 1..p, NEW i \in P[j].rows
      PROVE  P[j].table \in Table /\ i \in C[P[j].table]
  <2>1. P[j] \in BatchType
    BY <1>1
  <2> QED BY <2>1, Zenon DEF Sound, BatchType
<1>9. ASSUME NEW j \in 1..Len(Q), NEW k \in 1..Len(Q), j < k, Q[j].table = Q[k].table,
             NEW i, i \in Q[j].rows, i \in Q[k].rows
      PROVE  FALSE
  <2>1. CASE k \in 1..p
    <3>1. j \in 1..p
      BY <1>1, <1>9, <2>1
    <3> QED BY <1>3, <1>9, <2>1, <3>1 DEF Sound
  <2>2. CASE k > p /\ k - p \in 1..Len(s) /\ Q[k] = s[k - p]
    <3>1. i \in R /\ Q[k].table = t
      BY <1>6, <1>7, <1>9, <2>2, ZenonT(30)
    <3>2. CASE j \in 1..p
      BY <1>3, <1>8, <1>9, <3>1, <3>2
    <3>3. CASE j > p /\ j - p \in 1..Len(s) /\ Q[j] = s[j - p]
      <4>1. j - p # k - p
        BY <1>1, <1>9
      <4> QED BY <1>9, <2>2, <3>3, <4>1, Zenon DEF Section
    <3> QED BY <1>5, <3>2, <3>3, Zenon
  <2> QED BY <1>5, <2>1, <2>2, Zenon
<1>10. ASSUME NEW k \in 1..Len(Q), NEW i \in Q[k].rows, NEW ref \in References(Q[k].table, i)
       PROVE  \E j \in 1..(k - 1) : Q[j].table = ref[1] /\ ref[2] \in Q[j].rows
  <2>1. CASE k \in 1..p
    <3>1. PICK j \in 1..(k - 1) : P[j].table = ref[1] /\ ref[2] \in P[j].rows
      BY <1>3, <2>1, Zenon DEF Sound
    <3>2. j \in 1..p
      BY <1>1, <2>1
    <3> QED BY <1>3, <3>1, <3>2
  <2>2. CASE k > p /\ k - p \in 1..Len(s) /\ Q[k] = s[k - p]
    <3>1. i \in R /\ Q[k].table = t
      BY <1>6, <1>7, <2>2, Zenon
    <3>2. ref[1] \in Table /\ ref[2] \in C[ref[1]]
      BY <3>1, Zenon
    <3>3. PICK j \in 1..p : P[j].table = ref[1] /\ ref[2] \in P[j].rows
      BY <3>2 DEF Sound
    <3>4. j \in 1..(k - 1)
      BY <1>1, <2>2
    <3> QED BY <1>3, <3>3, <3>4, Zenon
  <2> QED BY <1>5, <2>1, <2>2, ZenonT(30)
<1>11. ASSUME NEW u \in Table, NEW i
       PROVE  i \in D[u] <=> \E k \in 1..Len(Q) : Q[k].table = u /\ i \in Q[k].rows
  <2>1. ASSUME i \in C[u] PROVE \E k \in 1..Len(Q) : Q[k].table = u /\ i \in Q[k].rows
    <3>1. PICK k \in 1..p : P[k].table = u /\ i \in P[k].rows
      BY <2>1, Zenon DEF Sound
    <3> QED BY <1>3, <3>1, Zenon
  <2>2. ASSUME u = t, i \in R PROVE \E k \in 1..Len(Q) : Q[k].table = u /\ i \in Q[k].rows
    <3>1. PICK k \in 1..Len(s) : i \in s[k].rows
      BY <2>2, Zenon DEF Section
    <3> QED BY <1>4, <1>7, <2>2, <3>1
  <2>3. ASSUME NEW k \in 1..Len(Q), Q[k].table = u, i \in Q[k].rows
        PROVE  i \in C[u] \/ (u = t /\ i \in R)
    <3>1. CASE k \in 1..p
      BY <1>3, <1>8, <2>3, <3>1, ZenonT(30)
    <3>2. CASE k > p /\ k - p \in 1..Len(s) /\ Q[k] = s[k - p]
      BY <1>6, <1>7, <2>3, <3>2
    <3> QED BY <1>5, <3>1, <3>2, Zenon
  <2> QED BY <2>1, <2>2, <2>3, Zenon
<1>12. \A j, k \in 1..Len(Q) : j < k /\ Q[j].table = Q[k].table => Q[j].rows \cap Q[k].rows = {}
  BY <1>9, Zenon
<1> QED BY <1>2, <1>10, <1>11, <1>12, Zenon DEF Sound, Q

\* What is added to a plan leaves its first batch first.
LEMMA FirstStays ==
  ASSUME NEW P \in Seq(BatchType), NEW s \in Seq(BatchType), Len(P) > 0
  PROVE  Len(P \o s) > 0 /\ (P \o s)[1] = P[1]
<1>1. /\ Len(P \o s) = Len(P) + Len(s)
      /\ \A k \in 1..(Len(P) + Len(s)) : (P \o s)[k] = IF k <= Len(P) THEN P[k] ELSE s[k - Len(P)]
  BY Concatenation, Zenon
<1>2. Len(P) \in Nat /\ Len(s) \in Nat
  OBVIOUS
<1> QED BY <1>1, <1>2

\* The corpus of size n, table by table.
Corpus(n) ==
  [t \in Table |-> IF t = "nameservers" THEN 0..((n + 9) \div 10 - 1)
                   ELSE IF t = "domains" THEN (-Fixtures)..(n - 1) ELSE 0..(n - 1)]

\* main's order of the seed functions is one that the keys of the schema allow, and puts in
\* the corpus; the first row of all is entity 0.
LEMMA PlanSound ==
  ASSUME NEW n \in Nat \ {0}
  PROVE  /\ Sound(Plan(n), Corpus(n)) /\ Len(Plan(n)) \in Nat \ {0}
         /\ Plan(n)[1].table = "entities" /\ 0 \in Plan(n)[1].rows
<1> DEFINE ns == 0..((n + 9) \div 10 - 1)
           all == 0..(n - 1)
           idn == (-Fixtures)..(-1)
           Full(t) == IF t = "nameservers" THEN ns ELSE all
           Has(S) == [t \in Table |-> IF t \in S THEN Full(t) ELSE {}]
           C1 == Has({"entities"})
           C2 == Has({"entities", "nameservers"})
           C3 == Has({"entities", "nameservers", "entity_emails"})
           C4 == Has({"entities", "nameservers", "entity_emails", "entity_phones"})
           C5 == Has(Table \ {"domain_nameservers", "domain_contacts"})
           C6 == [t \in Table |-> IF t = "domains" THEN (-Fixtures)..(n - 1) ELSE C5[t]]
           C7 == [t \in Table |-> IF t = "domain_nameservers" THEN all ELSE C6[t]]
           b1 == Batches("entities", n)
           b2 == Batches("nameservers", (n + 9) \div 10)
           b3 == Batches("entity_emails", n)
           b4 == Batches("entity_phones", n)
           b5 == Batches("domains", n)
           b6 == <<[table |-> "domains", rows |-> idn]>>
           b7 == Batches("domain_nameservers", n)
           b8 == Batches("domain_contacts", n)
           P2 == b1 \o b2
           P3 == P2 \o b3
           P4 == P3 \o b4
           P5 == P4 \o b5
           P6 == P5 \o b6
           P7 == P6 \o b7
           P8 == P7 \o b8
<1>0. (n + 9) \div 10 \in Nat /\ Fixtures \in Nat
  BY SeedAssumption
<1>1. /\ Section(b1, "entities", all) /\ Section(b2, "nameservers", ns)
      /\ Section(b3, "entity_emails", all) /\ Section(b4, "entity_phones", all)
      /\ Section(b5, "domains", all) /\ Section(b7, "domain_nameservers", all)
      /\ Section(b8, "domain_contacts", all)
  <2>1. \A t \in Table : Section(Batches(t, n), t, all)
    BY BatchesAre, Zenon
  <2>2. \A t \in Table : Section(Batches(t, (n + 9) \div 10), t, ns)
    BY <1>0, BatchesAre, Zenon
  <2> QED BY <2>1, <2>2, Zenon DEF Table
<1>2. Section(b6, "domains", idn)
  <2> DEFINE b == [table |-> "domains", rows |-> idn]
  <2>1. b \in BatchType /\ b.table = "domains" /\ b.rows = idn
    BY <1>0 DEF BatchType, Table
  <2>2. b6 = <<b>>
    BY Zenon
  <2> HIDE DEF b, b6, idn
  <2>3. b6 \in Seq(BatchType) /\ Len(b6) = 1 /\ b6[1] = b
    BY <2>1, <2>2
  <2> QED BY <2>1, <2>3 DEF Section
<1> HIDE DEF b1, b2, b3, b4, b5, b6, b7, b8
<1>3. Sound(b1, C1)
  <2>1. \A i : References("entities", i) = {}
    BY Zenon DEF References
  <2>2. b1 \in Seq(BatchType) /\ \A k \in 1..Len(b1) : b1[k].table = "entities"
    BY <1>1, Zenon DEF Section
  <2>3. \A t \in Table : \A i : i \in C1[t] <=> t = "entities" /\ i \in all
    BY Zenon
  <2> HIDE DEF C1, all
  <2>4. \A j, k \in 1..Len(b1) : j < k => b1[j].rows \cap b1[k].rows = {}
    BY <1>1, <2>2 DEF Section
  <2>5. \A i : i \in all <=> \E k \in 1..Len(b1) : i \in b1[k].rows
    BY <1>1, Zenon DEF Section
  <2>6. \A t \in Table : \A i : i \in C1[t] <=> \E k \in 1..Len(b1) : b1[k].table = t /\ i \in b1[k].rows
    BY <2>2, <2>3, <2>5, Zenon
  <2>7. \A k \in 1..Len(b1) : \A i : References(b1[k].table, i) = {}
    BY <2>1, <2>2, Zenon
  <2> QED BY <2>2, <2>4, <2>6, <2>7, ZenonT(30) DEF Sound
<1>4. Sound(P2, C2)
  <2>1. \A i : References("nameservers", i) = {}
    BY Zenon DEF References
  <2>2. \A u \in Table : \A i : i \in C2[u] <=> i \in C1[u] \/ (u = "nameservers" /\ i \in ns)
    BY Zenon
  <2>3. "nameservers" \in Table /\ \A i \in ns : i \notin C1["nameservers"]
    BY Zenon DEF Table
  <2> HIDE DEF C1, C2, ns
  <2> QED BY <1>1, <1>3, <2>1, <2>2, <2>3, SoundExtends
<1>5. Sound(P3, C3)
  <2>1. \A i \in all : \A ref \in References("entity_emails", i) : ref[1] \in Table /\ ref[2] \in C2[ref[1]]
    BY DEF References, Table
  <2>2. \A u \in Table : \A i : i \in C3[u] <=> i \in C2[u] \/ (u = "entity_emails" /\ i \in all)
    BY Zenon
  <2>3. "entity_emails" \in Table /\ \A i \in all : i \notin C2["entity_emails"]
    BY Zenon DEF Table
  <2> HIDE DEF C2, C3, all, P2
  <2> QED BY <1>1, <1>4, <2>1, <2>2, <2>3, SoundExtends
<1>6. Sound(P4, C4)
  <2>1. \A i \in all : \A ref \in References("entity_phones", i) : ref[1] \in Table /\ ref[2] \in C3[ref[1]]
    BY DEF References, Table
  <2>2. \A u \in Table : \A i : i \in C4[u] <=> i \in C3[u] \/ (u = "entity_phones" /\ i \in all)
    BY Zenon
  <2>3. "entity_phones" \in Table /\ \A i \in all : i \notin C3["entity_phones"]
    BY Zenon DEF Table
  <2> HIDE DEF C3, C4, all, P3
  <2> QED BY <1>1, <1>5, <2>1, <2>2, <2>3, SoundExtends
<1>7. Sound(P5, C5)
  <2>1. \A i : References("domains", i) = {}
    BY Zenon DEF References
  <2>2. \A u \in Table : \A i : i \in C5[u] <=> i \in C4[u] \/ (u = "domains" /\ i \in all)
    BY Zenon DEF Table
  <2>3. "domains" \in Table /\ \A i \in all : i \notin C4["domains"]
    BY Zenon DEF Table
  <2> HIDE DEF C4, C5, all, P4
  <2> QED BY <1>1, <1>6, <2>1, <2>2, <2>3, SoundExtends
<1>8. Sound(P6, C6)
  <2>1. \A i : References("domains", i) = {}
    BY Zenon DEF References
  <2>2. \A u \in Table : \A i : i \in C6[u] <=> i \in C5[u] \/ (u = "domains" /\ i \in idn)
    BY <1>0 DEF Table
  <2>3. "domains" \in Table /\ \A i \in idn : i \notin C5["domains"]
    BY <1>0 DEF Table
  <2> HIDE DEF C5, C6, idn, P5
  <2> QED BY <1>2, <1>7, <2>1, <2>2, <2>3, SoundExtends
<1>9. Sound(P7, C7)
  <2>1. \A i \in all : \A ref \in References("domain_nameservers", i) : ref[1] \in Table /\ ref[2] \in C6[ref[1]]
    BY <1>0 DEF References, Table, NameserverForDomain
  <2>2. \A u \in Table : \A i : i \in C7[u] <=> i \in C6[u] \/ (u = "domain_nameservers" /\ i \in all)
    BY Zenon DEF Table
  <2>3. "domain_nameservers" \in Table /\ \A i \in all : i \notin C6["domain_nameservers"]
    BY Zenon DEF Table
  <2> HIDE DEF C6, C7, all, P6
  <2> QED BY <1>1, <1>8, <2>1, <2>2, <2>3, SoundExtends
<1>10. Sound(P8, Corpus(n))
  <2>1. \A i \in all : \A ref \in References("domain_contacts", i) : ref[1] \in Table /\ ref[2] \in C7[ref[1]]
    BY <1>0 DEF References, Table, EntityForDomain
  <2>2. \A u \in Table : \A i : i \in Corpus(n)[u] <=> i \in C7[u] \/ (u = "domain_contacts" /\ i \in all)
    BY Zenon DEF Table, Corpus
  <2>3. "domain_contacts" \in Table /\ \A i \in all : i \notin C7["domain_contacts"]
    BY Zenon DEF Table
  <2> HIDE DEF C7, all, P7
  <2> QED BY <1>1, <1>9, <2>1, <2>2, <2>3, SoundExtends
<1>11. Plan(n) = P8
  <2>1. /\ P4 \in Seq(BatchType) /\ b5 \in Seq(BatchType) /\ b6 \in Seq(BatchType) /\ b7 \in Seq(BatchType)
        /\ b8 \in Seq(BatchType) /\ P6 \in Seq(BatchType)
    BY <1>1, <1>2, <1>6, <1>8, Zenon DEF Section, Sound
  <2>2. Plan(n) = (P4 \o (b5 \o b6)) \o (b7 \o b8)
    BY Zenon DEF Plan, DomainBatches, JoinBatches, b1, b2, b3, b4, b5, b6, b7, b8
  <2> HIDE DEF P4
  <2>3. P4 \o (b5 \o b6) = P6
    <3>1. P4 \in Seq(BatchType) /\ b5 \in Seq(BatchType) /\ b6 \in Seq(BatchType)
      BY <2>1
    <3>2. (P4 \o b5) \o b6 = P4 \o (b5 \o b6)
      BY ONLY <3>1, Associates
    <3> QED BY <3>2, Zenon
  <2> HIDE DEF P6
  <2>4. P6 \o (b7 \o b8) = P8
    <3>1. P6 \in Seq(BatchType) /\ b7 \in Seq(BatchType) /\ b8 \in Seq(BatchType)
      BY <2>1, Zenon
    <3>2. (P6 \o b7) \o b8 = P6 \o (b7 \o b8)
      BY ONLY <3>1, Associates
    <3> QED BY <3>2, Zenon
  <2> QED BY <2>2, <2>3, <2>4, Zenon
<1> HIDE DEF P8
<1>12. Len(b1) > 0 /\ b1[1].table = "entities" /\ 0 \in b1[1].rows
  <2> DEFINE m == (n + Batch - 1) \div Batch
  <2>1. Batch \in Nat \ {0}
    BY SeedAssumption, Zenon
  <2>2. m \in Nat /\ n + Batch - 1 < Batch * m + Batch
    BY <2>1, Quotient
  <2>3. m # 0
    BY <2>1, <2>2
  <2>4. b1 = [b \in 1..m |-> [table |-> "entities", rows |-> {i \in 0..(n - 1) : i \div Batch = b - 1}]]
    BY Zenon DEF b1, Batches
  <2>5. 0 \div Batch = 0
    BY <2>1, Quotient
  <2> HIDE DEF m
  <2>6. Len(b1) = m /\ b1[1] = [table |-> "entities", rows |-> {i \in 0..(n - 1) : i \div Batch = 0}]
    BY <2>2, <2>3, <2>4
  <2> QED BY <2>2, <2>3, <2>5, <2>6
<1>13. Len(P8) > 0 /\ P8[1] = b1[1] /\ Len(P8) \in Nat
  <2>1. /\ b1 \in Seq(BatchType) /\ b2 \in Seq(BatchType) /\ b3 \in Seq(BatchType) /\ b4 \in Seq(BatchType)
        /\ b5 \in Seq(BatchType) /\ b6 \in Seq(BatchType) /\ b7 \in Seq(BatchType) /\ b8 \in Seq(BatchType)
    BY <1>1, <1>2, Zenon DEF Section
  <2>2. /\ P2 \in Seq(BatchType) /\ P3 \in Seq(BatchType) /\ P4 \in Seq(BatchType) /\ P5 \in Seq(BatchType)
        /\ P6 \in Seq(BatchType) /\ P7 \in Seq(BatchType) /\ P8 \in Seq(BatchType)
    BY <1>4, <1>5, <1>6, <1>7, <1>8, <1>9, <1>10, Zenon DEF Sound
  <2>3. Len(P2) > 0 /\ P2[1] = b1[1]
    BY <1>12, <2>1, FirstStays, Zenon
  <2>4. Len(P3) > 0 /\ P3[1] = P2[1]
    <3> HIDE DEF P2
    <3> QED BY <2>1, <2>2, <2>3, FirstStays
  <2>5. Len(P4) > 0 /\ P4[1] = P3[1]
    <3> HIDE DEF P3
    <3> QED BY <2>1, <2>2, <2>4, FirstStays, Zenon
  <2>6. Len(P5) > 0 /\ P5[1] = P4[1]
    <3> HIDE DEF P4
    <3> QED BY <2>1, <2>2, <2>5, FirstStays, Zenon
  <2>7. Len(P6) > 0 /\ P6[1] = P5[1]
    <3> HIDE DEF P5
    <3> QED BY <2>1, <2>2, <2>6, FirstStays, Zenon
  <2>8. Len(P7) > 0 /\ P7[1] = P6[1]
    <3> HIDE DEF P6
    <3> QED BY <2>1, <2>2, <2>7, FirstStays, Zenon
  <2>9. Len(P8) > 0 /\ P8[1] = P7[1]
    <3> HIDE DEF P7
    <3> QED BY <2>1, <2>2, <2>8, FirstStays, Zenon DEF P8
  <2> HIDE DEF P2, P3, P4, P5, P6, P7
  <2> QED BY <2>2, <2>3, <2>4, <2>5, <2>6, <2>7, <2>8, <2>9
<1> QED BY <1>10, <1>11, <1>12, <1>13
\* The rows that the first k batches of a plan put in a table.
LEMMA FilledHas ==
  ASSUME NEW P, NEW C, Sound(P, C), NEW k \in 0..Len(P), NEW t \in Table
  PROVE  \A i : i \in Filled(P, k)[t] <=> \E j \in 1..k : P[j].table = t /\ i \in P[j].rows
BY Zenon DEF Filled

\* A batch breaks no key of a database that holds the batches before it.
LEMMA FilledAdmits ==
  ASSUME NEW P, NEW C, Sound(P, C), NEW k \in 1..Len(P), db = Filled(P, k - 1)
  PROVE  Admits(P[k].table, P[k].rows)
<1>0. Len(P) \in Nat /\ k - 1 \in 0..Len(P) /\ P[k] \in BatchType
  BY DEF Sound
<1>1. \A t \in Table : \A i : i \in db[t] <=> \E j \in 1..(k - 1) : P[j].table = t /\ i \in P[j].rows
  BY <1>0, FilledHas
<1>2. ASSUME NEW i \in P[k].rows, i \in db[P[k].table] PROVE FALSE
  <2>1. PICK j \in 1..(k - 1) : P[j].table = P[k].table /\ i \in P[j].rows
    BY <1>0, <1>1, <1>2, Zenon DEF BatchType
  <2>2. j \in 1..Len(P) /\ j < k
    BY <1>0
  <2> QED BY <1>2, <2>1, <2>2, Zenon DEF Sound
<1>3. ASSUME NEW i \in P[k].rows, NEW ref \in References(P[k].table, i)
      PROVE  ref[2] \in db[ref[1]]
  <2>1. PICK j \in 1..(k - 1) : P[j].table = ref[1] /\ ref[2] \in P[j].rows
    BY Zenon DEF Sound
  <2>2. P[j] \in BatchType
    BY <1>0 DEF Sound
  <2> QED BY <1>1, <2>1, <2>2, Zenon DEF BatchType
<1> QED BY <1>2, <1>3, Zenon DEF Admits

\* The k-th batch is what it takes from the first k - 1 to the first k.
LEMMA FilledGrows ==
  ASSUME NEW P, NEW C, Sound(P, C), NEW k \in 1..Len(P), NEW t \in Table
  PROVE  \A i : i \in Filled(P, k)[t] <=> i \in Filled(P, k - 1)[t] \/ (P[k].table = t /\ i \in P[k].rows)
<1>0. Len(P) \in Nat /\ k - 1 \in 0..Len(P) /\ k \in 0..Len(P) /\ P[k] \in BatchType
  BY DEF Sound
<1>1. \A j \in 1..k : j \in 1..(k - 1) \/ j = k
  BY <1>0
<1>2. \A j \in 1..(k - 1) : j \in 1..k
  BY <1>0
<1>3. \A i : i \in Filled(P, k - 1)[t] <=> \E j \in 1..(k - 1) : P[j].table = t /\ i \in P[j].rows
  BY <1>0, FilledHas
<1>4. \A i : i \in Filled(P, k)[t] <=> \E j \in 1..k : P[j].table = t /\ i \in P[j].rows
  BY <1>0, FilledHas
<1>5. k \in 1..k
  BY <1>0
<1> QED BY <1>1, <1>2, <1>3, <1>4, <1>5, Zenon

\* The whole plan leaves what it is a plan of.
LEMMA FilledWhole ==
  ASSUME NEW P, NEW C, Sound(P, C), NEW t \in Table
  PROVE  Filled(P, Len(P))[t] = C[t] /\ Filled(P, 0)[t] = {}
<1>0. Len(P) \in Nat /\ Len(P) \in 0..Len(P) /\ 0 \in 0..Len(P)
  BY DEF Sound
<1>1. \A i : i \in Filled(P, Len(P))[t] <=> i \in C[t]
  BY <1>0, FilledHas DEF Sound
<1>2. \A i : i \notin Filled(P, 0)[t]
  BY <1>0, FilledHas
<1> QED BY <1>1, <1>2, Zenon

----------------------------------------------------------------------------

\* The facts of the plan of the run that is going on.
LEMMA PlanOf ==
  ASSUME SeedTypeOK, seeder.pc # "none"
  PROVE  /\ Sound(Plan(seeder.n), Corpus(seeder.n)) /\ Len(Plan(seeder.n)) \in Nat \ {0}
         /\ Plan(seeder.n)[1].table = "entities" /\ 0 \in Plan(seeder.n)[1].rows
BY SeedAssumption, PlanSound, Zenon DEF SeedTypeOK

\* Nothing is seeded at first.
LEMMA SeedInitInv == ASSUME SeedInit PROVE SeedInv
<1>1. Empty \in [Table -> SUBSET Int]
  BY Zenon DEF Empty
<1> QED BY <1>1, Zenon DEF SeedInit, SeedInv, SeedTypeOK

\* main, up to the first statement.
LEMMA StartSeederKeeps ==
  ASSUME SeedInv, NEW n \in Sizes, NEW truncate \in BOOLEAN, StartSeeder(n, truncate)
  PROVE  SeedInv'
<1>0. n \in Nat \ {0}
  BY SeedAssumption, Zenon
<1>1. /\ seeder'.pc = (IF truncate THEN "truncate" ELSE "insert") /\ seeder'.at = 1 /\ seeder'.n = n
      /\ seeder'.truncate = truncate /\ db' = db /\ before' = db
  BY Zenon DEF StartSeeder
<1>2. SeedTypeOK'
  BY <1>0 DEF StartSeeder, SeedInv, SeedTypeOK
<1>3. 1 \in 1..Len(Plan(n)) /\ 1 \in 1..Len(TruncateOrder)
  BY <1>0, PlanSound DEF TruncateOrder
<1> QED BY <1>1, <1>2, <1>3 DEF SeedInv

\* A statement of truncateTables: entities come last, and empty all but the nameservers.
LEMMA TruncateNextKeeps == ASSUME SeedInv, TruncateNext PROVE SeedInv'
<1> DEFINE k == seeder.at
           T == TruncateOrder
<1>1. /\ seeder.pc = "truncate" /\ seeder.truncate /\ k \in 1..7 /\ Len(T) = 7
      /\ \A j \in 1..(k - 1) : db[T[j]] = {}
      /\ db \in [Table -> SUBSET Int] /\ before' = before /\ runs' = runs
  BY Zenon DEF TruncateNext, SeedInv, SeedTypeOK, TruncateOrder
<1>2. db' = [t \in Table |-> IF t \in Cascade(T[k]) THEN {} ELSE db[t]]
  BY Zenon DEF TruncateNext
<1>3. /\ db' \in [Table -> SUBSET Int]
      /\ \A t \in Table : db'[t] = {} \/ (t \notin Cascade(T[k]) /\ db'[t] = db[t])
  BY <1>1, <1>2, Zenon
<1>4. \A j \in 1..7 : T[j] \in Table /\ T[j] \in Cascade(T[j])
  BY DEF TruncateOrder, Cascade, Table
<1>5. \A j \in 1..k : db'[T[j]] = {}
  <2> SUFFICES ASSUME NEW j \in 1..k PROVE db'[T[j]] = {}
    BY Zenon
  <2>1. j \in 1..7 /\ (j \in 1..(k - 1) \/ j = k)
    BY <1>1
  <2> HIDE DEF T
  <2> QED BY <1>1, <1>3, <1>4, <2>1, Zenon
<1>6. CASE k < 7
  <2>1. seeder' = [seeder EXCEPT !.at = @ + 1]
    BY <1>1, <1>6, Zenon DEF TruncateNext
  <2>2. /\ seeder' \in [pc : {"none", "truncate", "insert", "complete", "rejected", "interrupted"},
                         at : Nat, n : Nat, truncate : BOOLEAN]
        /\ seeder'.pc = "truncate" /\ seeder'.truncate /\ seeder'.n = seeder.n /\ seeder'.at = k + 1
    BY <1>1, <2>1 DEF SeedInv, SeedTypeOK
  <2>3. SeedTypeOK'
    BY <1>1, <1>3, <2>2, Zenon DEF SeedInv, SeedTypeOK
  <2>4. "entities" \in Table /\ "entities" \notin Cascade(T[k])
    BY <1>1, <1>6 DEF TruncateOrder, Cascade, Table
  <2>5. db' # Empty => 0 \in db'["entities"]
    <3>1. db = Empty => db' = Empty
      <4>1. SUFFICES ASSUME db = Empty PROVE \A t \in Table : db'[t] = {}
        BY <1>3, Zenon DEF Empty
      <4> QED BY <1>3, <4>1, Zenon DEF Empty
    <3> QED BY <1>2, <2>4, <3>1, Zenon DEF SeedInv
  <2>6. k + 1 \in 1..7 /\ \A j \in 1..((k + 1) - 1) : db'[T[j]] = {}
    BY <1>1, <1>5, <1>6
  <2> QED BY <1>1, <2>2, <2>3, <2>5, <2>6 DEF SeedInv
<1>7. CASE k = 7
  <2>1. seeder' = [seeder EXCEPT !.pc = "insert", !.at = 1]
    BY <1>1, <1>7 DEF TruncateNext
  <2>2. /\ seeder' \in [pc : {"none", "truncate", "insert", "complete", "rejected", "interrupted"},
                         at : Nat, n : Nat, truncate : BOOLEAN]
        /\ seeder'.pc = "insert" /\ seeder'.truncate /\ seeder'.n = seeder.n /\ seeder'.at = 1
    BY <1>1, <2>1, Zenon DEF SeedInv, SeedTypeOK
  <2>3. SeedTypeOK'
    BY <1>1, <1>3, <2>2, Zenon DEF SeedInv, SeedTypeOK
  <2>4. db'["nameservers"] = {}
    BY <1>1, <1>5, <1>7 DEF TruncateOrder
  <2>5. \A t \in Table : t = "nameservers" \/ t \in Cascade(T[7])
    BY Zenon DEF TruncateOrder, Cascade
  <2>6. \A t \in Table : db'[t] = {}
    BY <1>3, <1>7, <2>4, <2>5, Zenon
  <2>7. db' = Empty
    BY <1>3, <2>6, ZenonT(30) DEF Empty
  <2>8. /\ Sound(Plan(seeder.n), Corpus(seeder.n)) /\ Len(Plan(seeder.n)) \in Nat \ {0}
    BY <1>1, PlanOf DEF SeedInv
  <2>9. db' = Filled(Plan(seeder.n), 0)
    <3>1. \A t \in Table : Filled(Plan(seeder.n), 0)[t] = {}
      BY <2>8, FilledWhole
    <3> QED BY <2>7, <3>1, Zenon DEF Empty, Filled
  <2>10. 1 \in 1..Len(Plan(seeder.n)) /\ 1 - 1 = 0
    BY <2>8
  <2> QED BY <2>2, <2>3, <2>7, <2>9, <2>10 DEF SeedInv
<1> QED BY <1>1, <1>6, <1>7

\* A run that inserts finds the batches before the next one and no more, or a database that
\* it has not changed yet and whose first entity its first batch collides with.
LEMMA InsertFinds ==
  ASSUME SeedInv, seeder.pc = "insert",
         NEW batch, batch = Plan(seeder.n)[seeder.at]
  PROVE  \/ /\ db = Filled(Plan(seeder.n), seeder.at - 1) /\ Admits(batch.table, batch.rows)
            /\ seeder.truncate \/ before = Empty
         \/ /\ ~Admits(batch.table, batch.rows) /\ ~seeder.truncate
<1> DEFINE P == Plan(seeder.n)
           k == seeder.at
<1>1. /\ Sound(P, Corpus(seeder.n)) /\ Len(P) \in Nat \ {0} /\ P[1].table = "entities" /\ 0 \in P[1].rows
  BY PlanOf, Zenon DEF SeedInv
<1>2. k \in 1..Len(P)
  BY Zenon DEF SeedInv
<1>3. Filled(P, 0) = Empty
  <2>1. \A t \in Table : Filled(P, 0)[t] = {}
    BY <1>1, FilledWhole, Zenon
  <2> QED BY <2>1, Zenon DEF Empty, Filled
<1>4. CASE db = Filled(P, k - 1)
  <2>1. Admits(batch.table, batch.rows)
    BY <1>1, <1>2, <1>4, FilledAdmits
  <2>2. ASSUME ~seeder.truncate, before # Empty PROVE FALSE
    <3>1. k = 1 /\ db = before
      BY <2>2, Zenon DEF SeedInv
    <3> QED BY <1>3, <1>4, <2>2, <3>1
  <2> QED BY <1>4, <2>1, <2>2
<1>5. CASE db # Filled(P, k - 1)
  <2>1. k = 1 /\ ~seeder.truncate /\ db = before
    BY <1>5 DEF SeedInv
  <2>2. db # Empty
    BY <1>3, <1>5, <2>1
  <2>3. 0 \in db["entities"]
    BY <2>2, Zenon DEF SeedInv
  <2>4. ~Admits(batch.table, batch.rows)
    BY <1>1, <2>1, <2>3 DEF Admits
  <2> QED BY <2>1, <2>4, ZenonT(30)
<1> QED BY <1>4, <1>5, Zenon

\* A CopyFrom that succeeds takes the database to the next batch of the plan.
LEMMA FlushKeeps == ASSUME SeedInv, Flush PROVE SeedInv'
<1> DEFINE P == Plan(seeder.n)
           k == seeder.at
           batch == P[k]
<1>1. /\ seeder.pc = "insert" /\ Admits(batch.table, batch.rows)
      /\ db' = [db EXCEPT ![batch.table] = @ \cup batch.rows]
      /\ before' = before /\ runs' = runs
  BY Zenon DEF Flush
<1>2. /\ Sound(P, Corpus(seeder.n)) /\ Len(P) \in Nat \ {0} /\ P[1].table = "entities" /\ 0 \in P[1].rows
  BY <1>1, PlanOf, ZenonT(30) DEF SeedInv
<1>3. k \in 1..Len(P) /\ k \in Nat /\ k \in 0..Len(P)
  BY <1>1, <1>2 DEF SeedInv
<1>4. db = Filled(P, k - 1) /\ (seeder.truncate \/ before = Empty)
  BY <1>1, InsertFinds, Zenon
<1>5. batch \in BatchType /\ batch.table \in Table /\ batch.rows \in SUBSET Int
  <2>1. P \in Seq(BatchType)
    BY <1>2 DEF Sound
  <2> HIDE DEF P
  <2>2. batch \in BatchType
    BY <1>3, <2>1
  <2> HIDE DEF batch
  <2> QED BY <2>2, ZenonT(30) DEF BatchType
<1>6. db \in [Table -> SUBSET Int]
  BY Zenon DEF SeedInv, SeedTypeOK
<1> HIDE DEF P, batch
<1>7. db' = Filled(P, k) /\ db' \in [Table -> SUBSET Int]
  <2>1. db' \in [Table -> SUBSET Int]
    BY <1>1, <1>5, <1>6, Zenon
  <2>2. \A t \in Table : \A i : i \in db'[t] <=> i \in db[t] \/ (batch.table = t /\ i \in batch.rows)
    BY <1>1, <1>5, <1>6
  <2>3. \A t \in Table : \A i : i \in Filled(P, k)[t] <=> i \in Filled(P, k - 1)[t] \/ (P[k].table = t /\ i \in P[k].rows)
    BY <1>2, <1>3, FilledGrows, Zenon
  <2>4. \A t \in Table : db'[t] = Filled(P, k)[t]
    BY <1>4, <2>2, <2>3, ZenonT(30) DEF batch
  <2>5. Filled(P, k) = [t \in Table |-> Filled(P, k)[t]]
    BY Zenon DEF Filled
  <2> QED BY <2>1, <2>4, <2>5
<1>8. 0 \in db'["entities"]
  <2>1. "entities" \in Table /\ 1 \in 1..k
    BY <1>3 DEF Table
  <2> QED BY <1>2, <1>3, <1>7, <2>1, FilledHas
<1>9. CASE k < Len(P)
  <2>1. seeder' = [seeder EXCEPT !.at = @ + 1]
    BY <1>9, Zenon DEF Flush, P
  <2>2. /\ seeder' \in [pc : {"none", "truncate", "insert", "complete", "rejected", "interrupted"},
                         at : Nat, n : Nat, truncate : BOOLEAN]
        /\ seeder'.pc = "insert" /\ seeder'.truncate = seeder.truncate /\ seeder'.n = seeder.n
        /\ seeder'.at = k + 1
    BY <1>1, <2>1 DEF SeedInv, SeedTypeOK
  <2>3. SeedTypeOK'
    BY <1>1, <1>7, <2>2, Zenon DEF SeedInv, SeedTypeOK
  <2>4. k + 1 \in 1..Len(P) /\ (k + 1) - 1 = k
    BY <1>2, <1>3, <1>9
  <2> QED BY <1>1, <1>4, <1>7, <1>8, <2>2, <2>3, <2>4, Zenon DEF SeedInv, P
<1>10. CASE ~(k < Len(P))
  <2>1. seeder' = [seeder EXCEPT !.pc = "complete"]
    BY <1>10, Zenon DEF Flush, P
  <2>2. /\ seeder' \in [pc : {"none", "truncate", "insert", "complete", "rejected", "interrupted"},
                         at : Nat, n : Nat, truncate : BOOLEAN]
        /\ seeder'.pc = "complete" /\ seeder'.truncate = seeder.truncate /\ seeder'.n = seeder.n
    BY <1>1, <2>1 DEF SeedInv, SeedTypeOK
  <2>3. SeedTypeOK'
    BY <1>1, <1>7, <2>2, Zenon DEF SeedInv, SeedTypeOK
  <2>4. k = Len(P)
    BY <1>2, <1>3, <1>10
  <2> QED BY <1>1, <1>4, <1>7, <1>8, <2>2, <2>3, <2>4, Zenon DEF SeedInv, P
<1> QED BY <1>9, <1>10, Zenon

\* A CopyFrom that fails is one of a run without -truncate.
LEMMA FlushRejectedKeeps == ASSUME SeedInv, FlushRejected PROVE SeedInv'
<1>1. /\ seeder.pc = "insert" /\ seeder' = [seeder EXCEPT !.pc = "rejected"]
      /\ db' = db /\ before' = before /\ runs' = runs
  BY Zenon DEF FlushRejected
<1>2. ~seeder.truncate
  BY InsertFinds DEF FlushRejected
<1>3. /\ seeder' \in [pc : {"none", "truncate", "insert", "complete", "rejected", "interrupted"},
                       at : Nat, n : Nat, truncate : BOOLEAN]
      /\ seeder'.pc = "rejected" /\ seeder'.truncate = seeder.truncate /\ seeder'.n = seeder.n
  BY <1>1, Zenon DEF SeedInv, SeedTypeOK
<1>4. SeedTypeOK'
  BY <1>1, <1>3 DEF SeedInv, SeedTypeOK
<1> QED BY <1>1, <1>2, <1>3, <1>4, Zenon DEF SeedInv

\* A run that is stopped leaves the tables as they are.
LEMMA InterruptKeeps == ASSUME SeedInv, Interrupt PROVE SeedInv'
<1>1. /\ seeder.pc \in {"truncate", "insert"} /\ seeder' = [seeder EXCEPT !.pc = "interrupted"]
      /\ db' = db /\ before' = before /\ runs' = runs
  BY DEF Interrupt
<1>3. /\ seeder' \in [pc : {"none", "truncate", "insert", "complete", "rejected", "interrupted"},
                       at : Nat, n : Nat, truncate : BOOLEAN]
      /\ seeder'.pc = "interrupted" /\ seeder'.truncate = seeder.truncate /\ seeder'.n = seeder.n
  BY <1>1, Zenon DEF SeedInv, SeedTypeOK
<1>4. SeedTypeOK'
  BY <1>1, <1>3 DEF SeedInv, SeedTypeOK
<1> QED BY <1>1, <1>3, <1>4, Zenon DEF SeedInv

\* Every step of the seeder.
LEMMA SeedNextKeeps == ASSUME SeedInv, SeedNext PROVE SeedInv'
BY StartSeederKeeps, TruncateNextKeeps, FlushKeeps, FlushRejectedKeeps, InterruptKeeps, ZenonT(30) DEF SeedNext

\* What the invariant says of the tables once a run is complete.
LEMMA CompleteIs ==
  ASSUME SeedInv, seeder.pc = "complete"
  PROVE  seeder.n \in Sizes /\ \A t \in Table : db[t] = Corpus(seeder.n)[t]
<1>1. seeder.n \in Sizes /\ db = Filled(Plan(seeder.n), Len(Plan(seeder.n)))
  BY Zenon DEF SeedInv, SeedTypeOK
<1>2. Sound(Plan(seeder.n), Corpus(seeder.n))
  BY PlanOf DEF SeedInv
<1> QED BY <1>1, <1>2, FilledWhole

\* The invariant and the properties of the seeder.
LEMMA SeedInvMeans == ASSUME SeedInv PROVE SeedsWhole /\ PlainRerunChangesNothing
<1>1. ASSUME seeder.pc = "complete"
      PROVE  /\ \A t \in {"entities", "nameservers", "domains"} : db[t] = SeedSynthetic(seeder.n)[t]
             /\ \A t \in Table \ {"nameservers", "domains"} : db[t] = 0..(seeder.n - 1)
  <2>1. \A t \in Table : db[t] = Corpus(seeder.n)[t]
    BY <1>1, CompleteIs, Zenon
  <2> QED BY <2>1 DEF Corpus, SeedSynthetic, Table
<1> QED BY <1>1, Zenon DEF SeedInv, SeedsWhole, PlainRerunChangesNothing

----------------------------------------------------------------------------

\* The sum of sums.
LEMMA SumPlus ==
  ASSUME NEW f, NEW g, NEW h, NEW S, IsFiniteSet(S),
         \A x \in S : f[x] \in Int /\ g[x] \in Int /\ h[x] = f[x] + g[x]
  PROVE  SumFunctionOnSet(h, S) = SumFunctionOnSet(f, S) + SumFunctionOnSet(g, S)
<1> DEFINE C == {s \in SUBSET S : SumFunctionOnSet(h, s) = SumFunctionOnSet(f, s) + SumFunctionOnSet(g, s)}
<1>0. \A s \in SUBSET S : IsFiniteSet(s)
  BY FS_Subset, Zenon
<1>1. {} \in C
  <2>1. SumFunctionOnSet(f, {}) = 0 /\ SumFunctionOnSet(g, {}) = 0 /\ SumFunctionOnSet(h, {}) = 0
    BY SumNone, Zenon
  <2> QED BY <2>1
<1>2. ASSUME NEW s \in SUBSET S, s # {}, \A x \in s : s \ {x} \in C PROVE s \in C
  <2>1. PICK x : x \in s
    BY <1>2, Zenon
  <2> DEFINE r == s \ {x}
             a == SumFunctionOnSet(f, r)
             b == SumFunctionOnSet(g, r)
             c == SumFunctionOnSet(h, r)
  <2>2. IsFiniteSet(s) /\ IsFiniteSet(r) /\ \A y \in s : f[y] \in Int /\ g[y] \in Int /\ h[y] \in Int
    BY <1>0
  <2>3. SumFunctionOnSet(f, s) = f[x] + a
    BY <2>1, <2>2, SumTake
  <2>4. SumFunctionOnSet(g, s) = g[x] + b
    BY <2>1, <2>2, SumTake
  <2>5. SumFunctionOnSet(h, s) = h[x] + c
    BY <2>1, <2>2, SumTake
  <2>6. a \in Int /\ b \in Int
    BY <2>2, SumType, Zenon
  <2>7. c = a + b
    BY <1>2, <2>1, Zenon
  <2>8. f[x] \in Int /\ g[x] \in Int /\ h[x] = f[x] + g[x]
    BY <2>1, Zenon
  <2> HIDE DEF a, b, c
  <2>9. SumFunctionOnSet(h, s) = SumFunctionOnSet(f, s) + SumFunctionOnSet(g, s)
    BY <2>3, <2>4, <2>5, <2>6, <2>7, <2>8
  <2> QED BY <2>9, Zenon
<1>3. \A s \in SUBSET S : s \in C
  <2> HIDE DEF C
  <2> QED BY <1>1, <1>2, SubsetInduction, Zenon
<1> QED BY <1>3, Zenon

\* A greater function has a greater sum.
LEMMA SumMonotone ==
  ASSUME NEW f, NEW g, NEW S, IsFiniteSet(S),
         \A x \in S : f[x] \in Int /\ g[x] \in Int /\ f[x] <= g[x]
  PROVE  SumFunctionOnSet(f, S) <= SumFunctionOnSet(g, S)
<1> DEFINE C == {s \in SUBSET S : SumFunctionOnSet(f, s) <= SumFunctionOnSet(g, s)}
<1>0. \A s \in SUBSET S : IsFiniteSet(s)
  BY FS_Subset, Zenon
<1>1. {} \in C
  <2>1. SumFunctionOnSet(f, {}) = 0 /\ SumFunctionOnSet(g, {}) = 0
    BY SumNone, Zenon
  <2> QED BY <2>1
<1>2. ASSUME NEW s \in SUBSET S, s # {}, \A x \in s : s \ {x} \in C PROVE s \in C
  <2>1. PICK x : x \in s
    BY <1>2, Zenon
  <2> DEFINE r == s \ {x}
             a == SumFunctionOnSet(f, r)
             b == SumFunctionOnSet(g, r)
  <2>2. IsFiniteSet(s) /\ IsFiniteSet(r) /\ \A y \in s : f[y] \in Int /\ g[y] \in Int
    BY <1>0, Zenon
  <2>3. SumFunctionOnSet(f, s) = f[x] + a
    BY <2>1, <2>2, SumTake
  <2>4. SumFunctionOnSet(g, s) = g[x] + b
    BY <2>1, <2>2, SumTake
  <2>5. a \in Int /\ b \in Int
    BY <2>2, SumType, Zenon
  <2>6. a <= b
    BY <1>2, <2>1, Zenon
  <2>7. f[x] \in Int /\ g[x] \in Int /\ f[x] <= g[x]
    BY <2>1, Zenon
  <2> HIDE DEF a, b
  <2>8. SumFunctionOnSet(f, s) <= SumFunctionOnSet(g, s)
    BY <2>3, <2>4, <2>5, <2>6, <2>7
  <2> QED BY <2>8, Zenon
<1>3. \A s \in SUBSET S : s \in C
  <2> HIDE DEF C
  <2> QED BY <1>1, <1>2, SubsetInduction, Zenon
<1> QED BY <1>3, Zenon

\* A factor comes out of a sum.
LEMMA SumScale ==
  ASSUME NEW f, NEW g, NEW S, IsFiniteSet(S), NEW m \in Int,
         \A x \in S : f[x] \in Int /\ g[x] = m * f[x]
  PROVE  SumFunctionOnSet(g, S) = m * SumFunctionOnSet(f, S)
<1> DEFINE C == {s \in SUBSET S : SumFunctionOnSet(g, s) = m * SumFunctionOnSet(f, s)}
<1>0. \A s \in SUBSET S : IsFiniteSet(s)
  BY FS_Subset, Zenon
<1>1. {} \in C
  <2>1. SumFunctionOnSet(f, {}) = 0 /\ SumFunctionOnSet(g, {}) = 0
    BY SumNone, Zenon
  <2>2. m * 0 = 0
    OBVIOUS
  <2> QED BY <2>1, <2>2, Zenon
<1>2. ASSUME NEW s \in SUBSET S, s # {}, \A x \in s : s \ {x} \in C PROVE s \in C
  <2>1. PICK x : x \in s
    BY <1>2, Zenon
  <2> DEFINE r == s \ {x}
             a == SumFunctionOnSet(f, r)
             b == SumFunctionOnSet(g, r)
  <2>2. IsFiniteSet(s) /\ IsFiniteSet(r) /\ \A y \in s : f[y] \in Int /\ g[y] \in Int
    BY <1>0
  <2>3. SumFunctionOnSet(f, s) = f[x] + a
    BY <2>1, <2>2, SumTake
  <2>4. SumFunctionOnSet(g, s) = g[x] + b
    BY <2>1, <2>2, SumTake
  <2>5. a \in Int
    BY <2>2, SumType, Zenon
  <2>6. b = m * a
    BY <1>2, <2>1, Zenon
  <2>7. f[x] \in Int /\ g[x] = m * f[x]
    BY <2>1, Zenon
  <2> HIDE DEF a, b
  <2>8. m * f[x] + m * a = m * (f[x] + a)
    BY <2>5, <2>7
  <2>9. SumFunctionOnSet(g, s) = m * SumFunctionOnSet(f, s)
    BY <2>3, <2>4, <2>6, <2>7, <2>8, Zenon
  <2> QED BY <2>9, Zenon
<1>3. \A s \in SUBSET S : s \in C
  <2> HIDE DEF C
  <2> QED BY <1>1, <1>2, SubsetInduction, Zenon
<1> QED BY <1>3, Zenon

\* The elements of U that are not in S can be summed apart.
LEMMA SumSplit ==
  ASSUME NEW f, NEW U, IsFiniteSet(U), \A x \in U : f[x] \in Int, NEW S \in SUBSET U
  PROVE  SumFunctionOnSet(f, U) = SumFunctionOnSet(f, S) + SumFunctionOnSet(f, U \ S)
<1> DEFINE Sum(s) == SumFunctionOnSet(f, s)
           C == {s \in SUBSET U : Sum(s) = Sum(s \cap S) + Sum(s \ S)}
<1>0. \A s \in SUBSET U : IsFiniteSet(s) /\ Sum(s) \in Int
  BY FS_Subset, SumType, Zenon
<1>1. {} \in C
  <2>1. Sum({}) = 0
    BY SumNone, Zenon
  <2>2. {} \cap S = {} /\ {} \ S = {}
    BY Zenon
  <2> QED BY <2>1, <2>2
<1>2. ASSUME NEW s \in SUBSET U, s # {}, \A x \in s : s \ {x} \in C PROVE s \in C
  <2>1. PICK x : x \in s
    BY <1>2, Zenon
  <2> DEFINE r == s \ {x}
  <2>2. Sum(s) = f[x] + Sum(r)
    BY <1>0, <2>1, SumTake
  <2>3. Sum(r) = Sum(r \cap S) + Sum(r \ S)
    BY <1>2, <2>1, Zenon
  <2>4. Sum(r \cap S) \in Int /\ Sum(r \ S) \in Int /\ f[x] \in Int
    BY <1>0, <2>1, Zenon
  <2>5. CASE x \in S
    <3>1. s \ S = r \ S /\ (s \cap S) \ {x} = r \cap S /\ s \cap S \in SUBSET U /\ x \in s \cap S
      BY <2>1, <2>5, Zenon
    <3>2. \A y \in s \cap S : f[y] \in Int
      BY Zenon
    <3>3. IsFiniteSet(s \cap S)
      BY <1>0, <3>1, Zenon
    <3> DEFINE t == s \cap S
    <3> HIDE DEF t
    <3>4. Sum(t) = f[x] + Sum(t \ {x})
      BY <3>1, <3>2, <3>3, SumTake DEF t
    <3>5. Sum(s \cap S) = f[x] + Sum(r \cap S)
      BY <3>1, <3>4, Zenon DEF t
    <3> DEFINE a == Sum(r \cap S)
               b == Sum(r \ S)
    <3>6. Sum(s) = f[x] + (a + b) /\ a \in Int /\ b \in Int /\ f[x] \in Int
      BY <2>2, <2>3, <2>4, Zenon
    <3>7. Sum(s \cap S) = f[x] + a /\ Sum(s \ S) = b
      BY <3>1, <3>5, Zenon
    <3> HIDE DEF Sum, a, b
    <3>8. Sum(s) = Sum(s \cap S) + Sum(s \ S)
      BY <3>6, <3>7
    <3> QED BY <3>8, Zenon DEF Sum
  <2>6. CASE x \notin S
    <3>1. s \cap S = r \cap S /\ (s \ S) \ {x} = r \ S /\ s \ S \in SUBSET U /\ x \in s \ S
      BY <2>1, <2>6, Zenon
    <3>2. \A y \in s \ S : f[y] \in Int
      BY Zenon
    <3>3. IsFiniteSet(s \ S)
      BY <1>0, <3>1, Zenon
    <3> DEFINE t == s \ S
    <3> HIDE DEF t
    <3>4. Sum(t) = f[x] + Sum(t \ {x})
      BY <3>1, <3>2, <3>3, SumTake DEF t
    <3>5. Sum(s \ S) = f[x] + Sum(r \ S)
      BY <3>1, <3>4, Zenon DEF t
    <3> DEFINE a == Sum(r \cap S)
               b == Sum(r \ S)
    <3>6. Sum(s) = f[x] + (a + b) /\ a \in Int /\ b \in Int /\ f[x] \in Int
      BY <2>2, <2>3, <2>4, Zenon
    <3>7. Sum(s \cap S) = a /\ Sum(s \ S) = f[x] + b
      BY <3>1, <3>5, Zenon
    <3> HIDE DEF Sum, a, b
    <3>8. Sum(s) = Sum(s \cap S) + Sum(s \ S)
      BY <3>6, <3>7
    <3> QED BY <3>8, Zenon DEF Sum
  <2> QED BY <2>5, <2>6, Zenon
<1>3. \A s \in SUBSET U : s \in C
  <2> HIDE DEF C
  <2> QED BY <1>1, <1>2, SubsetInduction, Zenon
<1>4. U \in C /\ U \cap S = S
  BY <1>3, Zenon
<1> QED BY <1>4, Zenon

\* Zeros add nothing.
LEMMA SumNonzero ==
  ASSUME NEW f, NEW U, IsFiniteSet(U), \A x \in U : f[x] \in Int, NEW S \in SUBSET U,
         \A x \in U \ S : f[x] = 0
  PROVE  SumFunctionOnSet(f, U) = SumFunctionOnSet(f, S)
<1>1. SumFunctionOnSet(f, U) = SumFunctionOnSet(f, S) + SumFunctionOnSet(f, U \ S)
  BY SumSplit
<1>2. IsFiniteSet(S) /\ IsFiniteSet(U \ S)
  BY FS_Subset, Zenon
<1>3. SumFunctionOnSet(f, U \ S) = 0
  BY <1>2, SumZero, Zenon
<1>4. SumFunctionOnSet(f, S) \in Int
  BY <1>2, SumType, Zenon
<1> QED BY <1>1, <1>3, <1>4

\* Sums of numbers are numbers.
LEMMA SumNat ==
  ASSUME NEW f, NEW S, IsFiniteSet(S), \A x \in S : f[x] \in Nat
  PROVE  SumFunctionOnSet(f, S) \in Nat
<1> DEFINE z == [x \in S |-> 0]
<1>1. SumFunctionOnSet(z, S) = 0
  <2>1. \A x \in S : z[x] = 0
    BY Zenon
  <2> HIDE DEF z
  <2> QED BY <2>1, SumZero, Zenon
<1>2. SumFunctionOnSet(z, S) <= SumFunctionOnSet(f, S)
  <2>1. \A x \in S : z[x] \in Int /\ f[x] \in Int /\ z[x] <= f[x]
    OBVIOUS
  <2> HIDE DEF z
  <2> QED BY <2>1, SumMonotone, Zenon
<1>3. SumFunctionOnSet(f, S) \in Int
  BY SumType
<1> QED BY <1>1, <1>2, <1>3

\* A part of a sum of numbers is not above the whole.
LEMMA SumPart ==
  ASSUME NEW f, NEW U, IsFiniteSet(U), \A x \in U : f[x] \in Nat, NEW S \in SUBSET U
  PROVE  /\ SumFunctionOnSet(f, S) \in Nat /\ SumFunctionOnSet(f, U) \in Nat
         /\ SumFunctionOnSet(f, S) <= SumFunctionOnSet(f, U)
<1>0. \A x \in U : f[x] \in Int
  OBVIOUS
<1>1. SumFunctionOnSet(f, U) = SumFunctionOnSet(f, S) + SumFunctionOnSet(f, U \ S)
  BY <1>0, SumSplit
<1>2. IsFiniteSet(S) /\ IsFiniteSet(U \ S)
  BY FS_Subset, Zenon
<1>3. SumFunctionOnSet(f, S) \in Nat /\ SumFunctionOnSet(f, U \ S) \in Nat
  BY <1>2, SumNat, Zenon
<1> QED BY <1>1, <1>3

\* A table can be summed by rows or by columns.
RowSums(e, I, K) == [i \in I |-> SumFunctionOnSet(e[i], K)]
Column(e, I, k) == [i \in I |-> e[i][k]]
ColumnSums(e, I, K) == [k \in K |-> SumFunctionOnSet(Column(e, I, k), I)]

LEMMA SumExchange ==
  ASSUME NEW e, NEW I, NEW K, IsFiniteSet(I), IsFiniteSet(K), \A i \in I, k \in K : e[i][k] \in Int
  PROVE  SumFunctionOnSet(ColumnSums(e, I, K), K) = SumFunctionOnSet(RowSums(e, I, K), I)
<1> DEFINE rows == RowSums(e, I, K)
           cols == ColumnSums(e, I, K)
           col == [k \in K |-> Column(e, I, k)]
<1>a. \A i \in I : rows[i] = SumFunctionOnSet(e[i], K)
  BY Zenon DEF RowSums
<1>b. \A k \in K : \A i \in I : col[k][i] = e[i][k]
  BY Zenon DEF Column
<1>c. \A k \in K : cols[k] = SumFunctionOnSet(col[k], I)
  BY Zenon DEF ColumnSums
<1> HIDE DEF rows, cols, col
<1> DEFINE Part(s) == [k \in K |-> SumFunctionOnSet(col[k], s)]
           C == {s \in SUBSET I : SumFunctionOnSet(Part(s), K) = SumFunctionOnSet(rows, s)}
<1>0. \A s \in SUBSET I : IsFiniteSet(s)
  BY FS_Subset, Zenon
<1>1. {} \in C
  <2>1. \A k \in K : Part({})[k] = 0
    BY SumNone, Zenon
  <2> DEFINE p == Part({})
  <2>2. SumFunctionOnSet(p, K) = 0
    <3>1. \A k \in K : p[k] = 0
      BY <2>1, Zenon
    <3> HIDE DEF p
    <3> QED BY <3>1, SumZero, Zenon
  <2>3. SumFunctionOnSet(rows, {}) = 0
    BY SumNone, Zenon
  <2> QED BY <2>2, <2>3, Zenon
<1>2. ASSUME NEW s \in SUBSET I, s # {}, \A x \in s : s \ {x} \in C PROVE s \in C
  <2>1. PICK i : i \in s
    BY <1>2, Zenon
  <2> DEFINE r == s \ {i}
             p == Part(s)
             q == Part(r)
  <2>2. IsFiniteSet(s) /\ IsFiniteSet(r) /\ r \in SUBSET I /\ i \in I
    BY <1>0, <2>1, Zenon
  <2>3. \A j \in I : rows[j] \in Int
    BY <1>a, SumType, Zenon
  <2>4. SumFunctionOnSet(rows, s) = rows[i] + SumFunctionOnSet(rows, r)
    <3>1. \A j \in s : rows[j] \in Int
      BY <2>3, Zenon
    <3> QED BY <2>1, <2>2, <3>1, SumTake
  <2>5. ASSUME NEW k \in K
        PROVE  e[i][k] \in Int /\ q[k] \in Int /\ p[k] = e[i][k] + q[k]
    <3>1. \A j \in s : col[k][j] \in Int
      BY <1>b, Zenon
    <3>2. \A j \in r : col[k][j] \in Int
      BY <1>b, Zenon
    <3>3. SumFunctionOnSet(col[k], s) = col[k][i] + SumFunctionOnSet(col[k], r)
      BY <2>1, <2>2, <3>1, SumTake
    <3>4. SumFunctionOnSet(col[k], r) \in Int
      BY <2>2, <3>2, SumType, Zenon
    <3>5. col[k][i] = e[i][k] /\ e[i][k] \in Int
      BY <1>b, <2>2, Zenon
    <3> QED BY <3>3, <3>4, <3>5, Zenon
  <2>6. SumFunctionOnSet(p, K) = SumFunctionOnSet(e[i], K) + SumFunctionOnSet(q, K)
    <3> HIDE DEF p, q
    <3> QED BY <2>5, SumPlus
  <2>7. SumFunctionOnSet(q, K) = SumFunctionOnSet(rows, r)
    BY <1>2, <2>1, Zenon
  <2>8. rows[i] = SumFunctionOnSet(e[i], K)
    BY <1>a, <2>2, Zenon
  <2>9. SumFunctionOnSet(p, K) = SumFunctionOnSet(rows, s)
    <3> HIDE DEF p, q
    <3> QED BY <2>4, <2>6, <2>7, <2>8, Zenon
  <2> QED BY <2>9, Zenon
<1>3. \A s \in SUBSET I : s \in C
  <2> HIDE DEF C
  <2> QED BY <1>1, <1>2, SubsetInduction, Zenon
<1>4. SumFunctionOnSet(Part(I), K) = SumFunctionOnSet(rows, I)
  BY <1>3, Zenon
<1> DEFINE whole == Part(I)
<1>5. \A k \in K : whole[k] = cols[k]
  BY <1>c, Zenon
<1>6. SumFunctionOnSet(whole, K) = SumFunctionOnSet(cols, K)
  <2> HIDE DEF whole
  <2> QED BY <1>5, SumAgree, Zenon
<1> QED BY <1>4, <1>6, Zenon DEF rows, cols

\* Among finitely many numbers there is a greatest one, and a least.
LEMMA Greatest ==
  ASSUME NEW f, NEW S, IsFiniteSet(S), S # {}, \A x \in S : f[x] \in Nat
  PROVE  \E x \in S : \A y \in S : f[y] <= f[x]
<1> DEFINE C == {s \in SUBSET S : s # {} => \E x \in s : \A y \in s : f[y] <= f[x]}
<1>1. {} \in C
  BY Zenon
<1>2. ASSUME NEW s \in SUBSET S, s # {}, \A x \in s : s \ {x} \in C PROVE s \in C
  <2>1. PICK x : x \in s
    BY <1>2, Zenon
  <2>2. CASE s \ {x} = {}
    <3>1. \A y \in s : f[y] <= f[x]
      BY <2>1, <2>2
    <3> QED BY <2>1, <3>1, Zenon
  <2>3. CASE s \ {x} # {}
    <3>1. PICK z \in s \ {x} : \A y \in s \ {x} : f[y] <= f[z]
      BY <1>2, <2>1, <2>3, Zenon
    <3>2. f[x] \in Nat /\ f[z] \in Nat /\ \A y \in s : f[y] \in Nat
      BY <2>1, Zenon
    <3>3. CASE f[z] <= f[x]
      <4>1. \A y \in s : f[y] <= f[x]
        BY <3>1, <3>2, <3>3
      <4> QED BY <2>1, <4>1, Zenon
    <3>4. CASE f[x] <= f[z]
      <4>1. \A y \in s : f[y] <= f[z]
        BY <3>1, <3>2, <3>4, Zenon
      <4> QED BY <4>1, Zenon
    <3> QED BY <3>2, <3>3, <3>4
  <2> QED BY <2>2, <2>3, Zenon
<1>3. \A s \in SUBSET S : s \in C
  <2> HIDE DEF C
  <2> QED BY <1>1, <1>2, SubsetInduction, Zenon
<1> QED BY <1>3, Zenon

LEMMA Least ==
  ASSUME NEW f, NEW S, S # {}, \A x \in S : f[x] \in Nat
  PROVE  \E x \in S : \A y \in S : f[x] <= f[y]
<1> DEFINE T == {f[x] : x \in S}
<1>1. T \in SUBSET Nat /\ T # {}
  BY Zenon
<1>2. PICK n \in T : \A m \in T : n <= m
  <2> HIDE DEF T
  <2> QED BY <1>1, LeastNumber, Zenon
<1> QED BY <1>2, Zenon

============================================================================
