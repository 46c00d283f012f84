----------------------------- MODULE LRUProofs -----------------------------
(* What the operations of LRU preserve, for every key, value and capacity.  *)
EXTENDS LRU, TLAPS

\* The elements of two lists, one after the other.
LEMMA Concatenated ==
  ASSUME NEW S, NEW s \in Seq(S), NEW t \in Seq(S)
  PROVE  /\ s \o t \in Seq(S) /\ Len(s \o t) = Len(s) + Len(t)
         /\ \A i \in 1..Len(s) + Len(t) :
              (s \o t)[i] = IF i <= Len(s) THEN s[i] ELSE t[i - Len(s)]
OBVIOUS

\* The place of a listed key is an index of the list.
LEMMA PositionIsIndex ==
  ASSUME NEW order, NEW k \in Listed(order)
  PROVE  Position(order, k) \in 1..Len(order) /\ order[Position(order, k)] = k
BY DEF Position, Listed

\* A list without its i-th element.
RemoveAt(order, i) == SubSeq(order, 1, i - 1) \o SubSeq(order, i + 1, Len(order))

\* Removing the i-th element closes the gap and leaves the others in order.
LEMMA RemoveAtShifts ==
  ASSUME NEW K, NEW order \in Seq(K), NEW i \in 1..Len(order)
  PROVE  /\ RemoveAt(order, i) \in Seq(K)
         /\ Len(RemoveAt(order, i)) = Len(order) - 1
         /\ \A j \in 1..Len(order) - 1 :
              RemoveAt(order, i)[j] = IF j < i THEN order[j] ELSE order[j + 1]
<1> DEFINE a == SubSeq(order, 1, i - 1)
           b == SubSeq(order, i + 1, Len(order))
<1>1. /\ a \in Seq(K) /\ Len(a) = i - 1
      /\ \A j \in 1..i - 1 : a[j] = order[j]
  OBVIOUS
<1>2. /\ b \in Seq(K) /\ Len(b) = Len(order) - i
      /\ \A j \in 1..Len(order) - i : b[j] = order[i + j]
  OBVIOUS
<1>3. RemoveAt(order, i) = a \o b
  BY DEF RemoveAt
<1> HIDE DEF a, b
<1>0. Len(order) \in Nat /\ i \in Nat
  OBVIOUS
<1>4. /\ a \o b \in Seq(K) /\ Len(a \o b) = Len(order) - 1
      /\ \A j \in 1..Len(order) - 1 :
           (a \o b)[j] = IF j < i THEN a[j] ELSE b[j - (i - 1)]
  <2>1. Len(a) + Len(b) = Len(order) - 1
    BY <1>0, <1>1, <1>2
  <2>2. /\ a \o b \in Seq(K) /\ Len(a \o b) = Len(a) + Len(b)
        /\ \A j \in 1..Len(a) + Len(b) :
             (a \o b)[j] = IF j <= Len(a) THEN a[j] ELSE b[j - Len(a)]
    BY <1>1, <1>2, Concatenated, Zenon
  <2>4. \A j \in 1..Len(order) - 1 : j <= Len(a) <=> j < i
    BY <1>0, <1>1
  <2> QED BY <1>1, <2>1, <2>2, <2>4
<1>5. ASSUME NEW j \in 1..Len(order) - 1
      PROVE  (a \o b)[j] = IF j < i THEN order[j] ELSE order[j + 1]
  <2>1. CASE j < i
    BY <1>1, <1>4, <2>1
  <2>2. CASE j >= i
    <3>1. j - (i - 1) \in 1..Len(order) - i /\ i + (j - (i - 1)) = j + 1
      BY <2>2
    <3> QED BY <1>2, <1>4, <2>2, <3>1
  <2>3. j < i \/ j >= i
    BY <1>0
  <2> QED BY <2>1, <2>2, <2>3, Zenon
<1> QED
  BY <1>3, <1>4, <1>5

\* Unlinking a listed key from a list without repetitions removes that key and
\* nothing else.
LEMMA UnlinkDropsKey ==
  ASSUME NEW K, NEW order \in Seq(K), NEW k \in Listed(order), NoRepeats(order)
  PROVE  LET u == Unlink(order, k) IN
         /\ u \in Seq(K) /\ Len(u) = Len(order) - 1
         /\ Listed(u) = Listed(order) \ {k} /\ NoRepeats(u)
<1> DEFINE p == Position(order, k)
           u == Unlink(order, k)
           e(x) == IF x < p THEN x ELSE x + 1
<1>1. p \in 1..Len(order) /\ order[p] = k /\ Len(order) \in Nat
  BY PositionIsIndex
<1>2. /\ u \in Seq(K) /\ Len(u) = Len(order) - 1
      /\ \A j \in 1..Len(order) - 1 : u[j] = IF j < p THEN order[j] ELSE order[j + 1]
  <2> HIDE DEF p
  <2> QED BY <1>1, RemoveAtShifts, Zenon DEF Unlink, RemoveAt, p
<1> HIDE DEF p, u
<1>3. \A j \in 1..Len(u) : e(j) \in 1..Len(order) /\ e(j) # p /\ u[j] = order[e(j)]
  BY <1>1, <1>2
<1>4. ASSUME NEW i \in 1..Len(order), i # p
      PROVE  \E j \in 1..Len(u) : e(j) = i
  <2>1. CASE i < p
    <3>1. i \in 1..Len(u) /\ e(i) = i
      BY <1>1, <1>2, <2>1
    <3> QED BY <3>1
  <2>2. CASE i > p
    <3>1. i - 1 \in 1..Len(u) /\ e(i - 1) = i
      BY <1>1, <1>2, <2>2
    <3> QED BY <3>1
  <2> QED BY <1>1, <1>4, <2>1, <2>2
<1>5. \A i, j \in 1..Len(u) : e(i) = e(j) => i = j
  BY <1>1, <1>2
<1> HIDE DEF e
<1>6. Listed(u) = Listed(order) \ {k}
  <2>1. ASSUME NEW x \in Listed(u) PROVE x \in Listed(order) \ {k}
    <3>1. PICK j \in 1..Len(u) : x = u[j]
      BY DEF Listed
    <3> QED BY <1>1, <1>3, <3>1 DEF Listed, NoRepeats
  <2>2. ASSUME NEW x \in Listed(order) \ {k} PROVE x \in Listed(u)
    <3>1. PICK i \in 1..Len(order) : x = order[i]
      BY DEF Listed
    <3>2. PICK j \in 1..Len(u) : e(j) = i
      BY <1>1, <1>4, <3>1
    <3> QED BY <1>3, <3>1, <3>2 DEF Listed
  <2> QED BY <2>1, <2>2
<1>7. NoRepeats(u)
  BY <1>3, <1>5 DEF NoRepeats
<1> QED BY <1>2, <1>6, <1>7 DEF u

\* Pushing an unlisted key to the front keeps a list free of repetitions.
LEMMA PushFrontAddsKey ==
  ASSUME NEW K, NEW order \in Seq(K), NEW k \in K, k \notin Listed(order),
         NoRepeats(order)
  PROVE  LET p == <<k>> \o order IN
         /\ p \in Seq(K) /\ Len(p) = Len(order) + 1 /\ p[1] = k
         /\ Listed(p) = Listed(order) \cup {k} /\ NoRepeats(p)
<1> DEFINE p == <<k>> \o order
<1>0. Len(order) \in Nat
  OBVIOUS
<1>1. /\ p \in Seq(K) /\ Len(p) = Len(order) + 1
      /\ \A i \in 1..Len(order) + 1 : p[i] = IF i <= 1 THEN k ELSE order[i - 1]
  <2>1. <<k>> \in Seq(K) /\ Len(<<k>>) = 1 /\ <<k>>[1] = k
    OBVIOUS
  <2>2. /\ p \in Seq(K) /\ Len(p) = Len(<<k>>) + Len(order)
        /\ \A i \in 1..Len(<<k>>) + Len(order) :
             p[i] = IF i <= Len(<<k>>) THEN <<k>>[i] ELSE order[i - Len(<<k>>)]
    BY <2>1, Concatenated
  <2> HIDE DEF p
  <2>3. Len(p) = Len(order) + 1
    BY <1>0, <2>1, <2>2
  <2>4. ASSUME NEW i \in 1..Len(order) + 1
        PROVE  p[i] = IF i <= 1 THEN k ELSE order[i - 1]
    BY <1>0, <2>1, <2>2
  <2> QED BY <2>2, <2>3, <2>4
<1> HIDE DEF p
<1>2. 1 \in 1..Len(p) /\ p[1] = k
  BY <1>0, <1>1
<1>3. \A i \in 1..Len(order) : i + 1 \in 1..Len(p) /\ p[i + 1] = order[i]
  BY <1>0, <1>1
<1>4. \A i \in 1..Len(p) : i = 1 \/ (i - 1 \in 1..Len(order) /\ p[i] = order[i - 1])
  BY <1>0, <1>1
<1>5. Listed(p) = Listed(order) \cup {k}
  <2>1. ASSUME NEW x \in Listed(p) PROVE x \in Listed(order) \cup {k}
    BY <1>2, <1>4 DEF Listed
  <2>2. ASSUME NEW x \in Listed(order) PROVE x \in Listed(p)
    BY <1>3, Zenon DEF Listed
  <2>3. k \in Listed(p)
    BY <1>2 DEF Listed
  <2> QED BY <2>1, <2>2, <2>3
<1>6. ASSUME NEW i \in 1..Len(p), NEW j \in 1..Len(p), p[i] = p[j]
      PROVE  i = j
  <2>1. CASE i = 1 /\ j = 1
    BY <2>1
  <2>2. CASE i # 1 /\ j # 1
    <3>1. i - 1 = j - 1
      BY <1>4, <1>6, <2>2 DEF NoRepeats
    <3> QED BY <1>0, <1>1, <3>1
  <2>3. CASE i = 1 /\ j # 1
    BY <1>2, <1>4, <1>6, <2>3 DEF Listed
  <2>4. CASE i # 1 /\ j = 1
    BY <1>2, <1>4, <1>6, <2>4 DEF Listed
  <2> QED BY <2>1, <2>2, <2>3, <2>4
<1>7. NoRepeats(p)
  BY <1>6 DEF NoRepeats
<1> QED BY <1>1, <1>2, <1>5, <1>7 DEF p

\* MoveToFront permutes a list.
LEMMA MoveToFrontPermutes ==
  ASSUME NEW K, NEW order \in Seq(K), NEW k \in Listed(order), NoRepeats(order)
  PROVE  LET m == MoveToFront(order, k) IN
         /\ m \in Seq(K) /\ Len(m) = Len(order)
         /\ Listed(m) = Listed(order) /\ NoRepeats(m)
<1> DEFINE u == Unlink(order, k)
           m == MoveToFront(order, k)
<1>0. Len(order) \in Nat /\ k \in K
  BY DEF Listed
<1>1. /\ u \in Seq(K) /\ Len(u) = Len(order) - 1
      /\ Listed(u) = Listed(order) \ {k} /\ NoRepeats(u)
  BY UnlinkDropsKey
<1>2. m = <<k>> \o u
  BY DEF MoveToFront
<1> HIDE DEF u, m
<1>3. /\ m \in Seq(K) /\ Len(m) = Len(u) + 1
      /\ Listed(m) = Listed(u) \cup {k} /\ NoRepeats(m)
  BY <1>0, <1>1, <1>2, PushFrontAddsKey
<1>4. Len(m) = Len(order)
  BY <1>0, <1>1, <1>3
<1>5. Listed(m) = Listed(order)
  BY <1>1, <1>3
<1> QED BY <1>3, <1>4, <1>5 DEF m

\* Cutting a list without repetitions after its n-th element drops exactly the
\* keys listed after it.
LEMMA CutDropsTail ==
  ASSUME NEW K, NEW order \in Seq(K), NoRepeats(order), NEW n \in 0..Len(order)
  PROVE  LET c == SubSeq(order, 1, n) IN
         /\ c \in Seq(K) /\ Len(c) = n
         /\ Listed(c) = Listed(order) \ {order[i] : i \in n + 1..Len(order)}
         /\ NoRepeats(c)
<1> DEFINE c == SubSeq(order, 1, n)
<1>0. Len(order) \in Nat /\ n \in Nat
  OBVIOUS
<1>1. c \in Seq(K) /\ Len(c) = n /\ \A i \in 1..n : c[i] = order[i]
  OBVIOUS
<1> HIDE DEF c
<1>2. \A i \in 1..n : i \in 1..Len(order) /\ i \notin n + 1..Len(order)
  BY <1>0
<1>3. \A i \in 1..Len(order) : i \in 1..n \/ i \in n + 1..Len(order)
  BY <1>0
<1>4. \A i \in n + 1..Len(order) : i \in 1..Len(order)
  BY <1>0
<1>5. Listed(c) = Listed(order) \ {order[i] : i \in n + 1..Len(order)}
  <2>1. ASSUME NEW x \in Listed(c)
        PROVE  x \in Listed(order) \ {order[i] : i \in n + 1..Len(order)}
    BY <1>1, <1>2, <1>4 DEF Listed, NoRepeats
  <2>2. ASSUME NEW x \in Listed(order) \ {order[i] : i \in n + 1..Len(order)}
        PROVE  x \in Listed(c)
    BY <1>1, <1>3 DEF Listed
  <2> QED BY <2>1, <2>2
<1>6. NoRepeats(c)
  BY <1>1, <1>2 DEF NoRepeats
<1> QED BY <1>1, <1>5, <1>6 DEF c

----------------------------------------------------------------------------
\* A new LRU (newLRU, NewResponseCache) is well formed.
LEMMA EmptyIsLRU ==
  ASSUME NEW K, NEW V
  PROVE  /\ IsLRU(EmptyLRU, K, V) /\ Consistent(EmptyLRU)
         /\ DOMAIN EmptyLRU.items = {} /\ Len(EmptyLRU.order) = 0
BY DEF IsLRU, EmptyLRU, Consistent, Listed, NoRepeats

\* A lookup (lru.get) changes the order of the list only.
LEMMA TouchKeeps ==
  ASSUME NEW K, NEW V, NEW l, IsLRU(l, K, V), Consistent(l), NEW k
  PROVE  LET t == Touch(l, k) IN
         /\ IsLRU(t, K, V) /\ Consistent(t)
         /\ t.items = l.items /\ Len(t.order) = Len(l.order)
<1>1. CASE ~Holds(l, k)
  BY <1>1 DEF Touch
<1>2. CASE Holds(l, k)
  <2> DEFINE m == MoveToFront(l.order, k)
             t == Touch(l, k)
  <2>1. t = [items |-> l.items, order |-> m]
    BY <1>2 DEF Touch, IsLRU
  <2>2. k \in Listed(l.order) /\ NoRepeats(l.order) /\ l.order \in Seq(K)
    BY <1>2 DEF Holds, IsLRU, Consistent
  <2>3. /\ m \in Seq(K) /\ Len(m) = Len(l.order)
        /\ Listed(m) = Listed(l.order) /\ NoRepeats(m)
    BY <2>2, MoveToFrontPermutes
  <2> HIDE DEF m, t
  <2>4. t.items = l.items /\ t.order = m
    BY <2>1
  <2>5. IsLRU(t, K, V)
    BY <2>1, <2>3, <2>4 DEF IsLRU
  <2>6. Consistent(t)
    BY <2>3, <2>4 DEF Consistent
  <2> QED BY <2>3, <2>4, <2>5, <2>6 DEF t
<1> QED BY <1>1, <1>2

\* A removal (lru.remove) drops the key from map and list alike.
LEMMA RemoveEntryKeeps ==
  ASSUME NEW K, NEW V, NEW l, IsLRU(l, K, V), Consistent(l), NEW k
  PROVE  LET r == RemoveEntry(l, k) IN
         /\ IsLRU(r, K, V) /\ Consistent(r)
         /\ DOMAIN r.items = DOMAIN l.items \ {k}
         /\ \A x \in DOMAIN r.items : r.items[x] = l.items[x]
         /\ Len(r.order) <= Len(l.order)
<1>0. Len(l.order) \in Nat
  BY DEF IsLRU
<1>1. CASE ~Holds(l, k)
  BY <1>0, <1>1 DEF RemoveEntry, Holds
<1>2. CASE Holds(l, k)
  <2> DEFINE u == Unlink(l.order, k)
             f == Restrict(l.items, DOMAIN l.items \ {k})
             r == RemoveEntry(l, k)
  <2>1. r = [items |-> f, order |-> u]
    BY <1>2 DEF RemoveEntry
  <2>2. k \in Listed(l.order) /\ NoRepeats(l.order) /\ l.order \in Seq(K)
    BY <1>2 DEF Holds, IsLRU, Consistent
  <2>3. /\ u \in Seq(K) /\ Len(u) = Len(l.order) - 1
        /\ Listed(u) = Listed(l.order) \ {k} /\ NoRepeats(u)
    BY <2>2, UnlinkDropsKey
  <2>4. /\ DOMAIN f = DOMAIN l.items \ {k}
        /\ \A x \in DOMAIN f : f[x] = l.items[x]
        /\ f \in [DOMAIN f -> V]
    BY DEF Restrict, IsLRU
  <2> HIDE DEF u, f, r
  <2>5. r.items = f /\ r.order = u
    BY <2>1
  <2>6. IsLRU(r, K, V)
    BY <2>1, <2>3, <2>4, <2>5 DEF IsLRU
  <2>7. Consistent(r)
    BY <2>3, <2>4, <2>5 DEF Consistent
  <2>8. Len(r.order) <= Len(l.order)
    BY <1>0, <2>3, <2>5
  <2> QED BY <2>4, <2>5, <2>6, <2>7, <2>8 DEF r
<1> QED BY <1>1, <1>2

\* A put (lru.put) stores the value under its key, invents no other entry, and
\* leaves no more entries than the capacity.
LEMMA PutEntryKeeps ==
  ASSUME NEW K, NEW V, NEW l, IsLRU(l, K, V), Consistent(l),
         NEW k \in K, NEW v \in V, NEW capacity \in Nat \ {0},
         Len(l.order) <= capacity
  PROVE  LET r == PutEntry(l, k, v, capacity) IN
         /\ IsLRU(r, K, V) /\ Consistent(r) /\ Len(r.order) <= capacity
         /\ k \in DOMAIN r.items /\ r.items[k] = v
         /\ \A x \in DOMAIN r.items \ {k} : x \in DOMAIN l.items /\ r.items[x] = l.items[x]
<1> DEFINE r == PutEntry(l, k, v, capacity)
<1>0. l.order \in Seq(K) /\ Len(l.order) \in Nat /\ NoRepeats(l.order)
  BY DEF IsLRU, Consistent
<1>1. CASE Holds(l, k)
  <2> DEFINE m == MoveToFront(l.order, k)
             f == [l.items EXCEPT ![k] = v]
  <2>1. r = [items |-> f, order |-> m]
    BY <1>1 DEF PutEntry
  <2>2. /\ m \in Seq(K) /\ Len(m) = Len(l.order)
        /\ Listed(m) = Listed(l.order) /\ NoRepeats(m)
    BY <1>0, <1>1, MoveToFrontPermutes DEF Holds, Consistent
  <2>3. /\ DOMAIN f = DOMAIN l.items /\ f[k] = v /\ k \in DOMAIN f
        /\ \A x \in DOMAIN f \ {k} : f[x] = l.items[x]
        /\ f \in [DOMAIN f -> V]
    BY <1>1 DEF IsLRU, Holds
  <2> HIDE DEF m, f, r
  <2>4. r.items = f /\ r.order = m
    BY <2>1
  <2>5. IsLRU(r, K, V)
    BY <2>1, <2>2, <2>3, <2>4 DEF IsLRU
  <2>6. Consistent(r)
    BY <2>2, <2>3, <2>4 DEF Consistent
  <2> QED BY <2>2, <2>3, <2>4, <2>5, <2>6 DEF r
<1>2. CASE ~Holds(l, k)
  <2> DEFINE pushed  == <<k>> \o l.order
             n       == IF Len(pushed) > capacity THEN capacity ELSE Len(pushed)
             evicted == {pushed[i] : i \in capacity + 1 .. Len(pushed)}
             f       == [x \in (DOMAIN l.items \cup {k}) \ evicted |->
                           IF x = k THEN v ELSE l.items[x]]
             kept    == SubSeq(pushed, 1, n)
  <2>1. r = [items |-> f, order |-> kept]
    BY <1>2, Zenon DEF PutEntry
  <2>2. /\ pushed \in Seq(K) /\ Len(pushed) = Len(l.order) + 1 /\ pushed[1] = k
        /\ Listed(pushed) = Listed(l.order) \cup {k} /\ NoRepeats(pushed)
    BY <1>0, <1>2, PushFrontAddsKey DEF Holds, Consistent
  <2> HIDE DEF pushed
  <2>3. n \in 0..Len(pushed) /\ n <= capacity
    BY <1>0, <2>2
  <2>4. n + 1 .. Len(pushed) = capacity + 1 .. Len(pushed)
    BY <1>0, <2>2
  <2>5. /\ kept \in Seq(K) /\ Len(kept) = n
        /\ Listed(kept) = Listed(pushed) \ evicted /\ NoRepeats(kept)
    <3> HIDE DEF n
    <3> QED BY <2>2, <2>3, <2>4, CutDropsTail
  <2>6. k \notin evicted
    BY <1>0, <2>2 DEF NoRepeats
  <2> HIDE DEF evicted, kept, n, r
  <2>7. /\ DOMAIN f = (DOMAIN l.items \cup {k}) \ evicted
        /\ k \in DOMAIN f /\ f[k] = v
        /\ \A x \in DOMAIN f \ {k} : x \in DOMAIN l.items /\ f[x] = l.items[x]
        /\ f \in [DOMAIN f -> V]
    BY <2>6 DEF IsLRU
  <2> HIDE DEF f
  <2>8. r.items = f /\ r.order = kept
    BY <2>1
  <2>9. IsLRU(r, K, V)
    BY <2>1, <2>5, <2>7, <2>8 DEF IsLRU
  <2>10. Consistent(r)
    BY <2>2, <2>5, <2>7, <2>8 DEF Consistent
  <2> QED BY <2>3, <2>5, <2>7, <2>8, <2>9, <2>10 DEF r
<1> QED BY <1>1, <1>2
============================================================================
