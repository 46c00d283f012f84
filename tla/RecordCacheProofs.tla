------------------------- MODULE RecordCacheProofs -------------------------
(***************************************************************************)
(* Proofs about RecordCache, for any set of requests, classes and keys and *)
(* any configuration: the invariant of the cache is built in four layers,  *)
(* each inductive relative to the ones before it.                          *)
(***************************************************************************)
EXTENDS RecordCache, LRUProofs

----------------------------------------------------------------------------
(* Goroutines, objects and results.                                        *)

\* A request's own goroutine and its refreshAsync are two different goroutines,
\* and no two requests share one.
LEMMA GoroutineFacts ==
  /\ \A q \in Request : Serve(q) \in Goroutine /\ Refresh(q) \in Goroutine
  /\ \A p, q \in Request : Serve(p) # Refresh(q)
  /\ \A p, q \in Request : Serve(p) = Serve(q) => p = q
  /\ \A p, q \in Request : Refresh(p) = Refresh(q) => p = q
BY DEF Goroutine, Serve, Refresh

\* An object is given by its class and its key, and is never None.
LEMMA ObjectFacts ==
  /\ \A o \in Object : o.class \in Class /\ o.key \in Key
  /\ \A o \in Object : o = [class |-> o.class, key |-> o.key]
  /\ None \notin Object
BY NoneAssumption DEF Object

\* The fields of results and cache entries have their types.
LEMMA ResultFacts ==
  /\ \A r \in Result : r.of \in Object /\ r.err \in Error /\ r.at \in Nat
  /\ \A o \in Object, e \in Error, t \in Nat : [of |-> o, err |-> e, at |-> t] \in Result
  /\ \A r \in Result, t \in Nat : [res |-> r, expires |-> t] \in Entry
  /\ \A e \in Entry : e.res \in Result /\ e.expires \in Nat
BY DEF Result, Entry

\* ttlFor never gives a zero time to live: New panics on a TTL that is not
\* positive and defaults NegTTL.
LEMMA TtlForIsPositive == \A e : TtlFor(e) \in Nat \ {0}
BY ConfigAssumption DEF TtlFor

----------------------------------------------------------------------------
(* First layer: types, shapes, and the singleflight table.                 *)

TypeInv == TypeOK /\ BucketsConsistent /\ ShapeInv /\ FlightInv

\* A cache made by New has well-formed, empty buckets and an empty singleflight
\* table.
LEMMA TypeInit == Init => TypeInv
<1> SUFFICES ASSUME Init PROVE TypeInv
  OBVIOUS
<1>1. \A c \in Class : /\ IsLRU(bucket[c], Key, Entry) /\ Consistent(bucket[c])
                       /\ Len(bucket[c].order) <= Size
  <2> SUFFICES ASSUME NEW c \in Class
               PROVE  /\ IsLRU(bucket[c], Key, Entry) /\ Consistent(bucket[c])
                      /\ Len(bucket[c].order) <= Size
    OBVIOUS
  <2>1. bucket[c] = EmptyLRU
    BY DEF Init
  <2> QED BY <2>1, EmptyIsLRU, ConfigAssumption
<1>2. TypeOK
  <2>1. bucket = [c \in Class |-> bucket[c]]
    BY DEF Init
  <2> QED BY <1>1, <2>1 DEF Init, TypeOK, PC
<1>3. ShapeInv
  BY GoroutineFacts DEF Init, ShapeInv, Pending
<1>4. FlightInv
  BY GoroutineFacts DEF Init, FlightInv, NoLostWakeup, Leading
<1> QED BY <1>1, <1>2, <1>3, <1>4 DEF TypeInv, BucketsConsistent

\* The part of TypeInv that is about the buckets.
BucketInv ==
  /\ bucket = [c \in Class |-> bucket[c]]
  /\ \A c \in Class : /\ IsLRU(bucket[c], Key, Entry) /\ Consistent(bucket[c])
                      /\ Len(bucket[c].order) <= Size

\* Replacing one bucket by a well-formed one within Config.Size keeps all buckets
\* well formed.
LEMMA ReplaceBucket ==
  ASSUME BucketInv, NEW c \in Class, NEW l,
         IsLRU(l, Key, Entry), Consistent(l), Len(l.order) <= Size,
         bucket' = [bucket EXCEPT ![c] = l]
  PROVE  BucketInv'
<1>1. bucket' = [d \in Class |-> bucket'[d]]
  BY DEF BucketInv
<1>2. ASSUME NEW d \in Class
      PROVE  /\ IsLRU(bucket'[d], Key, Entry) /\ Consistent(bucket'[d])
             /\ Len(bucket'[d].order) <= Size
  <2>1. CASE d = c
    <3>1. bucket'[d] = l
      BY <2>1 DEF BucketInv
    <3> QED BY <3>1
  <2>2. CASE d # c
    <3>1. bucket'[d] = bucket[d]
      BY <2>2 DEF BucketInv
    <3> QED BY <3>1 DEF BucketInv
  <2> QED BY <2>1, <2>2
<1> QED BY <1>1, <1>2 DEF BucketInv

\* Every step of every goroutine keeps the buckets well formed and within
\* Config.Size.
LEMMA BucketStep ==
  ASSUME TypeInv, [Next]_vars
  PROVE  BucketInv'
<1>0. BucketInv
  BY DEF TypeInv, TypeOK, BucketsConsistent, BucketInv
<1>1. CASE UNCHANGED bucket
  BY <1>0, <1>1 DEF BucketInv
<1>2. ASSUME NEW q \in Request, HitFresh(q) \/ HitStale(q) \/ HitExpired(q)
      PROVE  BucketInv'
  <2> DEFINE g == Serve(q)
  <2>1. want[g].class \in Class
    BY <1>2, GoroutineFacts, ObjectFacts DEF TypeInv, ShapeInv, HitFresh, HitStale, HitExpired
  <2>2. bucket' = [bucket EXCEPT ![want[g].class] = Touch(bucket[want[g].class], want[g].key)]
    BY <1>2 DEF HitFresh, HitStale, HitExpired, TouchBucket
  <2> HIDE DEF g
  <2>3. LET l == Touch(bucket[want[g].class], want[g].key) IN
        IsLRU(l, Key, Entry) /\ Consistent(l) /\ Len(l.order) <= Size
    BY <1>0, <2>1, TouchKeeps DEF BucketInv
  <2> QED BY <1>0, <2>1, <2>2, <2>3, ReplaceBucket, Zenon
<1>3. ASSUME NEW q \in Request, RemoveExpired(q)
      PROVE  BucketInv'
  <2> DEFINE g == Serve(q)
  <2>1. want[g].class \in Class
    BY <1>3, GoroutineFacts, ObjectFacts DEF TypeInv, ShapeInv, RemoveExpired
  <2>2. bucket' = [bucket EXCEPT ![want[g].class] =
                     RemoveEntry(bucket[want[g].class], want[g].key)]
    BY <1>3 DEF RemoveExpired
  <2> HIDE DEF g
  <2> DEFINE b == bucket[want[g].class]
             l == RemoveEntry(b, want[g].key)
  <2>3. /\ IsLRU(b, Key, Entry) /\ Consistent(b) /\ Len(b.order) <= Size
        /\ Len(b.order) \in Nat
    BY <1>0, <2>1, SMTT(30) DEF BucketInv, IsLRU
  <2> HIDE DEF b
  <2>4. IsLRU(l, Key, Entry) /\ Consistent(l) /\ Len(l.order) <= Len(b.order)
    BY <2>3, RemoveEntryKeeps
  <2> HIDE DEF l
  <2>5. Len(l.order) <= Size
    BY <2>3, <2>4, ConfigAssumption DEF IsLRU
  <2> QED BY <1>0, <2>1, <2>2, <2>4, <2>5, ReplaceBucket, Zenon DEF b, l
<1>4. ASSUME NEW g \in Goroutine, Put(g)
      PROVE  BucketInv'
  <2> DEFINE b == bucket[want[g].class]
             v == [res |-> res[g], expires |-> expires[g]]
             l == PutEntry(b, want[g].key, v, Size)
  <2>1. want[g].class \in Class /\ want[g].key \in Key
    BY <1>4, ObjectFacts DEF TypeInv, ShapeInv, Put
  <2>2. v \in Entry
    BY <1>4, ResultFacts DEF TypeInv, TypeOK, ShapeInv, Put, Pending
  <2>3. bucket' = [bucket EXCEPT ![want[g].class] = l]
    BY <1>4 DEF Put
  <2> HIDE DEF v
  <2>4. IsLRU(l, Key, Entry) /\ Consistent(l) /\ Len(l.order) <= Size
    BY <1>0, <2>1, <2>2, PutEntryKeeps, ConfigAssumption DEF BucketInv
  <2> HIDE DEF l
  <2> QED BY <1>0, <2>1, <2>3, <2>4, ReplaceBucket, Zenon
<1>5. ASSUME NEW q \in Request, PanicProcess(q)
      PROVE  BucketInv'
  <2>1. bucket' = [c \in Class |-> EmptyLRU]
    BY <1>5 DEF PanicProcess
  <2>2. \A c \in Class : bucket'[c] = EmptyLRU
    BY <2>1
  <2> QED BY <2>1, <2>2, EmptyIsLRU, ConfigAssumption DEF BucketInv
<1>6. CASE UNCHANGED vars
  BY <1>1, <1>6 DEF vars
<1>7. CASE Next
  BY <1>1, <1>2, <1>3, <1>4, <1>5, <1>7, Zenon
     DEF Next, Lookup, Flight, Get, Miss, PanicRequest, Lead, Join, JoinLate, Fetch,
         Done, Forget, Stamp, Tick
<1> QED BY <1>6, <1>7

\* The part of TypeInv that is not about the buckets.
RestInv ==
  /\ now \in Nat
  /\ DOMAIN calls \subseteq Key /\ calls \in [DOMAIN calls -> Goroutine]
  /\ pc \in [Goroutine -> PC]
  /\ want \in [Goroutine -> Object \cup {None}]
  /\ began \in [Goroutine -> Nat]
  /\ res \in [Goroutine -> Result \cup {None}]
  /\ expires \in [Goroutine -> Nat]
  /\ ShapeInv

\* Every step keeps the types of the other variables and what each goroutine
\* holds at each place of getOrLoad and refreshAsync.
LEMMA RestStep ==
  ASSUME TypeInv, [Next]_vars
  PROVE  RestInv'
<1>0. RestInv
  BY DEF TypeInv, TypeOK, RestInv
<1>1. ASSUME NEW q \in Request, NEW o \in Asked, Get(q, o)
      PROVE  RestInv'
  BY <1>0, <1>1, GoroutineFacts, SourceAssumption DEF RestInv, ShapeInv, Get, Goto, PC, Pending
<1>2. ASSUME NEW q \in Request, HitFresh(q) \/ HitStale(q)
      PROVE  RestInv'
  <2> DEFINE g == Serve(q)
  <2>1. g \in Goroutine /\ want[g] \in Object
    BY <1>0, <1>2, GoroutineFacts DEF RestInv, ShapeInv, HitFresh, HitStale
  <2>2. EntryOf(g).res \in Result
    <3>1. bucket[want[g].class].items[want[g].key] \in Entry
      BY <1>2, <2>1, ObjectFacts
         DEF TypeInv, TypeOK, IsLRU, HitFresh, HitStale, Found, Holds
    <3> QED BY <3>1, ResultFacts DEF EntryOf
  <2>3. CASE HitFresh(q)
    BY <1>0, <2>1, <2>2, <2>3, GoroutineFacts
       DEF RestInv, ShapeInv, HitFresh, Goto, PC, Pending
  <2>4. CASE HitStale(q)
    BY <1>0, <2>1, <2>2, <2>4, GoroutineFacts
       DEF RestInv, ShapeInv, HitStale, PC, Pending
  <2> QED BY <1>2, <2>3, <2>4
<1>3. ASSUME NEW q \in Request, HitExpired(q) \/ Miss(q) \/ RemoveExpired(q)
      PROVE  RestInv'
  BY <1>0, <1>3, GoroutineFacts
     DEF RestInv, ShapeInv, HitExpired, Miss, RemoveExpired, Goto, PC, Pending
<1>4. ASSUME NEW q \in Request, PanicRequest(q)
      PROVE  RestInv'
  BY <1>0, <1>4, GoroutineFacts DEF RestInv, ShapeInv, PanicRequest, Panics, Goto, PC, Pending
<1>5. ASSUME NEW q \in Request, PanicProcess(q)
      PROVE  RestInv'
  BY <1>0, <1>5, GoroutineFacts DEF RestInv, ShapeInv, PanicProcess, PC, Pending
<1>6. ASSUME NEW g \in Goroutine, Lead(g)
      PROVE  RestInv'
  BY <1>0, <1>6, GoroutineFacts, ObjectFacts DEF RestInv, ShapeInv, Lead, Goto, PC, Pending
<1>7. ASSUME NEW g \in Goroutine, Join(g) \/ Stamp(g) \/ Put(g)
      PROVE  RestInv'
  BY <1>0, <1>7, GoroutineFacts, TtlForIsPositive
     DEF RestInv, ShapeInv, Join, Stamp, Put, Goto, PC, Pending
<1>8. ASSUME NEW g \in Goroutine, NEW e \in Error, Fetch(g, e)
      PROVE  RestInv'
  BY <1>0, <1>8, GoroutineFacts, ResultFacts
     DEF RestInv, ShapeInv, Fetch, Goto, PC, Pending
<1>9. ASSUME NEW g \in Goroutine, Forget(g)
      PROVE  RestInv'
  BY <1>0, <1>9, GoroutineFacts DEF RestInv, ShapeInv, Forget, Restrict, Goto, PC, Pending
<1>10. ASSUME NEW g \in Goroutine, JoinLate(g)
       PROVE  RestInv'
  <2>1. Leader(g) \in Goroutine /\ res[Leader(g)] \in Result
    BY <1>0, <1>10 DEF RestInv, ShapeInv, JoinLate, Leader, TypeInv, FlightInv, Leading, Unfinished, Pending
  <2> QED
    BY <1>0, <1>10, <2>1, GoroutineFacts DEF RestInv, ShapeInv, JoinLate, Goto, PC, Pending
<1>11. ASSUME NEW g \in Goroutine, Done(g)
       PROVE  RestInv'
  BY <1>0, <1>11, GoroutineFacts
     DEF RestInv, ShapeInv, Done, IsWaitingFor, PC, Pending
<1>12. CASE Tick
  BY <1>0, <1>12, ConfigAssumption DEF RestInv, ShapeInv, Tick
<1>13. CASE UNCHANGED vars
  BY <1>0, <1>13 DEF RestInv, ShapeInv, vars
<1> QED
  BY <1>1, <1>2, <1>3, <1>4, <1>5, <1>6, <1>7, <1>8, <1>9, <1>10, <1>11,
     <1>12, <1>13
     DEF Next, Lookup, Flight

\* Every step keeps the singleflight table equal to the set of calls under way.
LEMMA FlightStep ==
  ASSUME TypeInv, [Next]_vars
  PROVE  FlightInv'
<1>0. RestInv /\ FlightInv
  BY DEF TypeInv, TypeOK, RestInv
<1> USE DEF NoLostWakeup, Leading, Leader, Unfinished
<1>1. ASSUME NEW q \in Request, NEW o \in Asked, Get(q, o)
      PROVE  FlightInv'
  BY <1>0, <1>1, GoroutineFacts DEF RestInv, FlightInv, Get, Goto
<1>2. ASSUME NEW q \in Request, HitFresh(q) \/ HitExpired(q) \/ Miss(q) \/ RemoveExpired(q)
      PROVE  FlightInv'
  <2>1. PICK label \in {"returned", "remove", "flight"} : pc' = [pc EXCEPT ![Serve(q)] = label]
    BY <1>2 DEF HitFresh, HitExpired, Miss, RemoveExpired, Goto
  <2>2. pc[Serve(q)] \in {"lookup", "remove"} /\ calls' = calls /\ want' = want
    BY <1>2 DEF HitFresh, HitExpired, Miss, RemoveExpired
  <2> QED BY <1>0, <2>1, <2>2, GoroutineFacts DEF RestInv, FlightInv
<1>3. ASSUME NEW q \in Request, HitStale(q)
      PROVE  FlightInv'
  <2>1. pc[Refresh(q)] = "idle"
    BY <1>0, <1>3 DEF RestInv, ShapeInv, HitStale
  <2> QED BY <1>0, <1>3, <2>1, GoroutineFacts, SMTT(30) DEF RestInv, FlightInv, HitStale
<1>4. ASSUME NEW q \in Request, PanicRequest(q)
      PROVE  FlightInv'
  BY <1>0, <1>4, GoroutineFacts DEF RestInv, FlightInv, PanicRequest, Panics, Goto
<1>5. ASSUME NEW q \in Request, PanicProcess(q)
      PROVE  FlightInv'
  BY <1>0, <1>5, GoroutineFacts DEF RestInv, FlightInv, PanicProcess
<1>6. ASSUME NEW g \in Goroutine, Lead(g)
      PROVE  FlightInv'
  BY <1>0, <1>6, SMTT(30) DEF RestInv, FlightInv, Lead, Goto
<1>7. ASSUME NEW g \in Goroutine, Join(g) \/ JoinLate(g) \/ Stamp(g) \/ Put(g)
      PROVE  FlightInv'
  BY <1>0, <1>7, SMTT(30) DEF RestInv, FlightInv, Join, JoinLate, Stamp, Put, Goto
<1>8. ASSUME NEW g \in Goroutine, NEW e \in Error, Fetch(g, e)
      PROVE  FlightInv'
  BY <1>0, <1>8 DEF RestInv, FlightInv, Fetch, Goto
<1>9. ASSUME NEW g \in Goroutine, Done(g)
      PROVE  FlightInv'
  BY <1>0, <1>9 DEF RestInv, FlightInv, Done, IsWaitingFor
<1>10. ASSUME NEW g \in Goroutine, Forget(g)
       PROVE  FlightInv'
  BY <1>0, <1>10 DEF RestInv, FlightInv, Forget, Restrict, Goto
<1>11. CASE Tick
  BY <1>0, <1>11 DEF RestInv, FlightInv, Tick
<1>12. CASE UNCHANGED vars
  BY <1>0, <1>12 DEF RestInv, FlightInv, vars
<1> QED
  BY <1>1, <1>2, <1>3, <1>4, <1>5, <1>6, <1>7, <1>8, <1>9, <1>10, <1>11, <1>12
     DEF Next, Lookup, Flight

----------------------------------------------------------------------------
(* What a step can do to the entries of the buckets.                       *)

\* An entry of a bucket after a step was there before, unchanged, unless the step
\* is a put of that very key.
LEMMA ItemsStep ==
  ASSUME TypeInv, [Next]_vars, NEW c \in Class, NEW k \in DOMAIN bucket'[c].items
  PROVE  \/ k \in DOMAIN bucket[c].items /\ bucket'[c].items[k] = bucket[c].items[k]
         \/ \E g \in Goroutine :
              /\ Put(g) /\ want[g] = [class |-> c, key |-> k]
              /\ bucket'[c].items[k] = [res |-> res[g], expires |-> expires[g]]
<1> DEFINE Kept == k \in DOMAIN bucket[c].items /\ bucket'[c].items[k] = bucket[c].items[k]
           PutBy(g) == /\ Put(g) /\ want[g] = [class |-> c, key |-> k]
                       /\ bucket'[c].items[k] = [res |-> res[g], expires |-> expires[g]]
<1>0. BucketInv
  BY DEF TypeInv, TypeOK, BucketsConsistent, BucketInv
<1>1. CASE UNCHANGED bucket
  BY <1>1
<1>2. ASSUME NEW q \in Request, HitFresh(q) \/ HitStale(q) \/ HitExpired(q)
      PROVE  Kept
  <2> DEFINE g == Serve(q)
             l == Touch(bucket[want[g].class], want[g].key)
  <2>1. want[g].class \in Class
    BY <1>2, GoroutineFacts, ObjectFacts DEF TypeInv, ShapeInv, HitFresh, HitStale, HitExpired
  <2>2. bucket' = [bucket EXCEPT ![want[g].class] = l]
    BY <1>2 DEF HitFresh, HitStale, HitExpired, TouchBucket
  <2>3. l.items = bucket[want[g].class].items
    BY <1>0, <2>1, TouchKeeps DEF BucketInv
  <2> HIDE DEF g, l
  <2>4. bucket'[c].items = bucket[c].items
    BY <1>0, <2>1, <2>2, <2>3 DEF BucketInv
  <2> QED BY <2>4
<1>3. ASSUME NEW q \in Request, RemoveExpired(q)
      PROVE  Kept
  <2> DEFINE g == Serve(q)
             b == bucket[want[g].class]
             l == RemoveEntry(b, want[g].key)
  <2>1. want[g].class \in Class
    BY <1>3, GoroutineFacts, ObjectFacts DEF TypeInv, ShapeInv, RemoveExpired
  <2>2. bucket' = [bucket EXCEPT ![want[g].class] = l]
    BY <1>3 DEF RemoveExpired
  <2>3. \A x \in DOMAIN l.items : x \in DOMAIN b.items /\ l.items[x] = b.items[x]
    <3>1. IsLRU(b, Key, Entry) /\ Consistent(b)
      BY <1>0, <2>1 DEF BucketInv
    <3> HIDE DEF b
    <3> QED BY <3>1, RemoveEntryKeeps
  <2> HIDE DEF g, l
  <2>4. CASE c = want[g].class
    <3>1. bucket'[c] = l
      BY <1>0, <2>1, <2>2, <2>4 DEF BucketInv
    <3> QED BY <2>3, <2>4, <3>1
  <2>5. CASE c # want[g].class
    BY <1>0, <2>2, <2>5 DEF BucketInv
  <2> QED BY <2>4, <2>5
<1>4. ASSUME NEW g \in Goroutine, Put(g)
      PROVE  Kept \/ PutBy(g)
  <2> DEFINE b == bucket[want[g].class]
             v == [res |-> res[g], expires |-> expires[g]]
             l == PutEntry(b, want[g].key, v, Size)
  <2>1. want[g] \in Object
    BY <1>4 DEF TypeInv, ShapeInv, Put
  <2>2. v \in Entry
    BY <1>4, ResultFacts DEF TypeInv, TypeOK, ShapeInv, Put, Pending
  <2>3. bucket' = [bucket EXCEPT ![want[g].class] = l]
    BY <1>4 DEF Put
  <2>4. /\ l.items[want[g].key] = v
        /\ \A x \in DOMAIN l.items \ {want[g].key} :
             x \in DOMAIN b.items /\ l.items[x] = b.items[x]
    <3>1. /\ IsLRU(b, Key, Entry) /\ Consistent(b) /\ Len(b.order) <= Size
          /\ want[g].key \in Key
      BY <1>0, <2>1, ObjectFacts DEF BucketInv
    <3> HIDE DEF b, v
    <3> QED BY <2>2, <3>1, PutEntryKeeps, ConfigAssumption
  <2> HIDE DEF l
  <2>5. CASE c = want[g].class
    <3>1. bucket'[c] = l
      BY <1>0, <2>3, <2>5 DEF BucketInv
    <3>2. CASE k = want[g].key
      BY <1>4, <2>1, <2>4, <2>5, <3>1, <3>2, ObjectFacts
    <3>3. CASE k # want[g].key
      BY <2>4, <2>5, <3>1, <3>3
    <3> QED BY <3>2, <3>3
  <2>6. CASE c # want[g].class
    BY <1>0, <2>3, <2>6 DEF BucketInv
  <2> QED BY <2>5, <2>6
<1>5. ASSUME NEW q \in Request, PanicProcess(q)
      PROVE  FALSE
  <2>1. bucket'[c] = EmptyLRU
    BY <1>5 DEF PanicProcess
  <2> QED BY <2>1, EmptyIsLRU
<1>6. CASE UNCHANGED vars
  BY <1>1, <1>6 DEF vars
<1>7. CASE Next
  BY <1>1, <1>2, <1>3, <1>4, <1>5, <1>7, Zenon
     DEF Next, Lookup, Flight, Get, Miss, PanicRequest, Lead, Join, JoinLate, Fetch,
         Done, Forget, Stamp, Tick
<1> QED BY <1>6, <1>7

----------------------------------------------------------------------------
(* Second layer: which object a result is about.                           *)

\* A hit gives the caller the entry of the object it asked for.
LEMMA HitEntry ==
  ASSUME TypeInv, NEW q \in Request, HitFresh(q) \/ HitStale(q)
  PROVE  LET g == Serve(q) IN
         /\ want[g] \in Object /\ want[g].class \in Class
         /\ want[g].key \in DOMAIN bucket[want[g].class].items
         /\ EntryOf(g) = bucket[want[g].class].items[want[g].key]
         /\ EntryOf(g) \in Entry
<1> DEFINE g == Serve(q)
           b == bucket[want[g].class]
<1>1. want[g] \in Object
  BY GoroutineFacts DEF TypeInv, ShapeInv, HitFresh, HitStale
<1>2. want[g].class \in Class /\ want[g].key \in DOMAIN b.items
  BY <1>1, ObjectFacts DEF HitFresh, HitStale, Found, Holds
<1>3. b.items \in [DOMAIN b.items -> Entry]
  BY <1>2 DEF TypeInv, TypeOK, IsLRU
<1>4. EntryOf(g) = b.items[want[g].key]
  BY DEF EntryOf
<1> HIDE DEF g, b
<1>5. EntryOf(g) \in Entry
  BY <1>2, <1>3, <1>4
<1> QED BY <1>1, <1>2, <1>4, <1>5 DEF g, b

\* Every step keeps results with the objects they are about: getOrLoad's type
\* assertion is what protects the buckets from a joined call of another class.
LEMMA ObjectStep ==
  ASSUME TypeInv, ObjectInv, [Next]_vars
  PROVE  ObjectInv'
<1>0. RestInv
  BY DEF TypeInv, TypeOK, RestInv
<1>1. \A c \in Class : \A k \in DOMAIN bucket'[c].items :
        bucket'[c].items[k].res.of = [class |-> c, key |-> k]
  <2> SUFFICES ASSUME NEW c \in Class, NEW k \in DOMAIN bucket'[c].items
               PROVE  bucket'[c].items[k].res.of = [class |-> c, key |-> k]
    BY Zenon
  <2>1. CASE k \in DOMAIN bucket[c].items /\ bucket'[c].items[k] = bucket[c].items[k]
    BY <2>1 DEF ObjectInv
  <2>2. ASSUME NEW g \in Goroutine, Put(g), want[g] = [class |-> c, key |-> k],
               bucket'[c].items[k] = [res |-> res[g], expires |-> expires[g]]
        PROVE  bucket'[c].items[k].res.of = [class |-> c, key |-> k]
    BY <2>2 DEF ObjectInv, Put
  <2> QED BY <2>1, <2>2, ItemsStep, Zenon
<1> DEFINE Right == \A g \in Goroutine :
             /\ pc[g] = "stamp" => res[g].of.key = want[g].key
             /\ pc[g] \in {"answered", "done", "put", "returned"} => res[g].of = want[g]
<1>2. Right
  BY DEF ObjectInv
<1>3. ASSUME NEW q \in Request, HitFresh(q) \/ HitStale(q)
      PROVE  Right'
  <2>1. EntryOf(Serve(q)).res.of = want[Serve(q)]
    BY <1>3, HitEntry, ObjectFacts DEF ObjectInv
  <2>2. CASE HitFresh(q)
    BY <1>0, <1>2, <2>1, <2>2, GoroutineFacts DEF RestInv, HitFresh, Goto
  <2>3. CASE HitStale(q)
    BY <1>0, <1>2, <2>1, <2>3, GoroutineFacts DEF RestInv, HitStale
  <2> QED BY <1>3, <2>2, <2>3
<1>4. ASSUME NEW q \in Request, NEW o \in Asked, Get(q, o)
      PROVE  Right'
  BY <1>0, <1>2, <1>4, GoroutineFacts DEF RestInv, Get, Goto
<1>5. ASSUME NEW q \in Request, HitExpired(q) \/ Miss(q) \/ RemoveExpired(q) \/ PanicRequest(q)
      PROVE  Right'
  BY <1>0, <1>2, <1>5, GoroutineFacts
     DEF RestInv, HitExpired, Miss, RemoveExpired, PanicRequest, Panics, Goto
<1>6. ASSUME NEW q \in Request, PanicProcess(q)
      PROVE  Right'
  BY <1>0, <1>2, <1>6 DEF RestInv, PanicProcess
<1>7. ASSUME NEW g \in Goroutine, Lead(g) \/ Join(g) \/ Put(g) \/ Forget(g)
      PROVE  Right'
  BY <1>0, <1>2, <1>7 DEF RestInv, Lead, Join, Put, Forget, Goto
<1>8. ASSUME NEW g \in Goroutine, JoinLate(g)
      PROVE  Right'
  <2>1. res[Leader(g)].of = want[Leader(g)] /\ want[Leader(g)].key = want[g].key
    BY <1>0, <1>2, <1>8 DEF RestInv, JoinLate, Leader, TypeInv, FlightInv, Leading, Unfinished
  <2> QED BY <1>0, <1>2, <1>8, <2>1 DEF RestInv, JoinLate, Goto
<1>9. ASSUME NEW g \in Goroutine, NEW e \in Error, Fetch(g, e)
      PROVE  Right'
  BY <1>0, <1>2, <1>9 DEF RestInv, Fetch, Goto
<1>10. ASSUME NEW g \in Goroutine, Done(g)
       PROVE  Right'
  BY <1>0, <1>2, <1>10 DEF RestInv, Done, IsWaitingFor
<1>11. ASSUME NEW g \in Goroutine, Stamp(g)
       PROVE  Right'
  <2>1. res[g].of = want[g]
    BY <1>0, <1>2, <1>11, ResultFacts, ObjectFacts
       DEF RestInv, ShapeInv, Stamp, AssertionHolds, Pending
  <2> QED BY <1>0, <1>2, <1>11, <2>1 DEF RestInv, Stamp, Goto
<1>12. ASSUME Tick \/ UNCHANGED vars
       PROVE  Right'
  BY <1>0, <1>2, <1>12 DEF RestInv, Tick, vars
<1>13. Right'
  BY <1>3, <1>4, <1>5, <1>6, <1>7, <1>8, <1>9, <1>10, <1>11, <1>12, Zenon
     DEF Next, Lookup, Flight
<1> QED BY <1>1, <1>13 DEF ObjectInv

----------------------------------------------------------------------------
(* Third layer: how old a result is.                                       *)

\* Every step keeps entries, pending results and answers within their ages.
LEMMA AgeStep ==
  ASSUME TypeInv, AgeInv, [Next]_vars
  PROVE  AgeInv'
<1>0. RestInv /\ MaxLag \in Nat /\ StaleTTL \in Nat
  BY ConfigAssumption DEF TypeInv, TypeOK, RestInv
<1> DEFINE YoungEntry(e, t) ==
             e.res.at <= t /\ e.expires <= e.res.at + MaxLag + TtlFor(e.res.err)
           YoungPending(g) ==
             /\ pc[g] \in Pending => res[g].at <= now /\ now <= res[g].at + MaxLag
             /\ pc[g] = "put" => expires[g] <= res[g].at + MaxLag + TtlFor(res[g].err)
           YoungAnswer(g) ==
             pc[g] = "returned" =>
               began[g] < res[g].at + MaxLag + TtlFor(res[g].err) + StaleTTL
<1>1. /\ \A c \in Class : \A k \in DOMAIN bucket[c].items : YoungEntry(bucket[c].items[k], now)
      /\ \A g \in Goroutine : YoungPending(g)
      /\ \A q \in Request : YoungAnswer(Serve(q))
  BY Zenon DEF AgeInv, ServedAgeBounded
<1>2. \A r \in Result : r.at \in Nat /\ TtlFor(r.err) \in Nat \ {0}
  BY ResultFacts, TtlForIsPositive
<1>3. now \in Nat /\ now' \in Nat /\ now <= now'
  <2>1. now \in Nat /\ (now' = now \/ now' = now + 1)
    BY <1>0, Zenon DEF RestInv, Next, vars, Lookup, Flight, Get, HitFresh, HitStale, HitExpired,
       Miss, RemoveExpired, PanicRequest, PanicProcess, Lead, Join, JoinLate, Fetch, Done,
       Forget, Stamp, Put, Tick
  <2> QED BY <2>1
<1>4. ASSUME NEW c \in Class, NEW k \in DOMAIN bucket'[c].items
      PROVE  YoungEntry(bucket'[c].items[k], now')
  <2>1. CASE k \in DOMAIN bucket[c].items /\ bucket'[c].items[k] = bucket[c].items[k]
    <3>1. bucket[c].items[k] \in Entry
      BY <2>1 DEF TypeInv, TypeOK, IsLRU
    <3>2. bucket[c].items[k].res.at \in Nat
      BY <3>1, ResultFacts
    <3> QED BY <1>1, <1>3, <2>1, <3>2
  <2>2. ASSUME NEW g \in Goroutine, Put(g), want[g] = [class |-> c, key |-> k],
               bucket'[c].items[k] = [res |-> res[g], expires |-> expires[g]]
        PROVE  YoungEntry(bucket'[c].items[k], now')
    <3>1. pc[g] = "put" /\ now' = now
      BY <2>2 DEF Put
    <3> QED BY <1>1, <2>2, <3>1, SMTT(30) DEF Pending
  <2> QED BY <2>1, <2>2, ItemsStep, Zenon
<1>5. ASSUME NEW q \in Request, HitFresh(q) \/ HitStale(q)
      PROVE  /\ \A g \in Goroutine : YoungPending(g)'
             /\ \A p \in Request : YoungAnswer(Serve(p))'
  <2> DEFINE g == Serve(q)
             e == EntryOf(g)
  <2>1. e \in Entry /\ YoungEntry(e, now) /\ began[g] < e.expires + StaleTTL
    <3>1. e \in Entry /\ YoungEntry(e, now)
      BY <1>1, <1>5, HitEntry
    <3>2. CASE HitFresh(q)
      BY <1>0, <3>1, <3>2, GoroutineFacts, ResultFacts DEF HitFresh, IsFresh, RestInv
    <3>3. CASE HitStale(q)
      BY <3>1, <3>3 DEF HitStale, IsStale
    <3> QED BY <1>5, <3>1, <3>2, <3>3
  <2>2. began[g] < e.res.at + MaxLag + TtlFor(e.res.err) + StaleTTL
    BY <1>0, <1>2, <2>1, GoroutineFacts, ResultFacts DEF RestInv
  <2> HIDE DEF e
  <2>3. CASE HitFresh(q)
    BY <1>0, <1>1, <2>2, <2>3, GoroutineFacts DEF RestInv, HitFresh, Goto, Pending, e
  <2>4. CASE HitStale(q)
    BY <1>0, <1>1, <2>2, <2>4, GoroutineFacts DEF RestInv, HitStale, Pending, e
  <2> QED BY <1>5, <2>3, <2>4
<1>6. ASSUME NEW q \in Request, NEW o \in Asked, Get(q, o)
      PROVE  /\ \A g \in Goroutine : YoungPending(g)'
             /\ \A p \in Request : YoungAnswer(Serve(p))'
  BY <1>0, <1>1, <1>6, GoroutineFacts DEF RestInv, Get, Goto, Pending
<1>7. ASSUME NEW q \in Request, HitExpired(q) \/ Miss(q) \/ RemoveExpired(q) \/ PanicRequest(q)
      PROVE  /\ \A g \in Goroutine : YoungPending(g)'
             /\ \A p \in Request : YoungAnswer(Serve(p))'
  BY <1>0, <1>1, <1>7, GoroutineFacts, SMTT(30)
     DEF RestInv, HitExpired, Miss, RemoveExpired, PanicRequest, Panics, Goto, Pending
<1>8. ASSUME NEW q \in Request, PanicProcess(q)
      PROVE  /\ \A g \in Goroutine : YoungPending(g)'
             /\ \A p \in Request : YoungAnswer(Serve(p))'
  BY <1>0, <1>1, <1>8, GoroutineFacts DEF RestInv, PanicProcess, Pending
<1>9. ASSUME NEW g \in Goroutine, Lead(g) \/ Join(g) \/ Forget(g)
      PROVE  /\ \A h \in Goroutine : YoungPending(h)'
             /\ \A p \in Request : YoungAnswer(Serve(p))'
  BY <1>0, <1>1, <1>9, GoroutineFacts DEF RestInv, Lead, Join, Forget, Goto, Pending
<1>10. ASSUME NEW g \in Goroutine, JoinLate(g)
       PROVE  /\ \A h \in Goroutine : YoungPending(h)'
              /\ \A p \in Request : YoungAnswer(Serve(p))'
  <2>1. Leader(g) \in Goroutine /\ pc[Leader(g)] \in Pending
    BY <1>0, <1>10 DEF RestInv, JoinLate, Leader, TypeInv, FlightInv, Leading, Unfinished, Pending
  <2> QED BY <1>0, <1>1, <1>10, <2>1, GoroutineFacts DEF RestInv, JoinLate, Goto, Pending
<1>11. ASSUME NEW g \in Goroutine, NEW e \in Error, Fetch(g, e)
       PROVE  /\ \A h \in Goroutine : YoungPending(h)'
              /\ \A p \in Request : YoungAnswer(Serve(p))'
  BY <1>0, <1>1, <1>3, <1>11, GoroutineFacts DEF RestInv, Fetch, Goto, Pending
<1>12. ASSUME NEW g \in Goroutine, Done(g)
       PROVE  /\ \A h \in Goroutine : YoungPending(h)'
              /\ \A p \in Request : YoungAnswer(Serve(p))'
  BY <1>0, <1>1, <1>12, GoroutineFacts DEF RestInv, Done, IsWaitingFor, Pending
<1>13. ASSUME NEW g \in Goroutine, Stamp(g)
       PROVE  /\ \A h \in Goroutine : YoungPending(h)'
              /\ \A p \in Request : YoungAnswer(Serve(p))'
  <2>1. res[g] \in Result /\ now <= res[g].at + MaxLag
    BY <1>0, <1>1, <1>13 DEF RestInv, ShapeInv, Stamp, Pending
  <2>2. now + TtlFor(res[g].err) <= res[g].at + MaxLag + TtlFor(res[g].err)
    BY <1>0, <1>2, <1>3, <2>1
  <2> QED BY <1>0, <1>1, <1>13, <2>2, GoroutineFacts DEF RestInv, Stamp, Goto, Pending
<1>14. ASSUME NEW g \in Goroutine, Put(g)
       PROVE  /\ \A h \in Goroutine : YoungPending(h)'
              /\ \A p \in Request : YoungAnswer(Serve(p))'
  <2>1. /\ res[g] \in Result /\ now <= res[g].at + MaxLag
        /\ began[g] \in Nat /\ began[g] <= now
    BY <1>0, <1>1, <1>14 DEF RestInv, ShapeInv, Put, Pending
  <2>2. began[g] < res[g].at + MaxLag + TtlFor(res[g].err) + StaleTTL
    BY <1>0, <1>2, <1>3, <2>1
  <2> QED BY <1>0, <1>1, <1>14, <2>2, GoroutineFacts DEF RestInv, Put, Goto, Pending
<1>15. CASE Tick
  <2>1. \A g \in Goroutine : pc[g] \in Pending => res[g] \in Result
    BY <1>0 DEF RestInv, ShapeInv
  <2>2. ASSUME NEW g \in Goroutine PROVE YoungPending(g)'
    BY <1>0, <1>1, <1>2, <1>3, <1>15, <2>1 DEF Tick
  <2>3. ASSUME NEW p \in Request PROVE YoungAnswer(Serve(p))'
    BY <1>1, <1>15 DEF Tick
  <2> QED BY <1>4, <2>2, <2>3 DEF AgeInv, ServedAgeBounded
<1>16. CASE UNCHANGED vars
  <2>1. /\ \A g \in Goroutine : YoungPending(g)'
        /\ \A p \in Request : YoungAnswer(Serve(p))'
    <3>1. now' = now /\ pc' = pc /\ began' = began /\ res' = res /\ expires' = expires
      BY <1>16 DEF vars
    <3> QED BY <1>1, <3>1
  <2> QED BY <1>4, <2>1 DEF AgeInv, ServedAgeBounded
<1>17. CASE /\ \A g \in Goroutine : YoungPending(g)'
            /\ \A p \in Request : YoungAnswer(Serve(p))'
  BY <1>4, <1>17 DEF AgeInv, ServedAgeBounded
<1> QED
  BY <1>5, <1>6, <1>7, <1>8, <1>9, <1>10, <1>11, <1>12, <1>13, <1>14, <1>15, <1>16, <1>17, Zenon
     DEF Next, Lookup, Flight

----------------------------------------------------------------------------
(* The theorems.                                                           *)

\* A cache made by New satisfies the inductive invariant.
LEMMA InvInit == Init => IInv
<1> SUFFICES ASSUME Init PROVE IInv
  OBVIOUS
<1>1. TypeInv
  BY TypeInit
<1>2. \A c \in Class : DOMAIN bucket[c].items = {}
  <2>1. \A c \in Class : bucket[c] = EmptyLRU
    BY DEF Init
  <2> QED BY <2>1, EmptyIsLRU
<1>3. \A g \in Goroutine : pc[g] = "idle"
  BY DEF Init
<1>4. ObjectInv
  BY <1>2, <1>3 DEF ObjectInv
<1>5. AgeInv
  BY <1>2, <1>3, GoroutineFacts DEF AgeInv, ServedAgeBounded, Pending
<1> QED BY <1>1, <1>4, <1>5 DEF TypeInv, IInv

\* IInv is an invariant of the record cache: between any two critical sections
\* the singleflight table, the buckets and the goroutines agree.
THEOREM Invariance == Spec => []IInv
<1>1. IInv /\ [Next]_vars => IInv'
  BY BucketStep, RestStep, FlightStep, ObjectStep, AgeStep, Zenon
     DEF IInv, TypeInv, TypeOK, BucketsConsistent, BucketInv, RestInv
<1> QED BY <1>1, InvInit, PTL DEF Spec

\* Every variable keeps its type.
THEOREM TypeCorrect == Spec => []TypeOK
<1>1. IInv => TypeOK
  BY DEF IInv
<1> QED BY <1>1, Invariance, PTL

\* singleflight.do never lets two goroutines fetch the same key at once, however
\* many requests and refreshes there are.
THEOREM FetchesAreCollapsed == Spec => []OneFetchPerKey
<1>1. IInv => OneFetchPerKey
  BY DEF IInv, FlightInv, OneFetchPerKey
<1> QED BY <1>1, Invariance, PTL

\* No goroutine ever waits on a call whose wg.Done has already happened.
THEOREM WakeupsAreKept == Spec => []NoLostWakeup
<1>1. IInv => NoLostWakeup
  BY DEF IInv, FlightInv
<1> QED BY <1>1, Invariance, PTL

\* lru's map and list agree at all times and never exceed Config.Size.
THEOREM BucketsStayBounded == Spec => []BucketsConsistent
<1>1. IInv => BucketsConsistent
  BY DEF IInv
<1> QED BY <1>1, Invariance, PTL

\* getOrLoad never returns a record of another object.
THEOREM AnswersAreAboutTheRequest == Spec => []ServesWhatWasAsked
<1>1. IInv => ServesWhatWasAsked
  BY GoroutineFacts DEF IInv, ObjectInv, ServesWhatWasAsked
<1> QED BY <1>1, Invariance, PTL

\* getOrLoad never returns a result older than its TTL and the stale window
\* allow, for every TTL, NegTTL, StaleTTL and delay.
THEOREM AnswersAreYoung == Spec => []ServedAgeBounded
<1>1. IInv => ServedAgeBounded
  BY DEF IInv, AgeInv
<1> QED BY <1>1, Invariance, PTL

\* A result taken from a call, however late it was joined, is at most MaxLag
\* older than the caller.
THEOREM JoinedResultsAreCurrent == Spec => []FlightResultCurrent
<1>1. IInv => FlightResultCurrent
  <2> SUFFICES ASSUME IInv, NEW q \in Request, pc[Serve(q)] \in {"stamp", "put"}
               PROVE  began[Serve(q)] <= res[Serve(q)].at + MaxLag
    BY DEF FlightResultCurrent
  <2> DEFINE g == Serve(q)
  <2>1. g \in Goroutine
    BY GoroutineFacts
  <2>2. /\ began[g] <= now /\ now <= res[g].at + MaxLag
        /\ began[g] \in Nat /\ now \in Nat /\ res[g] \in Result
    BY <2>1 DEF IInv, TypeOK, ShapeInv, AgeInv, Pending
  <2>3. res[g].at + MaxLag \in Nat
    BY <2>2, ResultFacts, ConfigAssumption
  <2> QED BY <2>2, <2>3
<1> QED BY <1>1, Invariance, PTL

\* A put never replaces a result by one that was read more than MaxLag earlier.
THEOREM PutsRegressLittle == Spec => RegressionBounded
<1> DEFINE Little == \A c \in Class : \A k \in Key :
       Holds(bucket[c], k) /\ Holds(bucket'[c], k) =>
         bucket[c].items[k].res.at <= bucket'[c].items[k].res.at + MaxLag
<1>1. IInv /\ [Next]_vars => Little
  <2> SUFFICES ASSUME IInv, [Next]_vars, NEW c \in Class, NEW k \in Key,
                      Holds(bucket[c], k), Holds(bucket'[c], k)
               PROVE  bucket[c].items[k].res.at <= bucket'[c].items[k].res.at + MaxLag
    OBVIOUS
  <2>1. bucket[c].items[k] \in Entry /\ bucket[c].items[k].res.at <= now
    BY DEF Holds, IInv, TypeOK, AgeInv, IsLRU
  <2>2. bucket[c].items[k].res.at \in Nat /\ now \in Nat /\ MaxLag \in Nat
    BY <2>1, ResultFacts, ConfigAssumption DEF IInv, TypeOK
  <2>3. CASE bucket'[c].items[k] = bucket[c].items[k]
    BY <2>2, <2>3
  <2>4. ASSUME NEW g \in Goroutine, Put(g),
               bucket'[c].items[k] = [res |-> res[g], expires |-> expires[g]]
        PROVE  bucket[c].items[k].res.at <= bucket'[c].items[k].res.at + MaxLag
    <3>1. res[g] \in Result /\ now <= res[g].at + MaxLag
      <4>1. pc[g] \in Pending
        BY <2>4 DEF Put, Pending
      <4> QED BY <4>1, Zenon DEF IInv, ShapeInv, AgeInv
    <3>2. res[g].at \in Nat
      BY <3>1, ResultFacts
    <3> QED BY <2>1, <2>2, <2>4, <3>1, <3>2
  <2> QED BY <2>3, <2>4, ItemsStep, Zenon DEF Holds, IInv, TypeInv
<1>2. []IInv /\ [][Next]_vars => [][Little]_vars
  BY <1>1, PTL
<1> QED BY <1>2, Invariance, PTL DEF Spec, RegressionBounded

----------------------------------------------------------------------------
(* Refinement: every step of the cache is a step of RecordContract.        *)

\* The results the cache holds are those of the buckets' entries and those on
\* their way into a bucket.
LEMMA KnownIs ==
  ASSUME BucketInv, NEW r
  PROVE  r \in Known <=> \/ \E c \in Class : \E k \in DOMAIN bucket[c].items :
                              r = bucket[c].items[k].res
                         \/ \E g \in Goroutine : pc[g] \in Pending /\ r = res[g]
<1>1. ASSUME NEW c \in Class, NEW k \in DOMAIN bucket[c].items
      PROVE  LET o == [class |-> c, key |-> k] IN
             o \in Object /\ o.class = c /\ o.key = k
  BY <1>1 DEF BucketInv, IsLRU, Object
<1>2. ASSUME NEW c \in Class, NEW k \in DOMAIN bucket[c].items, r = bucket[c].items[k].res
      PROVE  r \in Known
  <2> DEFINE o == [class |-> c, key |-> k]
  <2>1. o \in Object /\ o.class = c /\ o.key = k
    BY <1>1, <1>2, Zenon
  <2> HIDE DEF o
  <2>2. o \in {p \in Object : Holds(bucket[p.class], p.key)} /\ r = bucket[o.class].items[o.key].res
    BY <1>2, <2>1 DEF Holds
  <2> QED BY <2>2, Zenon DEF Known
<1>3. ASSUME NEW g \in Goroutine, pc[g] \in Pending, r = res[g]
      PROVE  r \in Known
  BY <1>3 DEF Known
<1>4. ASSUME r \in Known
      PROVE  \/ \E c \in Class : \E k \in DOMAIN bucket[c].items : r = bucket[c].items[k].res
             \/ \E g \in Goroutine : pc[g] \in Pending /\ r = res[g]
  BY <1>4, ObjectFacts, Zenon DEF Known, Holds
<1> QED BY <1>2, <1>3, <1>4, Zenon

\* What a goroutine carries to a bucket after a step that is not a read, some
\* goroutine carried before it.
LEMMA CarriedStep ==
  ASSUME TypeInv, [Next]_vars, NEW h \in Goroutine, pc'[h] \in Pending,
         ~ \E g \in Goroutine, e \in Error : Fetch(g, e)
  PROVE  \E i \in Goroutine : pc[i] \in Pending /\ res'[h] = res[i]
<1> DEFINE Carried == \E i \in Goroutine : pc[i] \in Pending /\ res'[h] = res[i]
<1>0. RestInv /\ FlightInv
  BY DEF TypeInv, TypeOK, RestInv
<1>1. CASE pc[h] \in Pending /\ res'[h] = res[h]
  BY <1>1
<1>2. ASSUME NEW q \in Request, NEW o \in Asked, Get(q, o) PROVE Carried
  BY <1>0, <1>1, <1>2, GoroutineFacts DEF RestInv, Get, Goto, Pending
<1>3. ASSUME NEW q \in Request, HitFresh(q) \/ HitStale(q) PROVE Carried
  <2>1. h # Serve(q) /\ pc'[h] = pc[h] /\ res'[h] = res[h]
    BY <1>0, <1>3, GoroutineFacts DEF RestInv, HitFresh, HitStale, Goto, Pending
  <2> QED BY <1>1, <2>1
<1>4. ASSUME NEW q \in Request,
             HitExpired(q) \/ Miss(q) \/ RemoveExpired(q) \/ PanicRequest(q) \/ PanicProcess(q)
      PROVE  Carried
  <2>1. pc'[h] = pc[h] /\ res'[h] = res[h]
    BY <1>0, <1>4, GoroutineFacts
       DEF RestInv, HitExpired, Miss, RemoveExpired, PanicRequest, PanicProcess, Goto, Pending
  <2> QED BY <1>1, <2>1
<1>5. ASSUME NEW g \in Goroutine, Lead(g) \/ Join(g) \/ Forget(g) \/ Stamp(g) \/ Put(g) PROVE Carried
  <2>1. pc[h] \in Pending /\ res'[h] = res[h]
    BY <1>0, <1>5 DEF RestInv, Lead, Join, Forget, Stamp, Put, Goto, Pending
  <2> QED BY <1>1, <2>1
<1>6. ASSUME NEW g \in Goroutine, JoinLate(g) PROVE Carried
  <2>1. Leader(g) \in Goroutine /\ pc[Leader(g)] \in Pending
    BY <1>0, <1>6 DEF RestInv, JoinLate, Leader, FlightInv, Leading, Unfinished, Pending
  <2>2. CASE h = g
    <3>1. res'[h] = res[Leader(g)]
      BY <1>0, <1>6, <2>2 DEF RestInv, JoinLate
    <3> QED BY <2>1, <3>1
  <2>3. CASE h # g
    <3>1. pc'[h] = pc[h] /\ res'[h] = res[h]
      BY <1>0, <1>6, <2>3 DEF RestInv, JoinLate, Goto
    <3> QED BY <1>1, <3>1
  <2> QED BY <2>2, <2>3
<1>7. ASSUME NEW g \in Goroutine, Done(g) PROVE Carried
  <2>1. pc[g] \in Pending
    BY <1>7 DEF Done, Pending
  <2>2. CASE IsWaitingFor(h, g)
    <3>1. res'[h] = res[g]
      BY <1>7, <2>2 DEF Done
    <3> QED BY <2>1, <3>1
  <2>3. CASE ~IsWaitingFor(h, g)
    <3>1. res'[h] = res[h] /\ (h = g \/ pc'[h] = pc[h])
      BY <1>7, <2>3 DEF Done
    <3> QED BY <1>1, <2>1, <3>1
  <2> QED BY <2>2, <2>3
<1>8. ASSUME Tick \/ UNCHANGED vars PROVE Carried
  BY <1>1, <1>8 DEF Tick, vars
<1> QED BY <1>2, <1>3, <1>4, <1>5, <1>6, <1>7, <1>8, Zenon DEF Next, Lookup, Flight

\* A step that is not a read leaves the cache with results it already had.
LEMMA KnownShrinks ==
  ASSUME TypeInv, [Next]_vars, ~ \E g \in Goroutine, e \in Error : Fetch(g, e)
  PROVE  Known' \in SUBSET Known
<1>0. BucketInv
  BY DEF TypeInv, TypeOK, BucketsConsistent, BucketInv
<1>1. ASSUME NEW r, r \in Known'
      PROVE  \/ \E c \in Class : \E k \in DOMAIN bucket'[c].items : r = bucket'[c].items[k].res
             \/ \E g \in Goroutine : pc'[g] \in Pending /\ r = res'[g]
  BY <1>1, ObjectFacts, Zenon DEF Known, Holds
<1>2. ASSUME NEW c \in Class, NEW k \in DOMAIN bucket'[c].items
      PROVE  bucket'[c].items[k].res \in Known
  <2>1. CASE k \in DOMAIN bucket[c].items /\ bucket'[c].items[k] = bucket[c].items[k]
    BY <1>0, <2>1, KnownIs
  <2>2. ASSUME NEW g \in Goroutine, Put(g),
               bucket'[c].items[k] = [res |-> res[g], expires |-> expires[g]]
        PROVE  bucket'[c].items[k].res \in Known
    <3>1. bucket'[c].items[k].res = res[g]
      BY <2>2
    <3>2. pc[g] = "put"
      BY <2>2, Zenon DEF Put
    <3> QED BY <1>0, <3>1, <3>2, KnownIs DEF Pending
  <2> QED BY <1>2, <2>1, <2>2, ItemsStep, ZenonT(30)
<1>3. ASSUME NEW h \in Goroutine, pc'[h] \in Pending
      PROVE  res'[h] \in Known
  BY <1>0, <1>3, CarriedStep, KnownIs
<1> QED BY <1>1, <1>2, <1>3

\* A step that moves no request's phase, wish or answer is seen as one that
\* forgets results at most.
LEMMA QuietStep ==
  ASSUME TypeInv, [Next]_vars, ~ \E g \in Goroutine, e \in Error : Fetch(g, e),
         now' = now, began' = began,
         \A q \in Request : /\ Phase(q)' = Phase(q)
                            /\ want'[Serve(q)] = want[Serve(q)]
                            /\ Phase(q) = "answered" => res'[Serve(q)] = res[Serve(q)]
  PROVE  Contract!Forget
<1>1. Known' \in SUBSET Known
  BY KnownShrinks
<1>2. /\ [q \in Request |-> Phase(q)'] = [q \in Request |-> Phase(q)]
      /\ [q \in Request |-> want'[Serve(q)]] = [q \in Request |-> want[Serve(q)]]
      /\ [q \in Request |-> began'[Serve(q)]] = [q \in Request |-> began[Serve(q)]]
      /\ [q \in Request |-> IF Phase(q)' = "answered" THEN res'[Serve(q)] ELSE None]
           = [q \in Request |-> IF Phase(q) = "answered" THEN res[Serve(q)] ELSE None]
  OBVIOUS
<1> QED BY <1>1, <1>2, Zenon DEF Contract!Forget

\* getOrLoad's steps before its answer, and all steps of refreshAsync but the
\* read.
LEMMA QuietActions ==
  ASSUME TypeInv, [Next]_vars, ~ \E g \in Goroutine, e \in Error : Fetch(g, e),
         \/ \E q \in Request : HitExpired(q) \/ Miss(q) \/ RemoveExpired(q) \/ Put(Refresh(q))
         \/ \E g \in Goroutine : Lead(g) \/ Join(g) \/ JoinLate(g) \/ Done(g) \/ Forget(g) \/ Stamp(g)
  PROVE  Contract!Forget
<1>0. RestInv
  BY DEF TypeInv, TypeOK, RestInv
<1> DEFINE Same == \A q \in Request :
             LET g == Serve(q) IN
             /\ pc'[g] = pc[g] \/ {pc[g], pc'[g]} \cap {"idle", "returned", "panicked"} = {}
             /\ pc[g] = "returned" => res'[g] = res[g]
<1>1. now' = now /\ began' = began /\ want' = want
  <2>1. ASSUME NEW q \in Request, HitExpired(q) \/ Miss(q) \/ RemoveExpired(q) \/ Put(Refresh(q))
        PROVE  now' = now /\ began' = began /\ want' = want
    BY <2>1, Zenon DEF HitExpired, Miss, RemoveExpired, Put
  <2>2. ASSUME NEW g \in Goroutine, Lead(g) \/ Join(g) \/ JoinLate(g) \/ Done(g) \/ Forget(g) \/ Stamp(g)
        PROVE  now' = now /\ began' = began /\ want' = want
    BY <2>2, Zenon DEF Lead, Join, JoinLate, Done, Forget, Stamp
  <2> QED BY <2>1, <2>2, Zenon
<1>2. ASSUME NEW q \in Request, HitExpired(q) \/ Miss(q) \/ RemoveExpired(q) \/ Put(Refresh(q))
      PROVE  Same
  BY <1>0, <1>2, GoroutineFacts DEF RestInv, HitExpired, Miss, RemoveExpired, Put, Goto
<1>3. ASSUME NEW g \in Goroutine, Lead(g) \/ Join(g) \/ JoinLate(g) \/ Forget(g) \/ Stamp(g)
      PROVE  Same
  BY <1>0, <1>3, GoroutineFacts DEF RestInv, Lead, Join, JoinLate, Forget, Stamp, Goto
<1>4. ASSUME NEW g \in Goroutine, Done(g)
      PROVE  Same
  BY <1>0, <1>4, GoroutineFacts DEF RestInv, Done, IsWaitingFor
<1>5. Same
  BY <1>2, <1>3, <1>4, Zenon
<1>6. ASSUME NEW q \in Request
      PROVE  /\ Phase(q)' = Phase(q)
             /\ Phase(q) = "answered" => res'[Serve(q)] = res[Serve(q)]
  BY <1>5, Zenon DEF Phase
<1> QED BY <1>1, <1>6, QuietStep

\* A request that enters getOrLoad asks for its object.
LEMMA AskStep ==
  ASSUME TypeInv, NEW q \in Request, NEW o \in Asked, Get(q, o)
  PROVE  Contract!Ask(q, o)
<1>0. RestInv
  BY DEF TypeInv, TypeOK, RestInv
<1>1. /\ \A h \in Goroutine : pc'[h] \in Pending <=> pc[h] \in Pending
      /\ res' = res /\ bucket' = bucket /\ now' = now
  BY <1>0, GoroutineFacts DEF RestInv, Get, Goto, Pending
<1>2. Known' = Known
  <2>1. {h \in Goroutine : pc'[h] \in Pending} = {h \in Goroutine : pc[h] \in Pending}
    BY <1>1
  <2> QED BY <1>1, <2>1 DEF Known
<1>3. /\ pc[Serve(q)] = "idle" /\ pc'[Serve(q)] = "lookup"
      /\ want'[Serve(q)] = o /\ began'[Serve(q)] = now
      /\ \A p \in Request : p # q => /\ pc'[Serve(p)] = pc[Serve(p)]
                                     /\ want'[Serve(p)] = want[Serve(p)]
                                     /\ began'[Serve(p)] = began[Serve(p)]
  BY <1>0, GoroutineFacts DEF RestInv, Get, Goto
<1>4. /\ Phase(q) = "idle" /\ Phase(q)' = "asked"
      /\ \A p \in Request : p # q => Phase(p)' = Phase(p)
  BY <1>3 DEF Phase
<1> QED BY <1>1, <1>2, <1>3, <1>4, Zenon DEF Contract!Ask

\* A hit, or the put after a fetch, answers the request: with a result the cache
\* held, about the object it asked for, young enough.
LEMMA AnswerStep ==
  ASSUME IInv, IInv', [Next]_vars, ~ \E g \in Goroutine, e \in Error : Fetch(g, e),
         NEW q \in Request, HitFresh(q) \/ HitStale(q) \/ Put(Serve(q))
  PROVE  Contract!Answer(q)
<1> DEFINE g == Serve(q)
           r == res'[g]
<1>0. TypeInv /\ RestInv /\ BucketInv /\ g \in Goroutine
  BY GoroutineFacts DEF IInv, TypeInv, TypeOK, RestInv, BucketInv, BucketsConsistent
<1>1. now' = now /\ began' = began
  BY Zenon DEF HitFresh, HitStale, Put
<1>2. /\ pc[g] \in {"lookup", "put"} /\ pc'[g] = "returned"
      /\ \A p \in Request : /\ want'[Serve(p)] = want[Serve(p)]
                            /\ p # q => /\ pc'[Serve(p)] = pc[Serve(p)]
                                        /\ res'[Serve(p)] = res[Serve(p)]
  BY <1>0, GoroutineFacts DEF RestInv, HitFresh, HitStale, Put, Goto
<1>3. r \in Known
  <2>1. CASE HitFresh(q) \/ HitStale(q)
    <3>1. r = EntryOf(g).res
      BY <1>0, <2>1 DEF RestInv, HitFresh, HitStale
    <3> QED BY <1>0, <2>1, <3>1, HitEntry, KnownIs
  <2>2. CASE Put(g)
    <3>1. r = res[g] /\ pc[g] \in Pending
      BY <2>2 DEF Put, Pending
    <3> HIDE DEF r
    <3> QED BY <1>0, <3>1, KnownIs, Zenon
  <2> QED BY <2>1, <2>2
<1>4. /\ r \in Result /\ r.of = want[g]
      /\ began[g] < r.at + MaxLag + TtlFor(r.err) + StaleTTL
  BY <1>0, <1>1, <1>2, Zenon DEF IInv, ShapeInv, ObjectInv, AgeInv, ServedAgeBounded
<1>5. began[g] < r.at + [e \in Error |-> MaxLag + TtlFor(e) + StaleTTL][r.err]
  <2>1. r.at \in Nat /\ r.err \in Error /\ TtlFor(r.err) \in Nat
    BY <1>4, ResultFacts, TtlForIsPositive, Zenon
  <2>2. r.at + (MaxLag + TtlFor(r.err) + StaleTTL) = r.at + MaxLag + TtlFor(r.err) + StaleTTL
    BY <2>1, ConfigAssumption, SMTT(30)
  <2> QED BY <1>4, <2>1, <2>2, Zenon
<1>6. /\ Phase(q) = "asked" /\ Phase(q)' = "answered"
      /\ \A p \in Request : p # q => Phase(p)' = Phase(p)
  BY <1>2 DEF Phase
<1>7. Known' \in SUBSET Known
  BY <1>0, KnownShrinks
<1>8. [p \in Request |-> IF Phase(p)' = "answered" THEN res'[Serve(p)] ELSE None]
        = [[p \in Request |-> IF Phase(p) = "answered" THEN res[Serve(p)] ELSE None]
             EXCEPT ![q] = r]
  BY <1>2, <1>6, Zenon
<1>9. /\ [p \in Request |-> Phase(p)'] = [[p \in Request |-> Phase(p)] EXCEPT ![q] = "answered"]
      /\ [p \in Request |-> want'[Serve(p)]] = [p \in Request |-> want[Serve(p)]]
      /\ [p \in Request |-> began'[Serve(p)]] = [p \in Request |-> began[Serve(p)]]
  BY <1>1, <1>2, <1>6, Zenon
<1> HIDE DEF r, g
<1>10. [p \in Request |-> want[Serve(p)]][q] = want[g] /\ [p \in Request |-> began[Serve(p)]][q] = began[g]
       /\ [p \in Request |-> Phase(p)][q] = "asked"
  BY <1>6 DEF g
<1> QED BY <1>1, <1>3, <1>4, <1>5, <1>7, <1>8, <1>9, <1>10, Zenon DEF Contract!Answer

\* A panic fails the request, or, when it ends the process, all that are under
\* way.
LEMMA FailStep ==
  ASSUME IInv, [Next]_vars, ~ \E g \in Goroutine, e \in Error : Fetch(g, e),
         NEW q \in Request, PanicRequest(q) \/ PanicProcess(q)
  PROVE  Contract!Fail
<1>0. TypeInv /\ RestInv
  BY DEF IInv, TypeInv, TypeOK, RestInv
<1>1. now' = now /\ began' = began /\ want' = want /\ res' = res
  BY Zenon DEF PanicRequest, PanicProcess
<1>2. \A p \in Request : \/ pc'[Serve(p)] = pc[Serve(p)]
                         \/ /\ pc[Serve(p)] \notin {"idle", "returned"}
                            /\ pc'[Serve(p)] = "panicked"
  BY <1>0, GoroutineFacts DEF RestInv, PanicRequest, PanicProcess, Panics, Goto
<1>3. ASSUME NEW p \in Request
      PROVE  /\ Phase(p)' = Phase(p) \/ (Phase(p) = "asked" /\ Phase(p)' = "failed")
             /\ Phase(p)' \in {"idle", "asked", "answered", "failed"}
  BY <1>2 DEF Phase
<1>4. Known' \in SUBSET Known
  BY <1>0, KnownShrinks
<1>5. [p \in Request |-> IF Phase(p)' = "answered" THEN res'[Serve(p)] ELSE None]
        = [p \in Request |-> IF Phase(p) = "answered" THEN res[Serve(p)] ELSE None]
  BY <1>1, <1>3
<1> QED BY <1>1, <1>3, <1>4, <1>5 DEF Contract!Fail

\* A query that comes back is a read of the data source, now.
LEMMA ReadStep ==
  ASSUME TypeInv, NEW g \in Goroutine, NEW e \in Error, Fetch(g, e)
  PROVE  Contract!Read(want[g], e) /\ want[g] \in Object
<1> DEFINE r == [of |-> want[g], err |-> e, at |-> now]
<1>0. RestInv /\ want[g] \in Object
  BY DEF TypeInv, TypeOK, RestInv, ShapeInv, Fetch
<1>1. now' = now /\ began' = began /\ want' = want /\ bucket' = bucket
  BY Zenon DEF Fetch
<1>2. /\ pc[g] = "fetch" /\ pc'[g] = "answered" /\ res'[g] = r
      /\ \A h \in Goroutine : h # g => pc'[h] = pc[h] /\ res'[h] = res[h]
  BY <1>0 DEF RestInv, Fetch, Goto
<1> HIDE DEF r
<1>3. {res'[h] : h \in {i \in Goroutine : pc'[i] \in Pending}}
        = {res[h] : h \in {i \in Goroutine : pc[i] \in Pending}} \cup {r}
  BY <1>2 DEF Pending
<1>4. Known' = Known \cup {r}
  BY <1>1, <1>3, Zenon DEF Known
<1>5. ASSUME NEW q \in Request
      PROVE  /\ Phase(q)' = Phase(q)
             /\ Phase(q) = "answered" => res'[Serve(q)] = res[Serve(q)]
  <2>1. Serve(q) # g => pc'[Serve(q)] = pc[Serve(q)] /\ res'[Serve(q)] = res[Serve(q)]
    BY <1>2, GoroutineFacts, Zenon
  <2>2. Serve(q) = g => pc[Serve(q)] = "fetch" /\ pc'[Serve(q)] = "answered"
    BY <1>2
  <2> QED BY <2>1, <2>2 DEF Phase
<1>6. /\ [p \in Request |-> Phase(p)'] = [p \in Request |-> Phase(p)]
      /\ [p \in Request |-> IF Phase(p)' = "answered" THEN res'[Serve(p)] ELSE None]
           = [p \in Request |-> IF Phase(p) = "answered" THEN res[Serve(p)] ELSE None]
  BY <1>5
<1> QED BY <1>0, <1>1, <1>4, <1>6, Zenon DEF Contract!Read, r

\* The record cache implements its contract, for every configuration and every
\* set of requests: ImplementsContract is a theorem.
THEOREM ContractIsKept == Spec => ImplementsContract
<1>1. Init => Contract!Init
  <2> SUFFICES ASSUME Init PROVE Contract!Init
    OBVIOUS
  <2>1. BucketInv /\ \A c \in Class : DOMAIN bucket[c].items = {}
    <3>1. \A c \in Class : bucket[c] = EmptyLRU
      BY DEF Init
    <3>2. TypeInv
      BY TypeInit
    <3> QED BY <3>1, <3>2, EmptyIsLRU DEF TypeInv, TypeOK, BucketsConsistent, BucketInv
  <2>2. \A g \in Goroutine : pc[g] = "idle" /\ want[g] = None /\ began[g] = 0
    BY DEF Init
  <2>3. Known = {}
    BY <2>1, <2>2, KnownIs DEF Pending
  <2>4. \A q \in Request : Phase(q) = "idle" /\ want[Serve(q)] = None /\ began[Serve(q)] = 0
    BY <2>2, GoroutineFacts DEF Phase
  <2>5. now = 0
    BY DEF Init
  <2> QED BY <2>3, <2>4, <2>5, Zenon DEF Contract!Init
<1>2. ASSUME IInv, IInv', [Next]_vars
      PROVE  [Contract!Next]_(Contract!vars)
  <2>0. TypeInv
    BY <1>2 DEF IInv, TypeInv
  <2>1. CASE UNCHANGED vars
    BY <2>1 DEF vars, Contract!vars, Known, Phase
  <2>2. CASE Tick
    <3>1. Contract!Tick
      BY <2>2 DEF Tick, Contract!Tick, Known, Phase
    <3> QED BY <3>1 DEF Contract!Next
  <2>3. CASE \E g \in Goroutine, e \in Error : Fetch(g, e)
    BY <2>0, <2>3, ReadStep DEF Contract!Next
  <2>4. ASSUME NEW q \in Request, NEW o \in Asked, Get(q, o)
        PROVE  Contract!Next
    BY <2>0, <2>4, AskStep, SourceAssumption DEF Contract!Next
  <2>5. CASE Next /\ ~Tick /\ ~ \E g \in Goroutine, e \in Error : Fetch(g, e)
    <3>1. ASSUME NEW q \in Request, HitFresh(q) \/ HitStale(q) \/ Put(Serve(q))
          PROVE  Contract!Next
      BY <1>2, <2>5, <3>1, AnswerStep DEF Contract!Next
    <3>2. ASSUME NEW q \in Request, PanicRequest(q) \/ PanicProcess(q)
          PROVE  Contract!Next
      BY <1>2, <2>5, <3>2, FailStep DEF Contract!Next
    <3>3. ASSUME NEW g \in Goroutine, Put(g)
          PROVE  \E q \in Request : Put(Serve(q)) \/ Put(Refresh(q))
      BY <3>3 DEF Goroutine, Serve, Refresh
    <3>4. CASE \/ \E q \in Request : HitExpired(q) \/ Miss(q) \/ RemoveExpired(q) \/ Put(Refresh(q))
               \/ \E g \in Goroutine : Lead(g) \/ Join(g) \/ JoinLate(g) \/ Done(g) \/ Forget(g) \/ Stamp(g)
      <4>1. Contract!Forget
        BY <1>2, <2>0, <2>5, <3>4, QuietActions, Zenon
      <4> QED BY <4>1 DEF Contract!Next
    <3> QED BY <2>4, <2>5, <3>1, <3>2, <3>3, <3>4, Zenon DEF Next, Lookup, Flight
  <2> QED BY <1>2, <2>1, <2>2, <2>3, <2>5
<1> QED BY <1>1, <1>2, Invariance, PTL DEF Spec, ImplementsContract, Contract!Spec
============================================================================
