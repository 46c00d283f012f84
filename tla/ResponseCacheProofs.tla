------------------------ MODULE ResponseCacheProofs ------------------------
(***************************************************************************)
(* ServerInv is inductive, for any requests, queries, sizes and times, and *)
(* what follows from it: the response cache is transparent, holds clean    *)
(* responses only, and bounds the age of what it serves.                   *)
(***************************************************************************)
EXTENDS ResponseCache, LRUProofs, TLAPS

\* The handlers' early responses (handlers.go:140) fit the query and show no
\* object.
LEMMA DeclinedFits ==
  ASSUME NEW r \in Queries, ~AsksRecord(r)
  PROVE  Declined(r) \in Response /\ Fits(r, Declined(r)) /\ Declined(r).view = None
BY DEF Declined, Response, Fits, Plain

\* What the handlers render from a result (handlers.go:159) fits the query, and
\* shows the result's age.
LEMMA RenderedFits ==
  ASSUME NEW r \in Queries, AsksRecord(r), NEW x \in Result, x.of = Asked(r),
         NEW referral \in BOOLEAN
  PROVE  LET a == Rendered(r, x, referral) IN
         /\ a \in Response /\ Fits(r, a)
         /\ a.view # None => x.err = "nil" /\ a.view.at = x.at
<1> DEFINE v == [of |-> x.of, at |-> x.at, tier |-> r.tier, form |-> r.form]
           a == Rendered(r, x, referral)
<1>1. v \in View /\ v # None
  <2>1. r.tier \in Tier /\ r.form \in {"default", "jcard"}
    BY QueryAssumption, Zenon DEF Query
  <2>2. x.of \in Object /\ x.at \in Nat
    BY DEF Result
  <2>3. v \in View
    BY <2>1, <2>2 DEF View
  <2> QED
    BY <2>3, QueryAssumption, Zenon
<1>2. CASE x.err = "nil"
  <2>1. a = [status |-> 200, view |-> v]
    BY <1>2 DEF Rendered
  <2> QED
    BY <1>1, <1>2, <2>1 DEF Fits, Response
<1>3. CASE x.err # "nil"
  <2>1. \E s \in {302, 403, 404, 500} : a = [status |-> s, view |-> None]
    BY <1>3 DEF Rendered, Plain, StatusFor
  <2> QED
    BY <2>1 DEF Fits, Response
<1> QED
  BY <1>2, <1>3

\* Queries with one cache key (response_cache.go:75) get the same answers.
LEMMA KeyDeterminesAnswer ==
  ASSUME NEW r \in Queries, NEW s \in Queries, Cacheable(r), Cacheable(s),
         CacheKey(r) = CacheKey(s), NEW a, Fits(r, a)
  PROVE  Fits(s, a)
<1>1. r.class = s.class /\ r.id = s.id /\ r.tier = s.tier
  BY DEF CacheKey
<1>2. r.method = s.method /\ r.accepts = s.accepts
  BY QueryAssumption, Zenon DEF Cacheable, Query
<1>3. AsksRecord(r) = AsksRecord(s) /\ Asked(r) = Asked(s) /\ Declined(r) = Declined(s)
  BY <1>1, <1>2 DEF AsksRecord, Asked, Declined, Routed
<1> QED
  BY <1>1, <1>3 DEF Fits

\* The cache key (response.go:71) of a query is well formed.
LEMMA CacheKeyType ==
  ASSUME NEW r \in Queries, Cacheable(r)
  PROVE  CacheKey(r) \in CacheKeys
BY QueryAssumption, Zenon DEF Cacheable, CacheKey, CacheKeys, Query, Class

\* NewResponseCache (response.go:88): the server starts in the invariant.
LEMMA ServerInit == Init => ServerInv
<1> SUFFICES ASSUME Init PROVE ServerInv
  OBVIOUS
<1> USE DEF Init, Records!Init
<1>1. /\ IsLRU(cache, CacheKeys, Entry) /\ Consistent(cache)
      /\ DOMAIN cache.items = {} /\ Len(cache.order) = 0
  BY EmptyIsLRU
<1>2. TypeOK
  <2>1. now \in Nat /\ known \in SUBSET Result
    OBVIOUS
  <2>2. /\ phase \in [Request -> {"idle", "asked", "answered", "failed"}]
        /\ want \in [Request -> Object \cup {None}]
        /\ began \in [Request -> Nat]
        /\ answer \in [Request -> Result \cup {None}]
    OBVIOUS
  <2>3. /\ pc \in [Request -> {"idle", "lookup", "handle", "record", "put", "done", "failed"}]
        /\ query \in [Request -> Queries \cup {None}]
        /\ resp \in [Request -> Response \cup {None}]
    OBVIOUS
  <2> QED
    BY <1>1, <2>1, <2>2, <2>3 DEF TypeOK
<1>3. FlowInv
  BY DEF FlowInv, Done
<1>4. CacheInv
  <2>1. 0 <= Size
    BY ServerAssumption
  <2> QED
    BY <1>1, <2>1 DEF CacheInv
<1>5. AgeInv
  BY <1>1 DEF AgeInv
<1> QED
  BY <1>2, <1>3, <1>4, <1>5 DEF ServerInv

\* The middleware's early decisions (response_cache.go:29-45), before the cache
\* is read or the handler runs.
LEMMA EarlyStep ==
  ASSUME ServerInv, NEW q \in Request,
         (\E r \in Queries : Arrive(q, r)) \/ Bypass(q) \/ Miss(q)
  PROVE  ServerInv'
<1> USE DEF ServerInv, Arrive, Bypass, Miss, Goto, recordVars
<1>1. TypeOK'
  BY DEF TypeOK
<1>2. FlowInv'
  BY DEF TypeOK, FlowInv, Done
<1>3. CacheInv'
  BY DEF CacheInv
<1>4. AgeInv'
  BY DEF TypeOK, AgeInv
<1> QED
  BY <1>1, <1>2, <1>3, <1>4

\* A hit (response.go:99): the entry answers this query too.
LEMMA HitStep ==
  ASSUME ServerInv, NEW q \in Request, Hit(q)
  PROVE  ServerInv'
<1> DEFINE k == CacheKey(query[q])
<1>0. query[q] \in Queries /\ Cacheable(query[q]) /\ k \in DOMAIN cache.items
  BY DEF Hit, ServerInv, FlowInv, Holds
<1>1. /\ IsLRU(cache, CacheKeys, Entry)' /\ Consistent(cache)'
      /\ cache'.items = cache.items /\ Len(cache'.order) = Len(cache.order)
  BY TouchKeeps DEF Hit, ServerInv, TypeOK, CacheInv
<1>2. cache.items[k] \in Entry /\ cache.items[k].resp \in Response
  BY <1>0 DEF ServerInv, TypeOK, IsLRU, Entry
<1>3. Fits(query[q], cache.items[k].resp)
  BY <1>0, KeyDeterminesAnswer DEF ServerInv, CacheInv
<1> HIDE DEF k
<1>4. /\ pc[q] = "lookup" /\ pc' = [pc EXCEPT ![q] = "done"]
      /\ resp' = [resp EXCEPT ![q] = cache.items[k].resp]
      /\ UNCHANGED <<now, known, phase, want, began, answer, query>>
  BY DEF Hit, Goto, Respond, Cached, recordVars, k
<1>5. TypeOK'
  BY <1>1, <1>2, <1>4 DEF ServerInv, TypeOK
<1>6. FlowInv'
  BY <1>2, <1>3, <1>4 DEF ServerInv, TypeOK, FlowInv, Done
<1>7. CacheInv'
  BY <1>1, <1>4 DEF ServerInv, CacheInv
<1>8. AgeInv'
  BY <1>1, <1>4 DEF ServerInv, TypeOK, AgeInv
<1> QED
  BY <1>5, <1>6, <1>7, <1>8 DEF ServerInv

\* A lookup that finds an expired entry (response.go:111) removes it.
LEMMA ExpiredStep ==
  ASSUME ServerInv, NEW q \in Request, Expired(q)
  PROVE  ServerInv'
<1> DEFINE k == CacheKey(query[q])
<1>1. /\ IsLRU(cache, CacheKeys, Entry)' /\ Consistent(cache)'
      /\ DOMAIN cache'.items \subseteq DOMAIN cache.items
      /\ \A x \in DOMAIN cache'.items : cache'.items[x] = cache.items[x]
      /\ Len(cache'.order) <= Len(cache.order)
  BY RemoveEntryKeeps DEF Expired, ServerInv, TypeOK, CacheInv
<1>2. /\ pc[q] = "lookup" /\ pc' = [pc EXCEPT ![q] = "handle"]
      /\ UNCHANGED <<now, known, phase, want, began, answer, query, resp>>
  BY DEF Expired, Goto, recordVars
<1>3. TypeOK'
  BY <1>1, <1>2 DEF ServerInv, TypeOK
<1>4. FlowInv'
  BY <1>2 DEF ServerInv, TypeOK, FlowInv, Done
<1>5. CacheInv'
  <2>1. Len(cache'.order) <= Size
    <3>1. Len(cache.order) \in Nat /\ Len(cache'.order) \in Nat
      BY <1>1 DEF ServerInv, TypeOK, IsLRU
    <3> QED
      BY <1>1, <3>1, ServerAssumption DEF ServerInv, CacheInv
  <2> QED
    BY <1>1, <2>1 DEF ServerInv, CacheInv
<1>6. AgeInv'
  BY <1>1, <1>2, Zenon DEF ServerInv, TypeOK, AgeInv
<1> QED
  BY <1>3, <1>4, <1>5, <1>6 DEF ServerInv

\* The handler is done (response_cache.go:58): a fitting response is kept for
\* the put only if it is a 200 to a cacheable query.
LEMMA FinishStep ==
  ASSUME ServerInv, NEW q \in Request, NEW a \in Response,
         query[q] \in Queries, Fits(query[q], a), Finish(q, a),
         UNCHANGED <<now, cache, query>>, TypeOK',
         \A p \in Request \ {q} : phase'[p] = phase[p],
         phase'[q] \in {"idle", "answered"},
         pc[q] \in {"handle", "record"},
         UNCHANGED <<want, began>>,
         (pc[q] = "handle") = (phase'[q] = "idle"),
         a.view # None => /\ phase'[q] = "answered"
                          /\ began[q] < a.view.at + MaxAge["nil"]
  PROVE  ServerInv'
<1>1. a.status \in 200..299 => a.status = 200
  BY DEF Response
<1>2. /\ resp' = [resp EXCEPT ![q] = a]
      /\ pc' = [pc EXCEPT ![q] = IF Stores(q, a) THEN "put" ELSE "done"]
      /\ Stores(q, a) => Cacheable(query[q]) /\ a.status = 200
  BY <1>1 DEF Finish, Respond, Goto, Stores
<1> HIDE DEF Stores
<1>3. FlowInv'
  BY <1>2 DEF ServerInv, TypeOK, FlowInv, Done
<1>4. CacheInv'
  BY DEF ServerInv, CacheInv
<1>5. AgeInv'
  <2>1. \A k \in DOMAIN cache'.items :
          LET e == cache'.items[k] IN
          e.resp.view # None => e.expires < e.resp.view.at + MaxAge["nil"] + MaxDelay + TTL
    BY DEF ServerInv, AgeInv
  <2>2. ASSUME NEW p \in Request
        PROVE  /\ phase'[p] # "idle" => began'[p] <= now'
               /\ pc'[p] \in {"record", "put"} /\ phase'[p] # "idle" => now' <= began'[p] + MaxDelay
               /\ pc'[p] = "put" /\ resp'[p].view # None =>
                    phase'[p] = "answered" /\ began'[p] < resp'[p].view.at + MaxAge["nil"]
    <3>1. CASE p # q
      BY <1>2, <2>2, <3>1 DEF ServerInv, TypeOK, AgeInv
    <3>2. CASE p = q /\ pc[q] = "handle"
      BY <1>2, <2>2, <3>2 DEF ServerInv, TypeOK, AgeInv
    <3>3. CASE p = q /\ pc[q] = "record"
      <4>1. phase[q] = "asked"
        BY <3>3 DEF ServerInv, FlowInv
      <4> QED
        BY <1>2, <2>2, <3>3, <4>1 DEF ServerInv, TypeOK, AgeInv
    <3> QED
      BY <3>1, <3>2, <3>3
  <2> QED
    BY <2>1, <2>2 DEF AgeInv
<1> QED
  BY <1>3, <1>4, <1>5 DEF ServerInv

\* A handler that asks for no record (handlers.go:140-157, 250).
LEMMA DeclineStep ==
  ASSUME ServerInv, NEW q \in Request, Decline(q)
  PROVE  ServerInv'
<1> DEFINE a == Declined(query[q])
<1>1. pc[q] = "handle" /\ query[q] \in Queries /\ phase[q] = "idle"
  BY DEF Decline, ServerInv, FlowInv
<1>2. a \in Response /\ Fits(query[q], a) /\ a.view = None
  BY <1>1, DeclinedFits DEF Decline
<1> HIDE DEF a
<1>3. Finish(q, a) /\ UNCHANGED <<now, known, phase, want, began, answer, cache, query>>
  BY DEF Decline, recordVars, a
<1>4. TypeOK'
  BY <1>2, <1>3 DEF ServerInv, TypeOK, Finish, Respond, Goto
<1> QED
  BY <1>1, <1>2, <1>3, <1>4, FinishStep

\* The data source answers and the handler renders (handlers.go:159-175).
LEMMA RenderStep ==
  ASSUME ServerInv, NEW q \in Request, NEW referral \in BOOLEAN, Render(q, referral)
  PROVE  ServerInv'
<1>1. /\ pc[q] = "record" /\ query[q] \in Queries /\ phase[q] = "asked"
      /\ AsksRecord(query[q]) /\ want[q] = Asked(query[q])
  BY DEF Render, ServerInv, FlowInv
<1>2. PICK x \in known : /\ x.of = want[q] /\ began[q] < x.at + MaxAge[x.err]
                         /\ answer' = [answer EXCEPT ![q] = x]
  BY Zenon DEF Render, Records!Answer
<1>3. x \in Result /\ answer'[q] = x
  BY <1>2 DEF ServerInv, TypeOK
<1> DEFINE a == Rendered(query[q], x, referral)
<1>4. /\ a \in Response /\ Fits(query[q], a)
      /\ a.view # None => x.err = "nil" /\ a.view.at = x.at
  BY <1>1, <1>2, <1>3, RenderedFits
<1>5. /\ Finish(q, a) /\ UNCHANGED <<now, want, began, cache, query>>
      /\ phase' = [phase EXCEPT ![q] = "answered"] /\ known' \in SUBSET known
  BY <1>3 DEF Render, Records!Answer
<1> HIDE DEF a
<1>6. TypeOK'
  BY <1>2, <1>3, <1>4, <1>5 DEF ServerInv, TypeOK, Finish, Respond, Goto
<1>7. /\ phase'[q] = "answered" /\ \A p \in Request \ {q} : phase'[p] = phase[p]
      /\ a.view # None => began[q] < a.view.at + MaxAge["nil"]
  BY <1>2, <1>4, <1>5 DEF ServerInv, TypeOK
<1> QED
  BY <1>1, <1>4, <1>5, <1>6, <1>7, FinishStep

\* The handler asks the record cache (handlers.go:159).
LEMMA AskStep ==
  ASSUME ServerInv, NEW q \in Request, Ask(q)
  PROVE  ServerInv'
<1> DEFINE o == Asked(query[q])
<1>1. /\ pc[q] = "handle" /\ AsksRecord(query[q]) /\ query[q] \in Queries
      /\ phase[q] = "idle" /\ o \in Object
  BY DEF Ask, ServerInv, FlowInv, AsksRecord, Asked, Object
<1>2. /\ pc' = [pc EXCEPT ![q] = "record"]
      /\ phase' = [phase EXCEPT ![q] = "asked"]
      /\ want' = [want EXCEPT ![q] = o]
      /\ began' = [began EXCEPT ![q] = now]
      /\ UNCHANGED <<now, known, answer, cache, query, resp>>
  BY DEF Ask, Records!Ask, Goto
<1> HIDE DEF o
<1>3. TypeOK'
  BY <1>1, <1>2 DEF ServerInv, TypeOK
<1>4. FlowInv'
  BY <1>1, <1>2 DEF ServerInv, TypeOK, FlowInv, Done, o
<1>5. CacheInv'
  BY <1>2 DEF ServerInv, CacheInv
<1>6. AgeInv'
  BY <1>1, <1>2, ServerAssumption, SMTT(30) DEF ServerInv, TypeOK, AgeInv
<1> QED
  BY <1>3, <1>4, <1>5, <1>6 DEF ServerInv

\* ResponseCache.Put (response.go:122).
LEMMA PutStep ==
  ASSUME ServerInv, NEW q \in Request, Put(q)
  PROVE  ServerInv'
<1> DEFINE k == CacheKey(query[q])
           e == [resp |-> resp[q], expires |-> now + TTL]
<1>1. /\ pc[q] = "put" /\ query[q] \in Queries /\ Cacheable(query[q])
      /\ resp[q] \in Response /\ Fits(query[q], resp[q]) /\ resp[q].status = 200
  BY DEF Put, ServerInv, FlowInv, Done
<1>2. k \in CacheKeys
  BY <1>1, CacheKeyType
<1>3. e \in Entry /\ now \in Nat
  BY <1>1, ServerAssumption DEF ServerInv, TypeOK, Entry
<1>4. /\ pc' = [pc EXCEPT ![q] = "done"] /\ cache' = PutEntry(cache, k, e, Size)
      /\ UNCHANGED <<now, known, phase, want, began, answer, query, resp>>
  BY DEF Put, Goto, recordVars
<1>5. e.resp = resp[q] /\ e.expires = now + TTL
  OBVIOUS
<1>6. /\ IsLRU(cache, CacheKeys, Entry) /\ Consistent(cache)
      /\ Len(cache.order) <= Size /\ Size \in Nat \ {0}
  BY ServerAssumption DEF ServerInv, TypeOK, CacheInv
<1> HIDE DEF k, e
<1>7. /\ IsLRU(cache', CacheKeys, Entry) /\ Consistent(cache') /\ Len(cache'.order) <= Size
      /\ k \in DOMAIN cache'.items /\ cache'.items[k] = e
      /\ \A x \in DOMAIN cache'.items \ {k} :
           x \in DOMAIN cache.items /\ cache'.items[x] = cache.items[x]
  BY <1>2, <1>3, <1>4, <1>6, PutEntryKeeps
<1>8. TypeOK'
  BY <1>4, <1>7 DEF ServerInv, TypeOK
<1>9. FlowInv'
  BY <1>1, <1>4 DEF ServerInv, TypeOK, FlowInv, Done
<1>10. CacheInv'
  <2>1. ASSUME NEW x \in DOMAIN cache'.items
        PROVE  \E r \in Queries : /\ Cacheable(r) /\ CacheKey(r) = x
                                  /\ Fits(r, cache'.items[x].resp)
                                  /\ cache'.items[x].resp.status = 200
    <3>1. CASE x = k
      BY <1>1, <1>5, <1>7, <3>1 DEF k
    <3>2. CASE x # k
      BY <1>7, <2>1, <3>2 DEF ServerInv, CacheInv
    <3> QED
      BY <3>1, <3>2
  <2> QED
    BY <1>7, <2>1 DEF CacheInv
<1>11. AgeInv'
  <2>1. ASSUME NEW x \in DOMAIN cache'.items, cache'.items[x].resp.view # None
        PROVE  cache'.items[x].expires
                 < cache'.items[x].resp.view.at + MaxAge["nil"] + MaxDelay + TTL
    <3>1. CASE x = k
      <4>1. /\ phase[q] = "answered" /\ began[q] < resp[q].view.at + MaxAge["nil"]
            /\ now <= began[q] + MaxDelay
        BY <1>1, <1>5, <1>7, <2>1, <3>1 DEF ServerInv, AgeInv
      <4>2. began[q] \in Nat /\ now \in Nat /\ MaxAge["nil"] \in Nat
            /\ TTL \in Nat /\ MaxDelay \in Nat
        BY ServerAssumption DEF ServerInv, TypeOK
      <4>3. resp[q].view.at \in Nat
        BY <1>1, <1>5, <1>7, <2>1, <3>1 DEF Response, View
      <4>4. now + TTL < resp[q].view.at + MaxAge["nil"] + MaxDelay + TTL
        BY <4>1, <4>2, <4>3
      <4> QED
        BY <1>5, <1>7, <3>1, <4>4
    <3>2. CASE x # k
      BY <1>7, <2>1, <3>2 DEF ServerInv, AgeInv
    <3> QED
      BY <3>1, <3>2
  <2>2. \A p \in Request :
          /\ phase'[p] # "idle" => began'[p] <= now'
          /\ pc'[p] \in {"record", "put"} /\ phase'[p] # "idle" => now' <= began'[p] + MaxDelay
          /\ pc'[p] = "put" /\ resp'[p].view # None =>
               phase'[p] = "answered" /\ began'[p] < resp'[p].view.at + MaxAge["nil"]
    BY <1>1, <1>4, SMTT(30) DEF ServerInv, TypeOK, AgeInv
  <2> QED
    BY <2>1, <2>2 DEF AgeInv
<1> QED
  BY <1>8, <1>9, <1>10, <1>11 DEF ServerInv

\* A panic in a lookup (handlers.go:159) and a restart of the process: requests
\* fail, entries go, nothing else happens.
LEMMA FailStep ==
  ASSUME ServerInv, Panic \/ Restart
  PROVE  ServerInv'
<1>1. /\ phase' \in [Request -> {"idle", "asked", "answered", "failed"}]
      /\ \A q \in Request : phase'[q] = phase[q] \/ (phase[q] = "asked" /\ phase'[q] = "failed")
      /\ known' \in SUBSET known
      /\ UNCHANGED <<now, want, began, answer, query, resp>>
  BY DEF Panic, Restart, Records!Fail
<1>2. /\ pc' \in [Request -> {"idle", "lookup", "handle", "record", "put", "done", "failed"}]
      /\ \A q \in Request : /\ pc'[q] = pc[q] \/ (pc[q] # "idle" /\ pc'[q] = "failed")
                            /\ phase'[q] # phase[q] => pc'[q] = "failed"
                            /\ pc'[q] = "failed" => phase'[q] # "asked"
  <2>1. CASE Panic
    BY <2>1 DEF Panic, Records!Fail, ServerInv, TypeOK, FlowInv
  <2>2. CASE Restart
    BY <2>2 DEF Restart, ServerInv, TypeOK, FlowInv
  <2> QED
    BY <2>1, <2>2
<1>3. CacheInv' /\ IsLRU(cache, CacheKeys, Entry)'
      /\ (cache' = cache \/ DOMAIN cache'.items = {})
  <2>1. CASE Panic
    BY <2>1, SMTT(30) DEF Panic, ServerInv, TypeOK, CacheInv
  <2>2. CASE Restart
    <3>1. 0 <= Size
      BY ServerAssumption
    <3> QED
      BY <2>2, <3>1, EmptyIsLRU DEF Restart, CacheInv
  <2> QED
    BY <2>1, <2>2
<1>4. TypeOK'
  BY <1>1, <1>2, <1>3 DEF ServerInv, TypeOK
<1>5. FlowInv'
  BY <1>1, <1>2 DEF ServerInv, FlowInv, Done
<1>6. AgeInv'
  BY <1>1, <1>2, <1>3 DEF ServerInv, AgeInv
<1> QED
  BY <1>3, <1>4, <1>5, <1>6 DEF ServerInv

\* Steps of the record cache's own, and of the clock.
LEMMA BackgroundStep ==
  ASSUME ServerInv, Internal \/ Tick
  PROVE  ServerInv'
<1>1. /\ UNCHANGED <<phase, want, began, answer, cache, pc, query, resp>>
      /\ now' \in Nat /\ now <= now'
      /\ \A q \in Request : pc[q] \in {"record", "put"} /\ phase[q] # "idle" =>
           now' = now \/ now' <= began[q] + MaxDelay
  <2>1. CASE Internal
    BY <2>1 DEF Internal, Records!Forget, Records!Read, ServerInv, TypeOK
  <2>2. CASE Tick
    BY <2>2, ServerAssumption DEF Tick, Records!Tick, ServerInv, TypeOK
  <2> QED
    BY <2>1, <2>2
<1>2. known' \in SUBSET Result
  <2>1. CASE Internal /\ Records!Forget
    BY <2>1 DEF Records!Forget, ServerInv, TypeOK
  <2>2. ASSUME NEW r \in Queries, NEW e \in Error, AsksRecord(r), Records!Read(Asked(r), e)
        PROVE  known' \in SUBSET Result
    <3>1. Asked(r) \in Object /\ now \in Nat
      BY <2>2 DEF AsksRecord, Asked, Object, ServerInv, TypeOK
    <3>2. [of |-> Asked(r), err |-> e, at |-> now] \in Result
      BY <3>1 DEF Result
    <3> QED
      BY <2>2, <3>2 DEF Records!Read, ServerInv, TypeOK
  <2>3. CASE Tick
    BY <2>3 DEF Tick, Records!Tick, ServerInv, TypeOK
  <2> QED
    BY <2>1, <2>2, <2>3 DEF Internal
<1>3. TypeOK'
  BY <1>1, <1>2 DEF ServerInv, TypeOK
<1>4. FlowInv'
  BY <1>1 DEF ServerInv, FlowInv, Done
<1>5. CacheInv'
  BY <1>1, SMTT(30) DEF ServerInv, CacheInv
<1>6. AgeInv'
  BY <1>1, SMTT(30) DEF ServerInv, TypeOK, AgeInv
<1> QED
  BY <1>3, <1>4, <1>5, <1>6 DEF ServerInv

\* ServerInv holds in every reachable state of the middleware, the handlers and
\* the response cache (response_cache.go:23).
THEOREM ServerInvariance == Spec => []ServerInv
<1>1. ASSUME ServerInv, [Next]_vars PROVE ServerInv'
  <2>1. CASE UNCHANGED vars
    <3>1. UNCHANGED <<now, known, phase, want, began, answer, cache, pc, query, resp>>
      BY <2>1 DEF vars, recordVars
    <3>2. TypeOK'
      BY <1>1, <3>1 DEF ServerInv, TypeOK
    <3>3. FlowInv'
      BY <1>1, <3>1 DEF ServerInv, FlowInv, Done
    <3>4. CacheInv' /\ AgeInv'
      BY <1>1, <3>1 DEF ServerInv, CacheInv, AgeInv
    <3> QED
      BY <3>2, <3>3, <3>4 DEF ServerInv
  <2> QED
    BY <1>1, <2>1, EarlyStep, HitStep, ExpiredStep, DeclineStep, AskStep, RenderStep, PutStep,
       FailStep, BackgroundStep DEF Next
<1> QED
  BY <1>1, ServerInit, PTL DEF Spec

\* The middleware (response_cache.go:23) is transparent.
THEOREM TransparencyTheorem == Spec => []Transparent
<1>1. ServerInv => Transparent
  BY DEF ServerInv, FlowInv, Transparent
<1> QED
  BY <1>1, ServerInvariance, PTL

\* The cache (response.go:122) holds clean responses under their own tier.
THEOREM StoredCleanTheorem == Spec => []StoredClean
<1>1. ASSUME ServerInv PROVE StoredClean
  <2>1. ASSUME NEW k \in DOMAIN cache.items, cache.items[k].resp.view # None
        PROVE  /\ cache.items[k].resp.view.tier = k[3]
               /\ cache.items[k].resp.view.of = [class |-> k[1], key |-> KeyOf[k[1]][k[2]]]
    <3>1. PICK r \in Queries : CacheKey(r) = k /\ Fits(r, cache.items[k].resp)
      BY <1>1, <2>1 DEF ServerInv, CacheInv
    <3> QED
      BY <2>1, <3>1 DEF Fits, CacheKey, Asked
  <2> QED
    BY <1>1, <2>1 DEF ServerInv, CacheInv, StoredClean
<1> QED
  BY <1>1, ServerInvariance, PTL

\* The age of what a hit (response.go:111) shows is bounded by the two caches'
\* times and the handling time.
THEOREM ResponseAgeTheorem == Spec => ResponseAgeBounded
<1> DEFINE A == \A q \in Request : pc[q] = "lookup" /\ pc'[q] = "done" /\ resp'[q].view # None =>
                  now < resp'[q].view.at + MaxAge["nil"] + MaxDelay + TTL
<1>1. ASSUME ServerInv, [Next]_vars PROVE [A]_vars
  <2> SUFFICES ASSUME Next, NEW q \in Request, pc[q] = "lookup", pc'[q] = "done",
                      resp'[q].view # None
               PROVE  now < resp'[q].view.at + MaxAge["nil"] + MaxDelay + TTL
    BY <1>1
  <2>1. Hit(q)
    <3>0. pc \in [Request -> {"idle", "lookup", "handle", "record", "put", "done", "failed"}]
      BY <1>1 DEF ServerInv, TypeOK
    <3>1. ASSUME NEW p \in Request,
                 (\E r \in Queries : Arrive(p, r)) \/ Bypass(p) \/ Expired(p) \/ Miss(p) \/ Ask(p)
          PROVE  FALSE
      BY <3>0, <3>1 DEF Arrive, Bypass, Expired, Miss, Ask, Goto
    <3>2. ASSUME NEW p \in Request,
                 Decline(p) \/ (\E b \in BOOLEAN : Render(p, b)) \/ Put(p)
          PROVE  FALSE
      BY <3>0, <3>2, Zenon DEF Decline, Render, Put, Finish, Goto
    <3>3. ASSUME NEW p \in Request \ {q}, Hit(p) PROVE FALSE
      BY <3>0, <3>3 DEF Hit, Goto
    <3>4. ASSUME Panic \/ Restart \/ Internal \/ Tick PROVE FALSE
      BY <3>0, <3>4 DEF Panic, Restart, Internal, Tick
    <3> QED
      BY <3>1, <3>2, <3>3, <3>4 DEF Next
  <2>2. /\ CacheKey(query[q]) \in DOMAIN cache.items /\ resp'[q] = Cached(q).resp
        /\ now <= Cached(q).expires
    BY <1>1, <2>1 DEF Hit, Holds, Respond, IsExpired, ServerInv, TypeOK, IsLRU, Entry, Cached
  <2>3. Cached(q).expires < Cached(q).resp.view.at + MaxAge["nil"] + MaxDelay + TTL
    BY <1>1, <2>2 DEF ServerInv, AgeInv, Cached
  <2>4. Cached(q) \in Entry /\ Cached(q).resp.view.at \in Nat
    BY <1>1, <2>2 DEF ServerInv, TypeOK, IsLRU, Cached, Entry, Response, View
  <2>5. now \in Nat /\ Cached(q).expires \in Nat /\ MaxAge["nil"] \in Nat
        /\ MaxDelay \in Nat /\ TTL \in Nat
    BY <1>1, <2>4, ServerAssumption DEF ServerInv, TypeOK, Entry
  <2> QED
    BY <2>2, <2>3, <2>4, <2>5
<1> QED
  BY <1>1, ServerInvariance, PTL DEF Spec, ResponseAgeBounded

============================================================================
