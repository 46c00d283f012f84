--------------------------- MODULE ResponseCache ---------------------------
(***************************************************************************)
(* The response cache: its LRU (pkg/rdap/cache/response.go), the           *)
(* middleware in front of the router (pkg/rdap/handlers/response_cache.go) *)
(* and the handlers behind it, on top of the record cache.                 *)
(*                                                                         *)
(* Of the record cache only the contract is used: RecordContract, which    *)
(* RecordCache implements.  Requests run concurrently; Get and Put of the  *)
(* response cache are critical sections, one action each.                  *)
(***************************************************************************)
EXTENDS Handlers, LRU

CONSTANTS
  Request,    \* the requests made in a behaviour
  Queries,    \* the queries they can make
  Error,      \* what a read of the data source can give
  MaxAge,     \* the record cache's bound on the age of an answer, per error
  Size,       \* NewResponseCache's size and ttl
  TTL,
  MaxKnown,   \* bound on the results the record cache holds at a time
  MaxDelay,   \* longest time from asking for the record to the put
  MaxTime     \* bound on the clock

ASSUME QueryAssumption ==
  /\ Queries \subseteq Query
  /\ \A r \in Queries : r.class \notin Class => r.id = ""
  /\ KeyOf \in [Class -> [Id -> Key \cup {"malformed", "unrouted"}]]
  /\ {"malformed", "unrouted"} \cap Key = {}
  /\ None \notin View

ASSUME ServerAssumption ==
  /\ "nil" \in Error /\ MaxAge \in [Error -> Nat \ {0}]
  /\ Size \in Nat \ {0} /\ TTL \in Nat \ {0}
  /\ MaxKnown \in Nat /\ MaxDelay \in Nat /\ MaxTime \in Nat

VARIABLES
  now, known, phase, want, began, answer,   \* the record cache, see RecordContract
  cache,    \* ResponseCache: cache key |-> entry
  pc,       \* where each request is
  query,    \* what each request asks
  resp      \* the response each request got

recordVars == <<known, phase, want, began, answer>>
vars == <<now, recordVars, cache, pc, query, resp>>

Records == INSTANCE RecordContract

CacheKeys == (Class \cup {"help"}) \X Id \X Tier

Entry == [resp : Response, expires : Nat]

Result == [of : Object, err : Error, at : Nat]

TypeOK ==
  /\ now \in Nat /\ known \in SUBSET Result
  /\ phase \in [Request -> {"idle", "asked", "answered", "failed"}]
  /\ want \in [Request -> Object \cup {None}]
  /\ began \in [Request -> Nat]
  /\ answer \in [Request -> Result \cup {None}]
  /\ IsLRU(cache, CacheKeys, Entry)
  /\ pc \in [Request -> {"idle", "lookup", "handle", "record", "put", "done", "failed"}]
  /\ query \in [Request -> Queries \cup {None}]
  /\ resp \in [Request -> Response \cup {None}]

Init ==
  /\ Records!Init
  /\ cache = EmptyLRU
  /\ pc = [q \in Request |-> "idle"]
  /\ query = [q \in Request |-> None]
  /\ resp = [q \in Request |-> None]

----------------------------------------------------------------------------
Goto(q, label) == pc' = [pc EXCEPT ![q] = label]

Respond(q, r) == resp' = [resp EXCEPT ![q] = r]

Arrive(q, r) ==
  /\ pc[q] = "idle"
  /\ query' = [query EXCEPT ![q] = r]
  /\ Goto(q, "lookup")
  /\ UNCHANGED <<now, recordVars, cache, resp>>

\* The middleware's early returns, classifyCacheable included.
Cacheable(r) == r.method = "GET" /\ r.accepts /\ r.class # "other"

\* Mutant: the tier is not part of the key.
KeyOfAnyTier(r) == <<r.class, r.id, CHOOSE t \in Tier : TRUE>>

CacheKey(r) == <<r.class, r.id, r.tier>>

Bypass(q) ==
  /\ pc[q] = "lookup" /\ ~Cacheable(query[q])
  /\ Goto(q, "handle")
  /\ UNCHANGED <<now, recordVars, cache, query, resp>>

\* ResponseCache.Get
Cached(q) == cache.items[CacheKey(query[q])]

\* Mutant: entries never expire.
IsExpiredNever(q) == FALSE

IsExpired(q) == now > Cached(q).expires

Hit(q) ==
  /\ pc[q] = "lookup" /\ Cacheable(query[q])
  /\ Holds(cache, CacheKey(query[q])) /\ ~IsExpired(q)
  /\ cache' = Touch(cache, CacheKey(query[q]))
  /\ Respond(q, Cached(q).resp)
  /\ Goto(q, "done")
  /\ UNCHANGED <<now, recordVars, query>>

Expired(q) ==
  /\ pc[q] = "lookup" /\ Cacheable(query[q])
  /\ Holds(cache, CacheKey(query[q])) /\ IsExpired(q)
  /\ cache' = RemoveEntry(cache, CacheKey(query[q]))
  /\ Goto(q, "handle")
  /\ UNCHANGED <<now, recordVars, query, resp>>

Miss(q) ==
  /\ pc[q] = "lookup" /\ Cacheable(query[q]) /\ ~Holds(cache, CacheKey(query[q]))
  /\ Goto(q, "handle")
  /\ UNCHANGED <<now, recordVars, cache, query, resp>>

----------------------------------------------------------------------------
\* What the middleware does with the captured response when the handler is done.
Stores(q, r) == Cacheable(query[q]) /\ r.status \in 200..299 /\ HasBody(r)

Finish(q, r) == Respond(q, r) /\ Goto(q, IF Stores(q, r) THEN "put" ELSE "done")

Decline(q) ==
  /\ pc[q] = "handle" /\ ~AsksRecord(query[q])
  /\ Finish(q, Declined(query[q]))
  /\ UNCHANGED <<now, recordVars, cache, query>>

Ask(q) ==
  /\ pc[q] = "handle" /\ AsksRecord(query[q])
  /\ Records!Ask(q, Asked(query[q]))
  /\ Goto(q, "record")
  /\ UNCHANGED <<cache, query, resp>>

Render(q, referral) ==
  /\ pc[q] = "record"
  /\ Records!Answer(q)
  /\ Finish(q, Rendered(query[q], answer'[q], referral))
  /\ UNCHANGED <<cache, query>>

\* A lookup panics: the middleware's code after the handler is skipped.
Panic ==
  /\ Records!Fail
  /\ pc' = [q \in Request |-> IF phase'[q] # phase[q] THEN "failed" ELSE pc[q]]
  /\ UNCHANGED <<cache, query, resp>>

\* The process ends and the next one starts with empty caches.
Restart ==
  /\ phase' = [q \in Request |-> IF phase[q] = "asked" THEN "failed" ELSE phase[q]]
  /\ known' = {}
  /\ Records!Fail
  /\ pc' = [q \in Request |-> IF pc[q] \in {"idle", "done"} THEN pc[q] ELSE "failed"]
  /\ cache' = EmptyLRU
  /\ UNCHANGED <<query, resp>>

\* ResponseCache.Put
Put(q) ==
  /\ pc[q] = "put"
  /\ cache' = PutEntry(cache, CacheKey(query[q]), [resp |-> resp[q], expires |-> now + TTL], Size)
  /\ Goto(q, "done")
  /\ UNCHANGED <<now, recordVars, query, resp>>

\* The record cache reads objects that queries ask for and drops entries by
\* itself.
Internal ==
  /\ \/ Records!Forget
     \/ /\ Cardinality(known) < MaxKnown
        /\ \E r \in Queries, e \in Error : AsksRecord(r) /\ Records!Read(Asked(r), e)
  /\ UNCHANGED <<cache, pc, query, resp>>

Tick ==
  /\ now < MaxTime
  /\ \A q \in Request :
       pc[q] \in {"record", "put"} /\ phase[q] # "idle" => now < began[q] + MaxDelay
  /\ Records!Tick
  /\ UNCHANGED <<cache, pc, query, resp>>

Next ==
  \/ \E q \in Request : \/ \E r \in Queries : Arrive(q, r)
                        \/ Bypass(q) \/ Hit(q) \/ Expired(q) \/ Miss(q)
                        \/ Decline(q) \/ Ask(q) \/ Put(q)
                        \/ \E referral \in BOOLEAN : Render(q, referral)
  \/ Panic \/ Restart \/ Internal \/ Tick

Spec == Init /\ [][Next]_vars

----------------------------------------------------------------------------
Done(q) == pc[q] \in {"put", "done"}

\* What the handler may answer to query r.
Fits(r, a) ==
  IF a.view # None
  THEN /\ AsksRecord(r) /\ a.status = 200
       /\ a.view.of = Asked(r) /\ a.view.tier = r.tier
  ELSE IF AsksRecord(r) THEN a.status \in {302, 403, 404, 500} ELSE a = Declined(r)

\* responseCacheMiddleware (response_cache.go:23): the cache is transparent.  A
\* response with an object in it shows the object that was asked for, redacted
\* for the caller's own tier; any other response is one the handler gives to
\* this very query, 406 for an unacceptable one included.
Transparent == \A q \in Request : Done(q) => Fits(query[q], resp[q])

\* ResponseCache.Get (response.go:111) on top of the record cache: what a hit
\* shows was read less than the response cache's TTL, the record cache's bound
\* and the handling time ago.
ResponseAgeBounded ==
  [][\A q \in Request : pc[q] = "lookup" /\ pc'[q] = "done" /\ resp'[q].view # None =>
       now < resp'[q].view.at + MaxAge["nil"] + MaxDelay + TTL]_vars

\* ResponseCache.Put (response.go:122): entries are clean responses, stored
\* under the tier they were redacted for, in a map and a list that agree.
StoredClean ==
  /\ Consistent(cache) /\ Len(cache.order) <= Size
  /\ \A k \in DOMAIN cache.items :
       LET e == cache.items[k] IN
       /\ e.resp.status = 200
       /\ e.resp.view # None => /\ e.resp.view.tier = k[3]
                                /\ e.resp.view.of = [class |-> k[1], key |-> KeyOf[k[1]][k[2]]]

\* Where each request is, and what it has.
FlowInv ==
  \A q \in Request :
    /\ pc[q] # "idle" => query[q] \in Queries
    /\ pc[q] \in {"idle", "lookup", "handle"} => phase[q] = "idle"
    /\ (pc[q] = "record") = (phase[q] = "asked")
    /\ pc[q] = "record" => AsksRecord(query[q]) /\ want[q] = Asked(query[q])
    /\ Done(q) => resp[q] \in Response /\ Fits(query[q], resp[q])
    /\ pc[q] = "put" => Cacheable(query[q]) /\ resp[q].status = 200

\* Every entry is the response to a query with its key.
CacheInv ==
  /\ Consistent(cache) /\ Len(cache.order) <= Size
  /\ \A k \in DOMAIN cache.items :
       \E r \in Queries : /\ Cacheable(r) /\ CacheKey(r) = k
                          /\ Fits(r, cache.items[k].resp) /\ cache.items[k].resp.status = 200

\* How old the responses in the cache and on their way into it are.
AgeInv ==
  /\ \A k \in DOMAIN cache.items :
       LET e == cache.items[k] IN
       e.resp.view # None => e.expires < e.resp.view.at + MaxAge["nil"] + MaxDelay + TTL
  /\ \A q \in Request :
       /\ phase[q] # "idle" => began[q] <= now
       /\ pc[q] \in {"record", "put"} /\ phase[q] # "idle" => now <= began[q] + MaxDelay
       /\ pc[q] = "put" /\ resp[q].view # None =>
            phase[q] = "answered" /\ began[q] < resp[q].view.at + MaxAge["nil"]

\* The inductive invariant of the middleware, the handlers and the cache
\* (response_cache.go:23, response.go:99): types, control, contents and ages.
ServerInv == TypeOK /\ FlowInv /\ CacheInv /\ AgeInv

----------------------------------------------------------------------------
(* A statement of the source that does not hold.                           *)

\* "Either makes the response omit the JSContact `jscard` member and emit only
\* the legacy `vcardArray`" (handlers.go:91): the cache key does not hold the
\* negotiated form, so a hit can have the other one.
FormRespected ==
  \A q \in Request : Done(q) /\ resp[q].view # None => resp[q].view.form = query[q].form
============================================================================
