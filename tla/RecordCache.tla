---------------------------- MODULE RecordCache ----------------------------
(***************************************************************************)
(* The record cache (pkg/rdap/cache/cache.go): one LRU bucket per object   *)
(* class in front of the data source, a time to live per entry,            *)
(* stale-while-revalidate, and one singleflight table that all buckets     *)
(* share, keyed by the lookup key alone.                                   *)
(*                                                                         *)
(* Every request runs in a goroutine of its own, and a request that is     *)
(* answered from a stale entry starts one more, refreshAsync.  Goroutines  *)
(* interleave between the critical sections of the bucket's and the        *)
(* singleflight's mutexes: one action per critical section.                *)
(*                                                                         *)
(* A result is what one read of the data source gave: the object asked     *)
(* for, the error (if any) and, in place of the record's contents, the     *)
(* time of the read.                                                       *)
(***************************************************************************)
EXTENDS Integers, LRU

CONSTANTS
  Request,    \* the requests made in a behaviour
  Class,      \* object classes: domain, entity, nameserver, network
  Key,        \* lookup keys: names, handles, addresses
  Asked,      \* the objects the requests ask for
  Answering,  \* the keys for which every query to the data source comes back:
              \* one for another key may hang or panic
  Error,      \* what a read of the data source can give: "nil", ErrNotFound, ...
  Outcome,    \* those that a read of each key can give
  Size,       \* Config.Size, Config.TTL, Config.NegTTL, Config.StaleTTL
  TTL,
  NegTTL,
  StaleTTL,
  MaxLag,     \* longest time from a read of the data source to the put
  MaxTime,    \* bound on the clock
  None        \* "no value yet"

ASSUME ConfigAssumption ==
  /\ Size \in Nat \ {0} /\ TTL \in Nat \ {0} /\ NegTTL \in Nat \ {0}
  /\ StaleTTL \in Nat /\ MaxLag \in Nat /\ MaxTime \in Nat
  /\ "nil" \in Error

Object == [class : Class, key : Key]

ASSUME SourceAssumption ==
  Asked \subseteq Object /\ Answering \subseteq Key /\ Outcome \in [Key -> SUBSET Error]

Result == [of : Object, err : Error, at : Nat]

Entry == [res : Result, expires : Nat]

ASSUME NoneAssumption == None \notin Object \cup Result

Goroutine == Request \X {"serve", "refresh"}

Serve(q) == <<q, "serve">>

Refresh(q) == <<q, "refresh">>

VARIABLES
  now,      \* the clock
  bucket,   \* the LRU of each class
  calls,    \* singleflight.calls: key |-> the goroutine that leads the call
  pc,       \* where each goroutine is
  want,     \* the object each goroutine looks up
  began,    \* getOrLoad's first clock reading
  res,      \* the result a goroutine holds; a leader's is its sfCall's val, err
  expires   \* the expiry computed for the put

vars == <<now, bucket, calls, pc, want, began, res, expires>>

PC == {"idle", "lookup", "remove", "flight", "fetch", "answered", "done",
       "waiting", "stamp", "put", "returned", "panicked"}

Leading == {"fetch", "answered", "done"}

\* The leader of a registered call has not called wg.Done yet; if it panicked
\* before that, it never will.
Unfinished == {"fetch", "answered", "panicked"}

TypeOK ==
  /\ now \in Nat
  /\ bucket = [c \in Class |-> bucket[c]]
  /\ \A c \in Class : IsLRU(bucket[c], Key, Entry)
  /\ DOMAIN calls \subseteq Key /\ calls \in [DOMAIN calls -> Goroutine]
  /\ pc \in [Goroutine -> PC]
  /\ want \in [Goroutine -> Object \cup {None}]
  /\ began \in [Goroutine -> Nat]
  /\ res \in [Goroutine -> Result \cup {None}]
  /\ expires \in [Goroutine -> Nat]

Init ==
  /\ now = 0
  /\ bucket = [c \in Class |-> EmptyLRU]
  /\ calls = <<>>
  /\ pc = [g \in Goroutine |-> "idle"]
  /\ want = [g \in Goroutine |-> None]
  /\ began = [g \in Goroutine |-> 0]
  /\ res = [g \in Goroutine |-> None]
  /\ expires = [g \in Goroutine |-> 0]

----------------------------------------------------------------------------
TtlFor(err) == IF err = "nil" THEN TTL ELSE NegTTL

Goto(g, label) == pc' = [pc EXCEPT ![g] = label]

\* GetDomain, GetEntity, GetNameserver, GetIPNetwork: enter getOrLoad and read
\* the clock.
Get(q, o) ==
  LET g == Serve(q) IN
  /\ pc[g] = "idle"
  /\ Goto(g, "lookup")
  /\ want' = [want EXCEPT ![g] = o]
  /\ began' = [began EXCEPT ![g] = now]
  /\ UNCHANGED <<now, bucket, calls, res, expires>>

\* bucket.get, and what the age of the entry says to do with it.
Found(g) == Holds(bucket[want[g].class], want[g].key)

EntryOf(g) == bucket[want[g].class].items[want[g].key]

IsFresh(g) == began[g] < EntryOf(g).expires

\* Mutant: the stale window has no end.
IsStaleForever(g) == StaleTTL > 0

IsStale(g) == StaleTTL > 0 /\ began[g] < EntryOf(g).expires + StaleTTL

TouchBucket(g) == bucket' = [bucket EXCEPT ![want[g].class] = Touch(@, want[g].key)]

HitFresh(q) ==
  LET g == Serve(q) IN
  /\ pc[g] = "lookup" /\ Found(g) /\ IsFresh(g)
  /\ TouchBucket(g)
  /\ res' = [res EXCEPT ![g] = EntryOf(g).res]
  /\ Goto(g, "returned")
  /\ UNCHANGED <<now, calls, want, began, expires>>

\* Mutant: a stale answer is stored again.
HitStaleStores(q) ==
  LET g == Serve(q) IN
  /\ pc[g] = "lookup" /\ Found(g) /\ ~IsFresh(g) /\ IsStale(g)
  /\ TouchBucket(g)
  /\ res' = [res EXCEPT ![g] = EntryOf(g).res]
  /\ pc' = [pc EXCEPT ![g] = "stamp", ![Refresh(q)] = "flight"]
  /\ want' = [want EXCEPT ![Refresh(q)] = want[g]]
  /\ UNCHANGED <<now, calls, began, expires>>

HitStale(q) ==
  LET g == Serve(q) IN
  /\ pc[g] = "lookup" /\ Found(g) /\ ~IsFresh(g) /\ IsStale(g)
  /\ TouchBucket(g)
  /\ res' = [res EXCEPT ![g] = EntryOf(g).res]
  /\ pc' = [pc EXCEPT ![g] = "returned", ![Refresh(q)] = "flight"]
  /\ want' = [want EXCEPT ![Refresh(q)] = want[g]]
  /\ UNCHANGED <<now, calls, began, expires>>

HitExpired(q) ==
  LET g == Serve(q) IN
  /\ pc[g] = "lookup" /\ Found(g) /\ ~IsFresh(g) /\ ~IsStale(g)
  /\ TouchBucket(g)
  /\ Goto(g, "remove")
  /\ UNCHANGED <<now, calls, want, began, res, expires>>

Miss(q) ==
  LET g == Serve(q) IN
  /\ pc[g] = "lookup" /\ ~Found(g)
  /\ Goto(g, "flight")
  /\ UNCHANGED <<now, bucket, calls, want, began, res, expires>>

\* bucket.remove: a critical section of its own, so the entry it removes need
\* not be the one the lookup saw.
RemoveExpired(q) ==
  LET g == Serve(q) IN
  /\ pc[g] = "remove"
  /\ bucket' = [bucket EXCEPT ![want[g].class] = RemoveEntry(@, want[g].key)]
  /\ Goto(g, "flight")
  /\ UNCHANGED <<now, calls, want, began, res, expires>>

----------------------------------------------------------------------------
\* Mutant: the table is locked while a call is under way.
LeadAlone(g) ==
  /\ pc[g] = "flight" /\ DOMAIN calls = {}
  /\ calls' = [k \in {want[g].key} |-> g]
  /\ Goto(g, "fetch")
  /\ UNCHANGED <<now, bucket, want, began, res, expires>>

\* Mutant: the table is not consulted.
LeadUnchecked(g) ==
  /\ pc[g] = "flight"
  /\ calls' = [k \in DOMAIN calls \cup {want[g].key} |->
                 IF k = want[g].key THEN g ELSE calls[k]]
  /\ Goto(g, "fetch")
  /\ UNCHANGED <<now, bucket, want, began, res, expires>>

\* singleflight.do, first critical section: lead a call of one's own, ...
Lead(g) ==
  /\ pc[g] = "flight" /\ want[g].key \notin DOMAIN calls
  /\ calls' = [k \in DOMAIN calls \cup {want[g].key} |->
                 IF k = want[g].key THEN g ELSE calls[k]]
  /\ Goto(g, "fetch")
  /\ UNCHANGED <<now, bucket, want, began, res, expires>>

\* ... or join the registered one: wait for it, or, between its wg.Done and its
\* removal from the table, take its result at once.
Leader(g) == calls[want[g].key]

\* Mutant: waits on a call that is over.
JoinAlwaysWaits(g) ==
  /\ pc[g] = "flight" /\ want[g].key \in DOMAIN calls
  /\ Goto(g, "waiting")
  /\ UNCHANGED <<now, bucket, calls, want, began, res, expires>>

Join(g) ==
  /\ pc[g] = "flight" /\ want[g].key \in DOMAIN calls
  /\ pc[Leader(g)] \in Unfinished
  /\ Goto(g, "waiting")
  /\ UNCHANGED <<now, bucket, calls, want, began, res, expires>>

JoinLate(g) ==
  /\ pc[g] = "flight" /\ want[g].key \in DOMAIN calls
  /\ pc[Leader(g)] \notin Unfinished
  /\ res' = [res EXCEPT ![g] = res[Leader(g)]]
  /\ Goto(g, "stamp")
  /\ UNCHANGED <<now, bucket, calls, want, began, expires>>

\* fetch: the data source answers the leader's query, with a record, with
\* ErrNotFound or with any other error (refreshAsync's own timeout included).
Fetch(g, e) ==
  /\ pc[g] = "fetch" /\ e \in Outcome[want[g].key]
  /\ res' = [res EXCEPT ![g] = [of |-> want[g], err |-> e, at |-> now]]
  /\ Goto(g, "answered")
  /\ UNCHANGED <<now, bucket, calls, want, began, expires>>

\* Mutant: one WaitGroup for all calls.
IsWaitingAtAll(h, g) == pc[h] = "waiting"

\* wg.Done: a call's result never changes from here on, so each waiter takes
\* its copy in this step, whenever it is scheduled to go on.
IsWaitingFor(h, g) == pc[h] = "waiting" /\ want[h].key = want[g].key

\* Mutant: wg.Done is missing.
DoneWakesNobody(g) ==
  /\ pc[g] = "answered"
  /\ Goto(g, "done")
  /\ UNCHANGED <<now, bucket, calls, want, began, res, expires>>

Done(g) ==
  /\ pc[g] = "answered"
  /\ pc' = [h \in Goroutine |-> IF h = g THEN "done"
                                ELSE IF IsWaitingFor(h, g) THEN "stamp" ELSE pc[h]]
  /\ res' = [h \in Goroutine |-> IF IsWaitingFor(h, g) THEN res[g] ELSE res[h]]
  /\ UNCHANGED <<now, bucket, calls, want, began, expires>>

\* Mutant: the call stays in the table.
ForgetNothing(g) ==
  /\ pc[g] = "done"
  /\ Goto(g, "stamp")
  /\ UNCHANGED <<now, bucket, calls, want, began, res, expires>>

\* The last critical section of do: forget the call.
Forget(g) ==
  /\ pc[g] = "done"
  /\ calls' = Restrict(calls, DOMAIN calls \ {want[g].key})
  /\ Goto(g, "stamp")
  /\ UNCHANGED <<now, bucket, want, began, res, expires>>

----------------------------------------------------------------------------
\* v.(*V): the result must be of the class this goroutine asked for.  The
\* assertion runs for errors too: a nil *V in an interface is not nil.
AssertionHolds(g) == res[g].of.class = want[g].class

Stamp(g) ==
  /\ pc[g] = "stamp" /\ AssertionHolds(g)
  /\ expires' = [expires EXCEPT ![g] = now + TtlFor(res[g].err)]
  /\ Goto(g, "put")
  /\ UNCHANGED <<now, bucket, calls, want, began, res>>

\* A goroutine panics when the assertion fails, or with the data source: do has
\* no defer around fn, so that the call of such a leader stays in the table.
Panics(g) ==
  \/ pc[g] = "stamp" /\ ~AssertionHolds(g)
  \/ pc[g] = "fetch" /\ want[g].key \notin Answering

\* net/http recovers the panic of a request's goroutine; the panic of any other
\* goroutine ends the process, and the next one starts with empty caches.
PanicRequest(q) ==
  LET g == Serve(q) IN
  /\ Panics(g)
  /\ Goto(g, "panicked")
  /\ UNCHANGED <<now, bucket, calls, want, began, res, expires>>

PanicProcess(q) ==
  LET g == Refresh(q) IN
  /\ Panics(g)
  /\ pc' = [h \in Goroutine |-> IF pc[h] \in {"idle", "returned"}
                                THEN pc[h] ELSE "panicked"]
  /\ bucket' = [c \in Class |-> EmptyLRU]
  /\ calls' = <<>>
  /\ UNCHANGED <<now, want, began, res, expires>>

\* bucket.put, by the leader of a call and by everyone who joined it.
Put(g) ==
  /\ pc[g] = "put"
  /\ bucket' = [bucket EXCEPT ![want[g].class] =
       PutEntry(@, want[g].key, [res |-> res[g], expires |-> expires[g]], Size)]
  /\ Goto(g, "returned")
  /\ expires' = [expires EXCEPT ![g] = 0]
  /\ UNCHANGED <<now, calls, want, began, res>>

----------------------------------------------------------------------------
\* Time passes, but no result waits longer than MaxLag for its put.
Pending == {"answered", "done", "stamp", "put"}

Tick ==
  /\ now < MaxTime
  /\ \A g \in Goroutine : pc[g] \in Pending => now < res[g].at + MaxLag
  /\ now' = now + 1
  /\ UNCHANGED <<bucket, calls, pc, want, began, res, expires>>

Lookup(q) == HitFresh(q) \/ HitStale(q) \/ HitExpired(q) \/ Miss(q) \/ RemoveExpired(q)

Flight(g) ==
  Lead(g) \/ Join(g) \/ JoinLate(g) \/ Done(g) \/ Forget(g) \/ Stamp(g) \/ Put(g)

Next ==
  \/ \E q \in Request : \/ \E o \in Asked : Get(q, o)
                        \/ Lookup(q) \/ PanicRequest(q) \/ PanicProcess(q)
  \/ \E g \in Goroutine : Flight(g) \/ \E e \in Error : Fetch(g, e)
  \/ Tick

Spec == Init /\ [][Next]_vars

\* Every goroutine that can run is run, a failed assertion panics, and queries
\* come back: a refresh's within its ten seconds, a request's, which has no
\* deadline (context.Background), for the keys in Answering.
Fairness ==
  /\ \A q \in Request :
       /\ WF_vars(Lookup(q))
       /\ WF_vars(pc[Serve(q)] = "stamp" /\ PanicRequest(q))
       /\ WF_vars(pc[Refresh(q)] = "stamp" /\ PanicProcess(q))
       /\ WF_vars(\E e \in Error : Fetch(Serve(q), e) /\ want[Serve(q)].key \in Answering)
       /\ WF_vars(\E e \in Error : Fetch(Refresh(q), e))
  /\ \A g \in Goroutine : WF_vars(Flight(g))

FairSpec == Spec /\ Fairness

----------------------------------------------------------------------------
(* Safety.                                                                 *)

\* singleflight (cache.go:276): at any time at most one goroutine runs a fetch
\* for a key, requests and background refreshes of all four classes together.
OneFetchPerKey ==
  \A g, h \in Goroutine :
    pc[g] \in Leading /\ pc[h] \in Leading /\ want[g].key = want[h].key => g = h

\* wg.Wait (cache.go:283): whoever waits for a call waits for one that is still
\* registered and whose wg.Done is still to come, so no wake-up is lost between
\* finding the call in the table and waiting for it; only the call of a leader
\* that panicked in the data source keeps its waiters for ever.
NoLostWakeup ==
  \A g \in Goroutine :
    pc[g] = "waiting" =>
      /\ want[g].key \in DOMAIN calls
      /\ \/ pc[Leader(g)] \in {"fetch", "answered"}
         \/ pc[Leader(g)] = "panicked" /\ want[g].key \notin Answering

\* lru.put (cache.go:227): no interleaving of lookups, removals and puts makes
\* a bucket's map and list disagree or lets it exceed Config.Size.
BucketsConsistent ==
  \A c \in Class : Consistent(bucket[c]) /\ Len(bucket[c].order) <= Size

\* getOrLoad (cache.go:107): a caller gets the object it asked for, although
\* the call it joined may have been made for another class.
ServesWhatWasAsked ==
  \A q \in Request :
    LET g == Serve(q) IN pc[g] = "returned" => res[g].of = want[g]

\* Config.TTL, Config.NegTTL, Config.StaleTTL (cache.go:43): whatever the
\* interleaving, an answer is at most TTL + StaleTTL (NegTTL + StaleTTL for an
\* error) older than the request's clock reading, plus the time the result took
\* to get from the data source into the bucket.
ServedAgeBounded ==
  \A q \in Request :
    LET g == Serve(q) IN
    pc[g] = "returned" => began[g] < res[g].at + MaxLag + TtlFor(res[g].err) + StaleTTL

\* singleflight (cache.go:292): a caller that missed may be given the result of
\* a call that ended before it came, but only of one whose leader has not yet
\* left do: the read is at most MaxLag older than the caller.
FlightResultCurrent ==
  \A q \in Request :
    LET g == Serve(q) IN
    pc[g] \in {"stamp", "put"} => began[g] <= res[g].at + MaxLag

\* bucket.put (cache.go:136): leader and joiners put the same result at
\* different times, so a put may replace a newer result by an older one, but
\* never by one read more than MaxLag earlier.
RegressionBounded ==
  [][\A c \in Class : \A k \in Key :
       Holds(bucket[c], k) /\ Holds(bucket'[c], k) =>
         bucket[c].items[k].res.at <= bucket'[c].items[k].res.at + MaxLag]_vars

(* The inductive invariant behind these properties.                        *)

\* What each goroutine holds at each place, and which of the two goroutines of
\* a request can be under way.
ShapeInv ==
  /\ \A g \in Goroutine :
       /\ pc[g] # "idle" => want[g] \in Object
       /\ pc[g] \in Pending \cup {"returned"} => res[g] \in Result
       /\ began[g] <= now
  /\ \A q \in Request :
       pc[Refresh(q)] # "idle" => pc[Serve(q)] \in {"returned", "panicked"}

\* The singleflight table holds exactly the goroutines that lead a call, and
\* those that panicked while they did.
FlightInv ==
  /\ \A k \in DOMAIN calls :
       /\ want[calls[k]].key = k
       /\ pc[calls[k]] \in Leading \/ (pc[calls[k]] = "panicked" /\ k \notin Answering)
  /\ \A g \in Goroutine : pc[g] \in Leading =>
       want[g].key \in DOMAIN calls /\ calls[want[g].key] = g
  /\ NoLostWakeup

\* Which object the results are about: of the right key everywhere, of the right
\* class too except between a join and the type assertion.
ObjectInv ==
  /\ \A c \in Class : \A k \in DOMAIN bucket[c].items :
       bucket[c].items[k].res.of = [class |-> c, key |-> k]
  /\ \A g \in Goroutine :
       /\ pc[g] = "stamp" => res[g].of.key = want[g].key
       /\ pc[g] \in {"answered", "done", "put", "returned"} => res[g].of = want[g]

\* How old the results are.
AgeInv ==
  /\ \A c \in Class : \A k \in DOMAIN bucket[c].items :
       LET e == bucket[c].items[k] IN
       e.res.at <= now /\ e.expires <= e.res.at + MaxLag + TtlFor(e.res.err)
  /\ \A g \in Goroutine :
       /\ pc[g] \in Pending => res[g].at <= now /\ now <= res[g].at + MaxLag
       /\ pc[g] = "put" => expires[g] <= res[g].at + MaxLag + TtlFor(res[g].err)
  /\ ServedAgeBounded

\* The conjunction is inductive.  It says that the cache's tables, buckets and
\* goroutines agree with each other between any two critical sections.
IInv == TypeOK /\ BucketsConsistent /\ ShapeInv /\ FlightInv /\ ObjectInv /\ AgeInv

----------------------------------------------------------------------------
(* What callers may rely on.                                               *)

Known ==
  {bucket[o.class].items[o.key].res : o \in {p \in Object : Holds(bucket[p.class], p.key)}}
    \cup {res[g] : g \in {h \in Goroutine : pc[h] \in Pending}}

Phase(q) ==
  LET g == Serve(q) IN
  CASE pc[g] = "idle"     -> "idle"
    [] pc[g] = "returned" -> "answered"
    [] pc[g] = "panicked" -> "failed"
    [] OTHER              -> "asked"

Contract == INSTANCE RecordContract WITH
  known  <- Known,
  phase  <- [q \in Request |-> Phase(q)],
  want   <- [q \in Request |-> want[Serve(q)]],
  began  <- [q \in Request |-> began[Serve(q)]],
  answer <- [q \in Request |-> IF Phase(q) = "answered" THEN res[Serve(q)] ELSE None],
  MaxAge <- [e \in Error |-> MaxLag + TtlFor(e) + StaleTTL]

\* The record cache implements RecordContract: whatever the goroutines do, each
\* request gets at most one answer, a result of a read of the object it asked
\* for that the cache still holds and that is young enough.
ImplementsContract == Contract!Spec

(* Liveness.                                                               *)

\* Only a request's own query can go on for ever, and only the lookups of its
\* key wait for it.
HeldUp(g) ==
  /\ pc[g] \in {"fetch", "waiting"} /\ want[g].key \in DOMAIN calls \ Answering
  /\ \E q \in Request : Leader(g) = Serve(q)

\* getOrLoad and refreshAsync (cache.go:129, 146, 291): a key whose query hangs
\* or panics takes down nobody but the lookups of that key.  Every lookup of
\* another key ends, whoever leads the call it has joined, and so does every
\* lookup, of any key, that has joined a background refresh: its query has a
\* deadline.
RequestsReturn ==
  \A q \in Request :
    /\ pc[Serve(q)] = "lookup" ~> pc[Serve(q)] \in {"returned", "panicked"} \/ HeldUp(Serve(q))
    /\ pc[Refresh(q)] = "flight"
         ~> pc[Refresh(q)] \in {"returned", "panicked"} \/ HeldUp(Refresh(q))

----------------------------------------------------------------------------
(* A statement of the source that does not hold.                           *)

\* The type assertion v.(*V) (cache.go:134, cache.go:153) never fails.  It does:
\* the singleflight table is keyed by the key alone, and a host name is a key of
\* both domains and nameservers.
AssertionNeverFails ==
  \A g \in Goroutine : pc[g] = "stamp" => AssertionHolds(g)
============================================================================
