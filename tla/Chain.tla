------------------------------- MODULE Chain -------------------------------
(***************************************************************************)
(* The chain of handlers around the router, in the order main.go builds    *)
(* it: AccessLog, SecurityHeaders, CORS, the rate limiter, MaxRequestBody, *)
(* RequestTimeout and Gzip, with the response cache's middleware inside    *)
(* it.  All of them write through one stack of response writers and share  *)
(* one header map per request; the requests share the pool of compressors  *)
(* and the response cache.                                                 *)
(*                                                                         *)
(* A body is a sequence of units <<q, k, j>>: the j-th of the k-th write   *)
(* of the handler that served request q.  On the connection a unit is      *)
(* tagged with the coding it is in.  What no handler wrote, the message of *)
(* an http.Error and the end of a compressed stream, is the unit Mark.     *)
(***************************************************************************)
EXTENDS Integers, Sequences

CONSTANTS
  Request,      \* the requests of a behaviour
  Compressor,   \* the gzip.Writers the pool can make
  Queries,      \* what requests ask, of the attributes the chain looks at
  Answers,      \* what handlers answer: status, sizes of the writes, type
  MinSize,      \* Gzip's minSize, in units
  None

ASSUME ChainAssumption ==
  /\ MinSize \in Nat
  /\ Queries \subseteq [method : {"GET", "OPTIONS"}, large : BOOLEAN, gzip : BOOLEAN, cacheable : BOOLEAN]
  /\ Answers \subseteq [status : Nat, writes : Seq(Nat \ {0}), type : SUBSET STRING]

VARIABLES
  pc,       \* where each request is
  req,      \* what it asks
  stack,    \* its response writers, see Fresh
  answer,   \* what its handler answers, None before it does
  written,  \* the number of writes of it done
  said,     \* history: all that was written to its outermost writer, by its handler or
            \* in its handler's place by the response cache
  live,     \* the requests whose timeout context is not yet cancelled
  logged,   \* the status in the access log's record, None if there is none
  heap,     \* the compressors there are
  pool,     \* the ones in gzipPool
  comp,     \* the state of each: the request it writes to and what it holds
  cache     \* the response cache's entry for the page asked, or None

poolVars == <<heap, pool, comp>>
vars == <<pc, req, stack, answer, written, said, live, logged, poolVars, cache>>

HeaderName ==
  {"Strict-Transport-Security", "Access-Control-Allow-Origin", "Vary", "Retry-After",
   "Content-Type", "Content-Encoding", "X-Gordap-Cache"}

HeaderValue == {"max-age", "*", "Origin", "Accept-Encoding", "1", "text", "gzip", "HIT"}
               \cup UNION {a.type : a \in Answers}

Headers == [HeaderName -> SUBSET HeaderValue]
Unit == (Request \cup {None}) \X Nat \X Nat
Response == [status : Nat, hdr : Headers]
Page == [status : Nat, hdr : [{"Content-Type"} -> SUBSET HeaderValue], body : Seq(Unit)]

\* None is none of the values that it stands beside.
ASSUME NoneAssumption ==
  None \notin Request \cup Compressor \cup Answers \cup Queries \cup Nat \cup Seq(Unit) \cup Response \cup Page

(***************************************************************************)
(* The writers.  hdr is the header map; sent and wire are what net/http    *)
(* put on the connection, status the statusWriter's.  mode is "off"        *)
(* without a gzipWriter, else its committed and plain fields; buf, code    *)
(* and gz are its other ones.  body is the captureWriter's buffer, None    *)
(* without one.                                                            *)
(***************************************************************************)
Fresh ==
  [hdr |-> [n \in HeaderName |-> {}], sent |-> None, wire |-> <<>>, status |-> 200,
   mode |-> "off", buf |-> <<>>, code |-> 200, gz |-> None, body |-> None]

SetHeader(s, n, v) == [s EXCEPT !.hdr[n] = {v}]

AddHeader(s, n, v) == [s EXCEPT !.hdr[n] = @ \cup {v}]

Mark == <<None, 0, 0>>

Coded(coding, units) == [i \in DOMAIN units |-> <<coding, units[i]>>]

\* net/http sends the header map as it is at the first call and ignores the others.
Send(s, code) == [s EXCEPT !.sent = IF @ = None THEN [status |-> code, hdr |-> s.hdr] ELSE @]

\* statusWriter.WriteHeader
WriteHeader(s, code) == [Send(s, code) EXCEPT !.status = code]

Write(s, items) == [Send(s, 200) EXCEPT !.wire = @ \o items]

\* http.Error
HTTPError(s, code) ==
  Write(WriteHeader(SetHeader(s, "Content-Type", "text"), code), Coded("plain", <<Mark>>))

\* gzipWriter.WriteHeader, or the statusWriter's where there is no gzipWriter
GzWriteHeader(s, code) == IF s.mode = "off" THEN WriteHeader(s, code) ELSE [s EXCEPT !.code = code]

\* The plain half of commit and of Close: the deferred status and the buffer.
WritePlain(s) ==
  [Write(WriteHeader(s, s.code), Coded("plain", s.buf)) EXCEPT !.mode = "plain", !.buf = <<>>]

AlreadyCompressible(s) == s.hdr["Content-Type"] \subseteq {"json", "text"}

----------------------------------------------------------------------------

Unused == [to |-> None, held |-> <<>>, closed |-> FALSE]

Init ==
  /\ pc = [q \in Request |-> "new"] /\ req = [q \in Request |-> None]
  /\ stack = [q \in Request |-> Fresh]
  /\ answer = [q \in Request |-> None] /\ written = [q \in Request |-> 0]
  /\ said = [q \in Request |-> <<>>]
  /\ live = {} /\ logged = [q \in Request |-> None]
  /\ heap = {} /\ pool = {}
  /\ comp = [c \in Compressor |-> Unused]
  /\ cache = None

Goto(q, place) == pc' = [pc EXCEPT ![q] = place]
Becomes(q, s) == stack' = [stack EXCEPT ![q] = s]

\* AccessLog, SecurityHeaders and CORS: the headers every answer carries.
Adorned ==
  SetHeader(SetHeader(SetHeader(Fresh, "Strict-Transport-Security", "max-age"),
          "Access-Control-Allow-Origin", "*"), "Vary", "Origin")

Arrive(q, r) == pc[q] = "new" /\ req' = [req EXCEPT ![q] = r]

\* CORS answers OPTIONS itself.
Preflight(q, r) ==
  /\ Arrive(q, r) /\ r.method = "OPTIONS" /\ Goto(q, "leave")
  /\ Becomes(q, WriteHeader(Adorned, 204))
  /\ UNCHANGED <<answer, written, said, live, logged, poolVars, cache>>

\* RateLimiter.Middleware, when Allow says no.
Limit(q, r) ==
  /\ Arrive(q, r) /\ r.method # "OPTIONS" /\ Goto(q, "leave")
  /\ Becomes(q, HTTPError(SetHeader(Adorned, "Retry-After", "1"), 429))
  /\ UNCHANGED <<answer, written, said, live, logged, poolVars, cache>>

\* Allow says yes; MaxRequestBody.
TooLarge(q, r) ==
  /\ Arrive(q, r) /\ r.method # "OPTIONS" /\ r.large /\ Goto(q, "leave")
  /\ Becomes(q, HTTPError(Adorned, 413))
  /\ UNCHANGED <<answer, written, said, live, logged, poolVars, cache>>

\* Mutant: the layer replaces the Vary of the one outside it.
GzipSettingVary(s, accepts) ==
  [SetHeader(s, "Vary", "Accept-Encoding") EXCEPT !.mode = IF accepts THEN "buffering" ELSE "off"]

\* Gzip, up to the call of the next handler
Gzip(s, accepts) ==
  [AddHeader(s, "Vary", "Accept-Encoding") EXCEPT !.mode = IF accepts THEN "buffering" ELSE "off"]

\* Allow says yes and the body is small: RequestTimeout and Gzip, then the router.
Enter(q, r) ==
  /\ Arrive(q, r) /\ r.method # "OPTIONS" /\ ~r.large /\ Goto(q, "route")
  /\ live' = live \cup {q}
  /\ Becomes(q, Gzip(Adorned, r.gzip))
  /\ UNCHANGED <<answer, written, said, logged, poolVars, cache>>

----------------------------------------------------------------------------
(***************************************************************************)
(* gzipWriter.Write of units p onto the writers s of request q.  Get gives *)
(* any compressor of the pool, or a new one, and Reset ties it to q.       *)
(***************************************************************************)
Commit(q, s) ==
  IF AlreadyCompressible(s)
  THEN \E c \in pool \cup (Compressor \ heap) :
         /\ heap' = heap \cup {c} /\ pool' = pool \ {c}
         /\ comp' = [comp EXCEPT ![c] = [to |-> q, held |-> s.buf, closed |-> FALSE]]
         /\ Becomes(q, [WriteHeader(SetHeader(s, "Content-Encoding", "gzip"), s.code)
                          EXCEPT !.mode = "gzip", !.gz = c, !.buf = <<>>])
  ELSE Becomes(q, WritePlain(s)) /\ UNCHANGED poolVars

GzWrite(q, s, p) ==
  \/ /\ s.mode \in {"off", "plain"}
     /\ Becomes(q, Write(s, Coded("plain", p))) /\ UNCHANGED poolVars
  \/ /\ s.mode = "gzip" /\ ~comp[s.gz].closed
     /\ Becomes(q, s) /\ comp' = [comp EXCEPT ![s.gz].held = @ \o p] /\ UNCHANGED <<heap, pool>>
  \/ /\ s.mode = "buffering" /\ Len(s.buf \o p) < MinSize
     /\ Becomes(q, [s EXCEPT !.buf = @ \o p]) /\ UNCHANGED poolVars
  \/ /\ s.mode = "buffering" /\ Len(s.buf \o p) >= MinSize
     /\ Commit(q, [s EXCEPT !.buf = @ \o p])

\* Mutant: every header is kept.
SnapshotAll(h) == h

\* snapshotHeaders
SnapshotHeaders(h) == [n \in {"Content-Type"} |-> h[n]]

\* responseCacheMiddleware, when the cache has the page
Hit(q) ==
  /\ pc[q] = "route" /\ req[q].cacheable /\ cache # None /\ Goto(q, "unwind")
  /\ LET replay == [stack[q] EXCEPT !.hdr = [n \in HeaderName |-> IF n \in DOMAIN cache.hdr
                                                                 THEN cache.hdr[n] ELSE @[n]]]
     IN  GzWrite(q, GzWriteHeader(SetHeader(replay, "X-Gordap-Cache", "HIT"), cache.status), cache.body)
  /\ said' = [said EXCEPT ![q] = cache.body]
  /\ UNCHANGED <<req, answer, written, live, logged, cache>>

\* responseCacheMiddleware, when the handler has to answer
Route(q) ==
  /\ pc[q] = "route" /\ ~(req[q].cacheable /\ cache # None) /\ Goto(q, "handle")
  /\ Becomes(q, [stack[q] EXCEPT !.body = IF req[q].cacheable THEN <<>> ELSE None])
  /\ UNCHANGED <<req, answer, written, said, live, logged, poolVars, cache>>

Piece(q, k) == [j \in 1..answer[q].writes[k] |-> <<q, k, j>>]

\* writeJSON, writeError, redirectTo and the mux's own errors: type and status...
HandlerHeader(q) ==
  /\ pc[q] = "handle" /\ answer[q] = None
  /\ \E a \in Answers :
       /\ answer' = [answer EXCEPT ![q] = a]
       /\ Becomes(q, GzWriteHeader([stack[q] EXCEPT !.hdr["Content-Type"] = a.type], a.status))
  /\ UNCHANGED <<pc, req, written, said, live, logged, poolVars, cache>>

\* ... then the body, through the captureWriter if there is one.
HandlerWrite(q) ==
  /\ pc[q] = "handle" /\ answer[q] # None /\ written[q] < Len(answer[q].writes)
  /\ written' = [written EXCEPT ![q] = @ + 1]
  /\ LET p == Piece(q, written[q] + 1)
     IN  /\ GzWrite(q, [stack[q] EXCEPT !.body = IF @ = None THEN None ELSE @ \o p], p)
         /\ said' = [said EXCEPT ![q] = @ \o p]
  /\ UNCHANGED <<pc, req, answer, live, logged, cache>>

\* The handler returns, and the middleware keeps a clean response.
HandlerReturn(q) ==
  /\ pc[q] = "handle" /\ answer[q] # None /\ written[q] = Len(answer[q].writes)
  /\ Goto(q, "unwind")
  /\ LET s == stack[q]
     IN  cache' = IF s.body \notin {None, <<>>} /\ answer[q].status \in 200..299
                  THEN [status |-> answer[q].status, hdr |-> SnapshotHeaders(s.hdr), body |-> s.body]
                  ELSE cache
  /\ UNCHANGED <<req, stack, answer, written, said, live, logged, poolVars>>

\* Mutant: Close is not deferred.
HandlerPanicUndeferred(q) ==
  /\ pc[q] = "handle" /\ Goto(q, "abort")
  /\ UNCHANGED <<req, stack, answer, written, said, live, logged, poolVars, cache>>

\* It panics (the record cache's failed assertion): only the deferred calls run.
HandlerPanic(q) ==
  /\ pc[q] = "handle" /\ Goto(q, "panicking")
  /\ UNCHANGED <<req, stack, answer, written, said, live, logged, poolVars, cache>>

\* The entry expires or is evicted, see ResponseCache.
Evict ==
  /\ cache # None /\ cache' = None
  /\ UNCHANGED <<pc, req, stack, answer, written, said, live, logged, poolVars>>

----------------------------------------------------------------------------

Unwinding(q) == pc[q] \in {"unwind", "panicking"}

\* gzipWriter.Close, deferred by Gzip: nothing committed, or nothing compressed.
ClosePlain(q) ==
  /\ Unwinding(q) /\ stack[q].mode # "gzip"
  /\ Goto(q, IF pc[q] = "unwind" THEN "leave" ELSE "abort")
  /\ Becomes(q, IF stack[q].mode = "buffering" THEN WritePlain(stack[q]) ELSE stack[q])
  /\ UNCHANGED <<req, answer, written, said, live, logged, poolVars, cache>>

\* Its other half: gz.Close writes out what the compressor holds, and the end mark...
Close(q) ==
  /\ Unwinding(q) /\ stack[q].mode = "gzip"
  /\ Goto(q, IF pc[q] = "unwind" THEN "put" ELSE "putting")
  /\ LET c == comp[stack[q].gz]
     IN  stack' = [stack EXCEPT ![c.to] = Write(@, Coded("gzip", Append(c.held, Mark)))]
  /\ comp' = [comp EXCEPT ![stack[q].gz] = [@ EXCEPT !.held = <<>>, !.closed = TRUE]]
  /\ UNCHANGED <<req, answer, written, said, live, logged, heap, pool, cache>>

\* ... and the compressor goes back.
Put(q) ==
  /\ pc[q] \in {"put", "putting"}
  /\ Goto(q, IF pc[q] = "put" THEN "leave" ELSE "abort")
  /\ pool' = pool \cup {stack[q].gz}
  /\ UNCHANGED <<req, stack, answer, written, said, live, logged, heap, comp, cache>>

\* sync.Pool gives up what it holds at a garbage collection.
Collect(c) ==
  /\ c \in pool /\ pool' = pool \ {c} /\ heap' = heap \ {c}
  /\ comp' = [comp EXCEPT ![c] = Unused]
  /\ UNCHANGED <<pc, req, stack, answer, written, said, live, logged, cache>>

\* RequestTimeout's deferred cancel, then AccessLog's record.
Leave(q) ==
  /\ pc[q] = "leave" /\ Goto(q, "done")
  /\ live' = live \ {q}
  /\ logged' = [logged EXCEPT ![q] = stack[q].status]
  /\ UNCHANGED <<req, stack, answer, written, said, poolVars, cache>>

\* A panic runs the deferred cancel, leaves no record, and net/http drops the connection.
Abort(q) ==
  /\ pc[q] = "abort" /\ Goto(q, "dropped")
  /\ live' = live \ {q}
  /\ UNCHANGED <<req, stack, answer, written, said, logged, poolVars, cache>>

Next ==
  \/ Evict
  \/ \E c \in Compressor : Collect(c)
  \/ \E q \in Request :
       \/ \E r \in Queries : Preflight(q, r) \/ Limit(q, r) \/ TooLarge(q, r) \/ Enter(q, r)
       \/ Hit(q) \/ Route(q)
       \/ HandlerHeader(q) \/ HandlerWrite(q) \/ HandlerReturn(q) \/ HandlerPanic(q)
       \/ ClosePlain(q) \/ Close(q) \/ Put(q) \/ Leave(q) \/ Abort(q)

Spec == Init /\ [][Next]_vars

----------------------------------------------------------------------------

IsHit(q) == stack[q].hdr["X-Gordap-Cache"] = {"HIT"}

\* The request came to the router, and a handler or the response cache answered it.
Served(q) == answer[q] # None \/ IsHit(q)

\* The header map and the connection of q give a client all of what p's handler answered.
Delivers(q, p) ==
  LET h == stack[q].sent.hdr
      zipped == h["Content-Encoding"] = {"gzip"}
  IN  /\ written[p] = Len(answer[p].writes)
      /\ stack[q].sent.status = answer[p].status
      /\ h["Content-Type"] = answer[p].type
      /\ zipped => req[q].gzip
      /\ stack[q].wire = IF zipped THEN Coded("gzip", Append(said[p], Mark))
                                   ELSE Coded("plain", said[p])

\* Every request the router served gets the status, the type and the whole body that
\* its handler wrote, decodable by the Content-Encoding it is sent with and in a coding
\* it accepts; on a hit of the response cache, those of one clean answer to an earlier
\* request, though that one was compressed, or not, for another client.
AnswerIntact ==
  \A q \in Request : pc[q] = "done" /\ Served(q) =>
    IF IsHit(q)
    THEN \E p \in Request \ {q} :
           answer[p] # None /\ answer[p].status \in 200..299 /\ Delivers(q, p)
    ELSE Delivers(q, q)

\* A compressor is in the pool, closed, or with one request that is under way and that
\* it writes to, never both and never with two; when a request has ended, by a panic
\* of its handler too, it holds neither a compressor nor a context.
CompressorsOwned ==
  LET Holders(c) == {q \in Request : /\ stack[q].gz = c
                                     /\ pc[q] \notin {"leave", "abort", "done", "dropped"}}
  IN  /\ \A c \in heap :
           IF c \in pool
           THEN Holders(c) = {} /\ comp[c].closed
           ELSE \E q \in Request : Holders(c) = {q} /\ comp[c].to = q
      /\ \A q \in live : pc[q] \notin {"done", "dropped"}

\* What the outer layers owe every answer, whichever layer gave it: the security and the
\* CORS headers; in Vary all that it depends on, Origin, and Accept-Encoding if it passed
\* Gzip; and one record in the access log, with the status that went out although Gzip
\* holds it back until the body is decided.  A request without an answer has no record.
OuterLayersApply ==
  \A q \in Request :
    /\ logged[q] = IF pc[q] = "done" THEN stack[q].sent.status ELSE None
    /\ pc[q] = "done" =>
         LET h == stack[q].sent.hdr
         IN  /\ h["Strict-Transport-Security"] # {}
             /\ h["Access-Control-Allow-Origin"] = {"*"}
             /\ h["Vary"] = {"Origin"} \cup IF Served(q) THEN {"Accept-Encoding"} ELSE {}

----------------------------------------------------------------------------
(***************************************************************************)
(* The inductive invariant.                                                *)
(***************************************************************************)
Writers ==
  [hdr : Headers, sent : {None} \cup Response,
   wire : Seq({"plain", "gzip"} \X Unit), status : Nat,
   mode : {"off", "buffering", "plain", "gzip"}, buf : Seq(Unit), code : Nat,
   gz : {None} \cup Compressor, body : {None} \cup Seq(Unit)]

Place == {"new", "route", "handle", "unwind", "panicking", "put", "putting", "leave", "abort",
          "done", "dropped"}

TypeOK ==
  /\ pc \in [Request -> Place] /\ req \in [Request -> {None} \cup Queries]
  /\ stack \in [Request -> Writers]
  /\ answer \in [Request -> {None} \cup Answers] /\ written \in [Request -> Nat]
  /\ said \in [Request -> Seq(Unit)]
  /\ live \subseteq Request /\ logged \in [Request -> {None} \cup Nat]
  /\ heap \subseteq Compressor /\ pool \subseteq heap
  /\ comp \in [Compressor -> [to : {None} \cup Request, held : Seq(Unit), closed : BOOLEAN]]
  /\ cache \in {None} \cup Page

\* What went out is what the header map and the statusWriter say; the outer layers' headers
\* are in the map from the start.
HeadersInv ==
  \A q \in Request :
    LET s == stack[q]
    IN  /\ s.sent # None => s.sent.hdr = s.hdr /\ s.sent.status = s.status
        /\ pc[q] # "new" => /\ s.hdr["Strict-Transport-Security"] # {}
                            /\ s.hdr["Access-Control-Allow-Origin"] = {"*"}

\* No handler and no hit has touched the writers.
Blank(q) ==
  LET s == stack[q]
  IN  /\ s.sent = None /\ s.wire = <<>> /\ s.buf = <<>> /\ s.gz = None
      /\ s.mode \in {"off", "buffering"}
      /\ s.hdr["Content-Encoding"] = {} /\ said[q] = <<>> /\ written[q] = 0

\* The writers of q hold, or have sent, the status, the type and all of said[q].
Conveys(q, status, type) ==
  LET s == stack[q]
  IN  /\ s.hdr["Content-Type"] = type
      /\ s.mode = "buffering" =>
           s.sent = None /\ s.code = status /\ s.buf = said[q] /\ s.wire = <<>>
      /\ s.mode # "buffering" => s.sent # None /\ s.status = status
      /\ s.mode \in {"off", "plain"} => s.wire = Coded("plain", said[q])
      /\ s.mode # "gzip" => s.hdr["Content-Encoding"] = {}
      /\ s.mode = "gzip" =>
           /\ s.hdr["Content-Encoding"] = {"gzip"}
           /\ IF pc[q] \in {"handle", "unwind", "panicking"}
              THEN s.wire = <<>> /\ comp[s.gz].held = said[q]
              ELSE s.wire = Coded("gzip", Append(said[q], Mark))

\* p's handler is done and its answer is one that the response cache keeps.
Clean(p) ==
  /\ answer[p] # None /\ answer[p].status \in 200..299
  /\ pc[p] \notin {"new", "route", "handle"} /\ written[p] = Len(answer[p].writes)

\* Where each request is and what its writers hold.
RequestInv(q) ==
  LET s == stack[q]
  IN  /\ s.hdr["Vary"] = IF Served(q) \/ pc[q] \in {"route", "handle", "panicking", "putting", "abort", "dropped"}
                         THEN {"Origin", "Accept-Encoding"}
                         ELSE IF pc[q] = "new" THEN {} ELSE {"Origin"}
      /\ pc[q] \in {"new", "route"} => Blank(q)
      /\ pc[q] \in {"new", "route", "handle", "panicking", "putting", "abort"} => ~IsHit(q)
      /\ pc[q] \in {"new", "route"} => answer[q] = None
      /\ pc[q] \in {"handle", "panicking"} /\ answer[q] = None => Blank(q)
      /\ pc[q] = "handle" => s.body = IF req[q].cacheable THEN said[q] ELSE None
      /\ pc[q] \in {"unwind", "put"} => Served(q)
      /\ pc[q] \in {"put", "putting"} => s.mode = "gzip"
      /\ pc[q] \in {"unwind", "put", "leave", "done"} /\ answer[q] # None =>
           written[q] = Len(answer[q].writes)
      /\ pc[q] \in {"leave", "done"} => s.sent # None /\ s.mode # "buffering"
      /\ s.mode # "off" => req[q] # None /\ req[q].gzip
      /\ answer[q] # None => ~IsHit(q) /\ Conveys(q, answer[q].status, answer[q].type)
      /\ IsHit(q) => \E p \in Request \ {q} :
           /\ Clean(p) /\ said[q] = said[p]
           /\ Conveys(q, answer[p].status, answer[p].type)
      /\ logged[q] = IF pc[q] = "done" THEN s.status ELSE None
      /\ q \in live => pc[q] \notin {"new", "done", "dropped"}

\* The kept page is a clean answer.
CacheInv ==
  cache # None => \E p \in Request :
    /\ Clean(p) /\ cache.status = answer[p].status /\ cache.body = said[p]
    /\ cache.hdr["Content-Type"] = answer[p].type

Holds(q) == stack[q].gz # None /\ pc[q] \notin {"leave", "abort", "done", "dropped"}

\* A compressor out of the pool is with the one request it writes to, closed when that is
\* about to put it back.
PoolInv ==
  /\ \A c \in pool : comp[c].closed
  /\ \A c \in heap \ pool : \E q \in Request : Holds(q) /\ stack[q].gz = c
  /\ \A q \in Request :
       /\ stack[q].mode = "gzip" <=> stack[q].gz # None
       /\ Holds(q) => LET c == stack[q].gz
                      IN  /\ c \in heap \ pool /\ comp[c].to = q
                          /\ comp[c].closed <=> pc[q] \in {"put", "putting"}

ChainInv == TypeOK /\ HeadersInv /\ (\A q \in Request : RequestInv(q)) /\ CacheInv /\ PoolInv
=============================================================================
