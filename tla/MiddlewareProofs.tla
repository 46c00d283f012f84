--------------------------- MODULE MiddlewareProofs ---------------------------
(***************************************************************************)
(* Proofs about the middleware: the chain around the handlers and the rate *)
(* limiter.                                                                *)
(***************************************************************************)
EXTENDS Chain, RateLimiter, TLAPS

\* A leaf that names no prover is tried with SMT, if need be again with more time, then with Zenon.
USE SMT, SMTT(10), SMTT(30), Zenon

\* The length and the elements of a concatenation.
LEMMA Concatenation ==
  ASSUME NEW S, NEW s \in Seq(S), NEW t \in Seq(S)
  PROVE  /\ s \o t \in Seq(S) /\ Len(s \o t) = Len(s) + Len(t)
         /\ \A i \in 1..(Len(s) + Len(t)) : (s \o t)[i] = IF i <= Len(s) THEN s[i] ELSE t[i - Len(s)]
OBVIOUS

\* Sequences of the same elements are the same.
LEMMA SameSequence ==
  ASSUME NEW S, NEW s \in Seq(S), NEW t \in Seq(S),
         Len(s) = Len(t), \A i \in 1..Len(s) : s[i] = t[i]
  PROVE  s = t
OBVIOUS

\* Nothing before a sequence changes nothing.
LEMMA NothingBefore ==
  ASSUME NEW S, NEW s \in Seq(S)
  PROVE  <<>> \o s = s
OBVIOUS

\* A sequence with one more element.
LEMMA Extended ==
  ASSUME NEW S, NEW s \in Seq(S), NEW e \in S
  PROVE  Append(s, e) \in Seq(S)
OBVIOUS

----------------------------------------------------------------------------
(***************************************************************************)
(* Chain.  Answers arrive whole, compressors have one owner and the outer  *)
(* layers apply, for any number of requests, answers and compressors.      *)
(***************************************************************************)

\* Coding the units of a body one by one: the coded form of what two writes give is the
\* coded forms one after the other (gzipWriter.Write).
LEMMA CodedConcat ==
  ASSUME NEW coding, NEW S, NEW u \in Seq(S), NEW v \in Seq(S)
  PROVE  Coded(coding, u \o v) = Coded(coding, u) \o Coded(coding, v)
<1> DEFINE T == {coding} \X S
           uv == u \o v
           c == Coded(coding, u)
           d == Coded(coding, v)
<1>1. /\ uv \in Seq(S) /\ Len(uv) = Len(u) + Len(v)
      /\ \A i \in 1..Len(uv) : uv[i] = IF i <= Len(u) THEN u[i] ELSE v[i - Len(u)]
  OBVIOUS
<1>2. /\ c \in Seq(T) /\ Len(c) = Len(u) /\ \A i \in 1..Len(u) : c[i] = <<coding, u[i]>>
      /\ d \in Seq(T) /\ Len(d) = Len(v) /\ \A i \in 1..Len(v) : d[i] = <<coding, v[i]>>
  BY DEF Coded
<1>3. /\ c \o d \in Seq(T) /\ Len(c \o d) = Len(c) + Len(d)
      /\ \A i \in 1..(Len(c) + Len(d)) : (c \o d)[i] = IF i <= Len(c) THEN c[i] ELSE d[i - Len(c)]
  <2>1. c \in Seq(T) /\ d \in Seq(T)
    BY <1>2, Zenon
  <2> HIDE DEF c, d, T
  <2> QED BY <2>1, Concatenation, Zenon
<1>4. /\ Coded(coding, uv) \in Seq(T) /\ Len(Coded(coding, uv)) = Len(uv)
      /\ \A i \in 1..Len(uv) : Coded(coding, uv)[i] = <<coding, uv[i]>>
  <2> HIDE DEF uv
  <2> QED BY <1>1 DEF Coded
<1> HIDE DEF T, uv, c, d
<1>5. ASSUME NEW i \in 1..Len(uv) PROVE Coded(coding, uv)[i] = (c \o d)[i]
  <2>0. Len(u) \in Nat /\ Len(v) \in Nat
    OBVIOUS
  <2>1. CASE i <= Len(u)
    <3>1. i \in 1..Len(u) /\ i \in 1..(Len(c) + Len(d))
      BY <1>1, <1>2, <2>0, <2>1
    <3>2. (c \o d)[i] = c[i] /\ uv[i] = u[i]
      BY <1>1, <1>2, <1>3, <2>1, <3>1, Zenon
    <3> QED BY <1>2, <1>4, <3>1, <3>2, Zenon
  <2>2. CASE ~(i <= Len(u))
    <3>1. i - Len(u) \in 1..Len(v) /\ i \in 1..(Len(c) + Len(d))
      BY <1>1, <1>2, <2>0, <2>2
    <3>2. (c \o d)[i] = d[i - Len(u)] /\ uv[i] = v[i - Len(u)]
      BY <1>1, <1>2, <1>3, <2>2, <3>1, Zenon
    <3> QED BY <1>2, <1>4, <3>1, <3>2, Zenon
  <2> QED BY <2>1, <2>2, Zenon
<1>6. Len(Coded(coding, uv)) = Len(c \o d)
  BY <1>1, <1>2, <1>3, <1>4, Zenon
<1>7. Coded(coding, uv) = c \o d
  BY <1>3, <1>4, <1>5, <1>6, SameSequence, ZenonT(30)
<1> QED BY <1>7, Zenon DEF uv, c, d

\* A coded body is a sequence of items for the connection.
LEMMA CodedType ==
  ASSUME NEW coding \in {"plain", "gzip"}, NEW u \in Seq(Unit)
  PROVE  /\ Coded(coding, u) \in Seq({"plain", "gzip"} \X Unit)
         /\ Coded(coding, <<>>) = <<>>
BY DEF Coded

\* Two stacks of writers differ in their header map only.
SameButHeaders(s, t) ==
  /\ t.sent = s.sent /\ t.wire = s.wire /\ t.status = s.status /\ t.mode = s.mode /\ t.buf = s.buf
  /\ t.code = s.code /\ t.gz = s.gz /\ t.body = s.body

\* Header.Set replaces one entry of the header map.
LEMMA SetKeeps ==
  ASSUME NEW s \in Writers, NEW n \in HeaderName, NEW v \in HeaderValue
  PROVE  /\ SetHeader(s, n, v) \in Writers /\ SameButHeaders(s, SetHeader(s, n, v))
         /\ SetHeader(s, n, v).hdr[n] = {v}
         /\ \A m \in HeaderName \ {n} : SetHeader(s, n, v).hdr[m] = s.hdr[m]
BY Zenon DEF SetHeader, Writers, Headers, SameButHeaders

\* The same of Header.Add, which keeps the values that the map has.
LEMMA AddKeeps ==
  ASSUME NEW s \in Writers, NEW n \in HeaderName, NEW v \in HeaderValue
  PROVE  /\ AddHeader(s, n, v) \in Writers /\ SameButHeaders(s, AddHeader(s, n, v))
         /\ AddHeader(s, n, v).hdr[n] = s.hdr[n] \cup {v}
         /\ \A m \in HeaderName \ {n} : AddHeader(s, n, v).hdr[m] = s.hdr[m]
BY Zenon DEF AddHeader, Writers, Headers, SameButHeaders

\* The first call sends the header map (net/http), every call is noted by the statusWriter.
LEMMA WriteHeaderKeeps ==
  ASSUME NEW s \in Writers, NEW code \in Nat
  PROVE  LET t == WriteHeader(s, code)
         IN  /\ t \in Writers /\ t.hdr = s.hdr /\ t.wire = s.wire /\ t.status = code
             /\ t.mode = s.mode /\ t.buf = s.buf /\ t.code = s.code /\ t.gz = s.gz /\ t.body = s.body
             /\ t.sent # None
             /\ s.sent = None => t.sent = [status |-> code, hdr |-> s.hdr]
             /\ s.sent # None => t.sent = s.sent
<1>1. [status |-> code, hdr |-> s.hdr] \in Response /\ [status |-> code, hdr |-> s.hdr] # None
  BY NoneAssumption DEF Response, Writers
<1> QED BY <1>1, Zenon DEF WriteHeader, Send, Writers

\* Writing units to the connection.
LEMMA WriteKeeps ==
  ASSUME NEW s \in Writers, NEW coding \in {"plain", "gzip"}, NEW u \in Seq(Unit), s.sent # None
  PROVE  LET t == Write(s, Coded(coding, u))
         IN  /\ t \in Writers /\ t.hdr = s.hdr /\ t.wire = s.wire \o Coded(coding, u)
             /\ t.status = s.status /\ t.sent = s.sent /\ t.code = s.code
             /\ t.mode = s.mode /\ t.buf = s.buf /\ t.gz = s.gz /\ t.body = s.body
<1>1. Coded(coding, u) \in Seq({"plain", "gzip"} \X Unit)
  BY CodedType, Zenon
<1>2. s.wire \in Seq({"plain", "gzip"} \X Unit)
  BY Zenon DEF Writers
<1>3. s.wire \o Coded(coding, u) \in Seq({"plain", "gzip"} \X Unit)
  BY <1>1, <1>2, Concatenation, Zenon
<1> HIDE DEF Unit
<1> QED BY <1>3, Zenon DEF Write, Send, Writers

\* The plain half of gzipWriter's commit and Close: the status and the buffer go out.
LEMMA WritePlainKeeps ==
  ASSUME NEW s \in Writers, s.sent = None, s.wire = <<>>
  PROVE  LET t == WritePlain(s)
         IN  /\ t \in Writers /\ t.hdr = s.hdr /\ t.wire = Coded("plain", s.buf)
             /\ t.status = s.code /\ t.sent = [status |-> s.code, hdr |-> s.hdr] /\ t.sent # None
             /\ t.mode = "plain" /\ t.buf = <<>> /\ t.gz = s.gz /\ t.body = s.body
<1> DEFINE h == WriteHeader(s, s.code)
           w == Write(h, Coded("plain", s.buf))
<1>1. s.code \in Nat /\ s.buf \in Seq(Unit)
  BY Zenon DEF Writers
<1>2. /\ h \in Writers /\ h.hdr = s.hdr /\ h.wire = <<>> /\ h.status = s.code /\ h.gz = s.gz
      /\ h.body = s.body /\ h.sent = [status |-> s.code, hdr |-> s.hdr] /\ h.sent # None
  BY <1>1, WriteHeaderKeeps
<1> HIDE DEF h
<1>3. /\ w \in Writers /\ w.hdr = h.hdr /\ w.wire = h.wire \o Coded("plain", s.buf)
      /\ w.status = h.status /\ w.gz = h.gz /\ w.body = h.body /\ w.sent = h.sent
  <2>1. h \in Writers /\ h.sent # None
    BY <1>2, Zenon
  <2> QED BY <1>1, <2>1, WriteKeeps, Zenon
<1>4. <<>> \o Coded("plain", s.buf) = Coded("plain", s.buf)
  BY <1>1, CodedType, NothingBefore, Zenon
<1>5. WritePlain(s) = [w EXCEPT !.mode = "plain", !.buf = <<>>]
  BY Zenon DEF WritePlain, w, h
<1> HIDE DEF w
<1>6. w.sent = [status |-> s.code, hdr |-> s.hdr] /\ w.sent # None /\ w.wire = Coded("plain", s.buf)
  BY <1>2, <1>3, <1>4, Zenon
<1>7. <<>> \in Seq(Unit)
  OBVIOUS
<1> QED BY <1>2, <1>3, <1>5, <1>6, <1>7, ZenonT(30) DEF Writers

\* http.Error, before anything was sent: a status and a message, with the headers so far.
LEMMA HTTPErrorKeeps ==
  ASSUME NEW s \in Writers, s.sent = None, NEW code \in Nat
  PROVE  LET t == HTTPError(s, code)
         IN  /\ t \in Writers /\ t.status = code /\ t.sent = [status |-> code, hdr |-> t.hdr]
             /\ t.sent # None /\ t.mode = s.mode /\ t.gz = s.gz
             /\ \A n \in HeaderName \ {"Content-Type"} : t.hdr[n] = s.hdr[n]
<1> DEFINE c == SetHeader(s, "Content-Type", "text")
           h == WriteHeader(c, code)
           message == <<Mark>>
           w == Write(h, Coded("plain", message))
<1>1. /\ c \in Writers /\ c.sent = None /\ c.mode = s.mode /\ c.gz = s.gz
      /\ \A n \in HeaderName \ {"Content-Type"} : c.hdr[n] = s.hdr[n]
  <2>1. "Content-Type" \in HeaderName /\ "text" \in HeaderValue
    BY Zenon DEF HeaderName, HeaderValue
  <2> QED BY <2>1, SetKeeps DEF SameButHeaders
<1> HIDE DEF c
<1>2. /\ h \in Writers /\ h.hdr = c.hdr /\ h.status = code /\ h.gz = c.gz /\ h.mode = c.mode
      /\ h.sent = [status |-> code, hdr |-> c.hdr] /\ h.sent # None
  BY <1>1, WriteHeaderKeeps
<1>3. HTTPError(s, code) = w
  BY Zenon DEF HTTPError, h, c, message, w
<1>4. message \in Seq(Unit)
  BY DEF Mark, Unit, message
<1> HIDE DEF h, message
<1>5. /\ w \in Writers /\ w.hdr = h.hdr /\ w.status = h.status /\ w.sent = h.sent
      /\ w.mode = h.mode /\ w.gz = h.gz
  <2>1. h \in Writers /\ h.sent # None
    BY <1>2, Zenon
  <2> QED BY <1>4, <2>1, WriteKeeps, Zenon DEF w
<1> HIDE DEF w
<1> QED BY <1>1, <1>2, <1>3, <1>5

\* The writers as AccessLog, SecurityHeaders and CORS hand them on.
LEMMA AdornedIs ==
  /\ Adorned \in Writers /\ Adorned.sent = None /\ Adorned.wire = <<>> /\ Adorned.buf = <<>>
  /\ Adorned.mode = "off" /\ Adorned.gz = None /\ Adorned.body = None
  /\ Adorned.hdr["Strict-Transport-Security"] = {"max-age"}
  /\ Adorned.hdr["Access-Control-Allow-Origin"] = {"*"}
  /\ Adorned.hdr["Vary"] = {"Origin"}
  /\ Adorned.hdr["Content-Encoding"] = {} /\ Adorned.hdr["X-Gordap-Cache"] = {}
<1> DEFINE a == SetHeader(Fresh, "Strict-Transport-Security", "max-age")
           b == SetHeader(a, "Access-Control-Allow-Origin", "*")
           c == SetHeader(b, "Vary", "Origin")
<1>1. /\ {"Strict-Transport-Security", "Access-Control-Allow-Origin", "Vary",
          "Content-Encoding", "X-Gordap-Cache"} \subseteq HeaderName
      /\ {"max-age", "*", "Origin"} \subseteq HeaderValue
  BY Zenon DEF HeaderName, HeaderValue
<1>2. /\ Fresh \in Writers /\ Fresh.sent = None /\ Fresh.wire = <<>> /\ Fresh.buf = <<>>
      /\ Fresh.mode = "off" /\ Fresh.gz = None /\ Fresh.body = None
      /\ \A n \in HeaderName : Fresh.hdr[n] = {}
  <2>1. <<>> \in Seq(Unit) /\ <<>> \in Seq({"plain", "gzip"} \X Unit)
    OBVIOUS
  <2>2. [n \in HeaderName |-> {}] \in Headers
    BY Zenon DEF Headers
  <2> QED BY <2>1, <2>2 DEF Fresh, Writers
<1>3. a \in Writers /\ SameButHeaders(Fresh, a) /\ a.hdr["Strict-Transport-Security"] = {"max-age"}
      /\ \A m \in HeaderName \ {"Strict-Transport-Security"} : a.hdr[m] = Fresh.hdr[m]
  <2>1. Fresh \in Writers /\ "Strict-Transport-Security" \in HeaderName /\ "max-age" \in HeaderValue
    BY <1>1, <1>2, Zenon
  <2> QED BY <2>1, SetKeeps
<1> HIDE DEF a
<1>4. b \in Writers /\ SameButHeaders(a, b) /\ b.hdr["Access-Control-Allow-Origin"] = {"*"}
      /\ \A m \in HeaderName \ {"Access-Control-Allow-Origin"} : b.hdr[m] = a.hdr[m]
  <2>1. a \in Writers /\ "Access-Control-Allow-Origin" \in HeaderName /\ "*" \in HeaderValue
    BY <1>1, <1>3, Zenon
  <2> QED BY <2>1, SetKeeps
<1> HIDE DEF b
<1>5. c \in Writers /\ SameButHeaders(b, c) /\ c.hdr["Vary"] = {"Origin"}
      /\ \A m \in HeaderName \ {"Vary"} : c.hdr[m] = b.hdr[m]
  <2>1. b \in Writers /\ "Vary" \in HeaderName /\ "Origin" \in HeaderValue
    BY <1>1, <1>4, Zenon
  <2> QED BY <2>1, SetKeeps
<1>6. Adorned = c
  BY Zenon DEF Adorned, a, b, c
<1> HIDE DEF c
<1> QED BY <1>1, <1>2, <1>3, <1>4, <1>5, <1>6 DEF SameButHeaders

\* Gzip: Accept-Encoding joins the Vary of the layer outside, and the gzipWriter, if the
\* client takes it, starts empty.
LEMMA GzipKeeps ==
  ASSUME NEW s \in Writers, NEW accepts \in BOOLEAN
  PROVE  LET t == Gzip(s, accepts)
         IN  /\ t \in Writers /\ t.sent = s.sent /\ t.wire = s.wire /\ t.status = s.status
             /\ t.buf = s.buf /\ t.gz = s.gz /\ t.body = s.body
             /\ t.mode \in {"off", "buffering"} /\ (t.mode = "buffering" <=> accepts)
             /\ t.hdr["Vary"] = s.hdr["Vary"] \cup {"Accept-Encoding"}
             /\ \A n \in HeaderName \ {"Vary"} : t.hdr[n] = s.hdr[n]
<1> DEFINE a == AddHeader(s, "Vary", "Accept-Encoding")
<1>1. a \in Writers /\ SameButHeaders(s, a) /\ a.hdr["Vary"] = s.hdr["Vary"] \cup {"Accept-Encoding"}
      /\ \A m \in HeaderName \ {"Vary"} : a.hdr[m] = s.hdr[m]
  <2>1. "Vary" \in HeaderName /\ "Accept-Encoding" \in HeaderValue
    BY Zenon DEF HeaderName, HeaderValue
  <2> QED BY <2>1, AddKeeps
<1>2. Gzip(s, accepts) = [a EXCEPT !.mode = IF accepts THEN "buffering" ELSE "off"]
  BY Zenon DEF Gzip, a
<1> HIDE DEF a
<1> QED BY <1>1, <1>2 DEF SameButHeaders, Writers

----------------------------------------------------------------------------
\* The header that went out is the header map, its status the statusWriter's.
AsSent(s) == s.sent # None => s.sent.hdr = s.hdr /\ s.sent.status = s.status

\* Writers s, whose compressor holds held, are to give the client a status, a type and x.
Carrying(s, held, x, status, type) ==
  /\ s.hdr["Content-Type"] = type
  /\ s.mode = "buffering" => s.sent = None /\ s.code = status /\ s.buf = x /\ s.wire = <<>>
  /\ s.mode # "buffering" => s.sent # None /\ s.status = status
  /\ s.mode \in {"off", "plain"} => s.wire = Coded("plain", x)
  /\ s.mode # "gzip" => s.hdr["Content-Encoding"] = {}
  /\ s.mode = "gzip" => s.hdr["Content-Encoding"] = {"gzip"} /\ s.wire = <<>> /\ held = x

\* The status a handler or a hit gives is sent, or deferred by the gzipWriter.
LEMMA GzWriteHeaderKeeps ==
  ASSUME NEW s \in Writers, NEW code \in Nat, NEW held,
         s.sent = None, s.wire = <<>>, s.buf = <<>>, s.mode \in {"off", "buffering"},
         s.hdr["Content-Encoding"] = {}
  PROVE  LET t == GzWriteHeader(s, code)
         IN  /\ t \in Writers /\ t.hdr = s.hdr /\ t.mode = s.mode /\ t.gz = s.gz /\ t.body = s.body
             /\ AsSent(t) /\ Carrying(t, held, <<>>, code, s.hdr["Content-Type"])
<1>1. CASE s.mode = "off"
  <2> DEFINE t == WriteHeader(s, code)
  <2>1. /\ t \in Writers /\ t.hdr = s.hdr /\ t.wire = <<>> /\ t.status = code
        /\ t.mode = s.mode /\ t.gz = s.gz /\ t.body = s.body
        /\ t.sent # None /\ t.sent = [status |-> code, hdr |-> s.hdr]
    BY WriteHeaderKeeps
  <2>2. GzWriteHeader(s, code) = t
    BY <1>1, Zenon DEF GzWriteHeader
  <2>3. Coded("plain", <<>>) = <<>>
    BY DEF Coded
  <2> HIDE DEF t
  <2> QED BY <1>1, <2>1, <2>2, <2>3 DEF AsSent, Carrying
<1>2. CASE s.mode = "buffering"
  <2> DEFINE t == [s EXCEPT !.code = code]
  <2>1. GzWriteHeader(s, code) = t
    BY <1>2, Zenon DEF GzWriteHeader
  <2>2. /\ t \in Writers /\ t.hdr = s.hdr /\ t.wire = <<>> /\ t.code = code /\ t.buf = <<>>
        /\ t.mode = s.mode /\ t.gz = s.gz /\ t.body = s.body /\ t.sent = None
    BY Zenon DEF Writers
  <2> HIDE DEF t
  <2> QED BY <1>2, <2>1, <2>2, Zenon DEF AsSent, Carrying
<1> QED BY <1>1, <1>2, Zenon

\* What a write of q does with the compressors: nothing, it adds to the one it has, or it
\* takes one from the pool or a new one.
PoolStep(q, s, t, held) ==
  \/ t.gz = s.gz /\ UNCHANGED poolVars
  \/ /\ s.mode = "gzip" /\ t.gz = s.gz /\ UNCHANGED <<heap, pool>>
     /\ comp' = [comp EXCEPT ![s.gz].held = held]
  \/ /\ s.mode = "buffering" /\ t.gz \in pool \cup (Compressor \ heap)
     /\ heap' = heap \cup {t.gz} /\ pool' = pool \ {t.gz}
     /\ comp' = [comp EXCEPT ![t.gz] = [to |-> q, held |-> held, closed |-> FALSE]]

\* What gzipWriter.Write, or the statusWriter's where there is no gzipWriter, leaves of
\* the writers: whatever it decides about the coding, they go on to carry what was written.
LEMMA GzWriteKeeps ==
  ASSUME TypeOK, NEW q \in Request, NEW s \in Writers, NEW x \in Seq(Unit), NEW p \in Seq(Unit),
         NEW status, NEW type, AsSent(s), s.mode = "gzip" <=> s.gz # None,
         Carrying(s, comp[s.gz].held, x, status, type), GzWrite(q, s, p)
  PROVE  LET t == stack'[q]
         IN  /\ stack' \in [Request -> Writers] /\ \A r \in Request \ {q} : stack'[r] = stack[r]
             /\ t \in Writers /\ t.body = s.body
             /\ \A n \in HeaderName \ {"Content-Encoding"} : t.hdr[n] = s.hdr[n]
             /\ AsSent(t) /\ (t.mode = "off" <=> s.mode = "off")
             /\ Carrying(t, comp'[t.gz].held, x \o p, status, type)
             /\ t.mode = "gzip" <=> t.gz # None
             /\ PoolStep(q, s, t, x \o p)
<1>0. ASSUME NEW w \in Writers, stack' = [stack EXCEPT ![q] = w]
      PROVE  /\ stack'[q] = w /\ stack' \in [Request -> Writers]
             /\ \A r \in Request \ {q} : stack'[r] = stack[r]
  BY <1>0, Zenon DEF TypeOK
<1>1. CASE s.mode \in {"off", "plain"} /\ Becomes(q, Write(s, Coded("plain", p))) /\ UNCHANGED poolVars
  <2> DEFINE t == Write(s, Coded("plain", p))
  <2>1. s.sent # None /\ s.wire = Coded("plain", x)
    BY <1>1, Zenon DEF Carrying
  <2>2. /\ t \in Writers /\ t.hdr = s.hdr /\ t.wire = s.wire \o Coded("plain", p)
        /\ t.status = s.status /\ t.sent = s.sent /\ t.mode = s.mode /\ t.gz = s.gz /\ t.body = s.body
    BY <2>1, WriteKeeps, Zenon
  <2>3. t.wire = Coded("plain", x \o p)
    <3>1. Coded("plain", x \o p) = Coded("plain", x) \o Coded("plain", p)
      BY CodedConcat, Zenon
    <3> QED BY <2>1, <2>2, <3>1, Zenon
  <2>4. stack'[q] = t /\ stack' \in [Request -> Writers] /\ \A r \in Request \ {q} : stack'[r] = stack[r]
    BY <1>0, <1>1, <2>2, Zenon DEF Becomes
  <2> HIDE DEF t
  <2>5. PoolStep(q, s, t, x \o p)
    BY <1>1, <2>2, Zenon DEF PoolStep
  <2> QED BY <1>1, <2>2, <2>3, <2>4, <2>5, Zenon DEF Carrying, AsSent
<1>2. CASE /\ s.mode = "gzip" /\ Becomes(q, s)
           /\ comp' = [comp EXCEPT ![s.gz].held = @ \o p] /\ UNCHANGED <<heap, pool>>
  <2>1. stack'[q] = s /\ stack' \in [Request -> Writers] /\ \A r \in Request \ {q} : stack'[r] = stack[r]
    BY <1>0, <1>2, Zenon DEF Becomes
  <2>2. comp'[s.gz].held = x \o p
    BY <1>2, ZenonT(30) DEF Carrying, TypeOK, Writers
  <2>3. PoolStep(q, s, s, x \o p)
    <3>1. comp[s.gz].held = x
      BY <1>2, Zenon DEF Carrying
    <3> QED BY <1>2, <3>1, Zenon DEF PoolStep
  <2> QED BY <1>2, <2>1, <2>2, <2>3, Zenon DEF Carrying
<1>3. CASE s.mode = "buffering" /\ Becomes(q, [s EXCEPT !.buf = @ \o p]) /\ UNCHANGED poolVars
  <2> DEFINE t == [s EXCEPT !.buf = @ \o p]
  <2>0. x \o p \in Seq(Unit) /\ s.buf = x
    BY <1>3, Concatenation, Zenon DEF Carrying
  <2>1. /\ t \in Writers /\ t.hdr = s.hdr /\ t.wire = s.wire /\ t.buf = x \o p /\ t.code = s.code
        /\ t.status = s.status /\ t.sent = s.sent /\ t.mode = s.mode /\ t.gz = s.gz /\ t.body = s.body
    BY <2>0, Zenon DEF Writers
  <2>2. stack'[q] = t /\ stack' \in [Request -> Writers] /\ \A r \in Request \ {q} : stack'[r] = stack[r]
    BY <1>0, <1>3, <2>1, Zenon DEF Becomes
  <2> HIDE DEF t
  <2>3. PoolStep(q, s, t, x \o p)
    BY <1>3, <2>1, Zenon DEF PoolStep
  <2> QED BY <1>3, <2>1, <2>2, <2>3, Zenon DEF Carrying, AsSent
<1>4. CASE s.mode = "buffering" /\ Commit(q, [s EXCEPT !.buf = @ \o p])
  <2> DEFINE b == [s EXCEPT !.buf = @ \o p]
  <2>0. x \o p \in Seq(Unit) /\ s.buf = x /\ s.sent = None /\ s.wire = <<>>
        /\ s.code = status /\ s.gz = None
    BY <1>4, Concatenation, Zenon DEF Carrying
  <2>1. /\ b \in Writers /\ b.hdr = s.hdr /\ b.wire = <<>> /\ b.buf = x \o p /\ b.code = status
        /\ b.sent = None /\ b.gz = None /\ b.body = s.body
    BY <2>0, Zenon DEF Writers
  <2>2. Commit(q, b)
    BY <1>4, Zenon
  <2> HIDE DEF b
  <2>3. s.hdr["Content-Type"] = type /\ s.hdr["Content-Encoding"] = {}
    BY <1>4, Zenon DEF Carrying
  <2>4. CASE AlreadyCompressible(b)
    <3>1. PICK c \in pool \cup (Compressor \ heap) :
            /\ heap' = heap \cup {c} /\ pool' = pool \ {c}
            /\ comp' = [comp EXCEPT ![c] = [to |-> q, held |-> b.buf, closed |-> FALSE]]
            /\ Becomes(q, [WriteHeader(SetHeader(b, "Content-Encoding", "gzip"), b.code)
                             EXCEPT !.mode = "gzip", !.gz = c, !.buf = <<>>])
      BY <2>2, <2>4, Zenon DEF Commit
    <3> DEFINE e == SetHeader(b, "Content-Encoding", "gzip")
               h == WriteHeader(e, b.code)
               t == [h EXCEPT !.mode = "gzip", !.gz = c, !.buf = <<>>]
    <3>2. "Content-Encoding" \in HeaderName /\ "gzip" \in HeaderValue /\ "Content-Type" \in HeaderName
      BY Zenon DEF HeaderName, HeaderValue
    <3>3. /\ e \in Writers /\ SameButHeaders(b, e) /\ e.hdr["Content-Encoding"] = {"gzip"}
          /\ \A n \in HeaderName \ {"Content-Encoding"} : e.hdr[n] = b.hdr[n]
      BY <2>1, <3>2, SetKeeps
    <3> HIDE DEF e
    <3>4. e.sent = None /\ e.wire = <<>> /\ e.body = s.body /\ b.code \in Nat /\ e.hdr["Content-Type"] = type
      BY <2>1, <2>3, <3>2, <3>3 DEF SameButHeaders, Writers
    <3>5. /\ h \in Writers /\ h.hdr = e.hdr /\ h.wire = e.wire /\ h.status = b.code /\ h.body = e.body
          /\ h.sent # None /\ h.sent = [status |-> b.code, hdr |-> e.hdr]
      BY <3>3, <3>4, WriteHeaderKeeps
    <3> HIDE DEF h
    <3>6. c \in Compressor /\ c # None
      BY NoneAssumption, Zenon DEF TypeOK
    <3>7. <<>> \in Seq(Unit)
      OBVIOUS
    <3>8. /\ t \in Writers /\ t.hdr = e.hdr /\ t.wire = <<>> /\ t.status = status /\ t.body = s.body
          /\ t.sent # None /\ t.sent = [status |-> status, hdr |-> e.hdr] /\ t.mode = "gzip" /\ t.gz = c
      BY <2>1, <3>4, <3>5, <3>6, <3>7, Zenon DEF Writers
    <3>9. stack'[q] = t /\ stack' \in [Request -> Writers] /\ \A r \in Request \ {q} : stack'[r] = stack[r]
      BY <1>0, <3>1, <3>8, Zenon DEF Becomes, h, e
    <3>10. comp'[c].held = x \o p
      BY <2>1, <3>1, <3>6, Zenon DEF TypeOK
    <3> HIDE DEF t
    <3>11. AsSent(t) /\ Carrying(t, comp'[c].held, x \o p, status, type)
      BY <3>3, <3>4, <3>8, <3>10 DEF Carrying, AsSent
    <3>12. \A n \in HeaderName \ {"Content-Encoding"} : t.hdr[n] = s.hdr[n]
      BY <2>1, <3>3, <3>8, Zenon
    <3>13. PoolStep(q, s, t, x \o p)
      BY <1>4, <2>1, <3>1, <3>8, Zenon DEF PoolStep
    <3> QED BY <1>4, <3>6, <3>8, <3>9, <3>11, <3>12, <3>13, Zenon
  <2>5. CASE ~AlreadyCompressible(b)
    <3> DEFINE t == WritePlain(b)
    <3>1. /\ t \in Writers /\ t.hdr = b.hdr /\ t.wire = Coded("plain", b.buf)
          /\ t.status = b.code /\ t.sent = [status |-> b.code, hdr |-> b.hdr] /\ t.sent # None
          /\ t.mode = "plain" /\ t.gz = b.gz /\ t.body = b.body
      BY <2>1, WritePlainKeeps, Zenon
    <3>2. stack'[q] = t /\ stack' \in [Request -> Writers] /\ \A r \in Request \ {q} : stack'[r] = stack[r]
      BY <1>0, <2>2, <2>5, <3>1, Zenon DEF Becomes, Commit
    <3> HIDE DEF t
    <3>3. AsSent(t) /\ Carrying(t, comp'[t.gz].held, x \o p, status, type)
      BY <2>1, <2>3, <3>1 DEF Carrying, AsSent
    <3>4. PoolStep(q, s, t, x \o p)
      BY <2>0, <2>1, <2>2, <2>5, <3>1, ZenonT(30) DEF PoolStep, Commit
    <3> QED BY <1>4, <2>1, <3>1, <3>2, <3>3, <3>4, ZenonT(30)
  <2> QED BY <2>4, <2>5, Zenon
<1> QED BY <1>1, <1>2, <1>3, <1>4, Zenon DEF GzWrite

----------------------------------------------------------------------------
\* A step of q leaves the other requests as they are, and the compressors they hold.
Apart(q) ==
  \A r \in Request \ {q} :
    /\ pc'[r] = pc[r] /\ req'[r] = req[r] /\ stack'[r] = stack[r] /\ answer'[r] = answer[r]
    /\ written'[r] = written[r] /\ said'[r] = said[r] /\ logged'[r] = logged[r]
    /\ r \in live' <=> r \in live
    /\ Holds(r) => comp'[stack[r].gz] = comp[stack[r].gz]

\* A clean answer, which the response cache may have kept, stays what it is.
CleanStays(q) == q \in Request /\ Clean(q) => Clean(q)' /\ answer'[q] = answer[q] /\ said'[q] = said[q]

\* What a request waits for or holds is not changed by the steps of another.
LEMMA OthersKeep ==
  ASSUME ChainInv, NEW q, Apart(q), CleanStays(q)
  PROVE  \A r \in Request \ {q} : RequestInv(r)'
<1> SUFFICES ASSUME NEW r \in Request \ {q} PROVE RequestInv(r)'
  BY Zenon
<1>1. /\ pc'[r] = pc[r] /\ req'[r] = req[r] /\ stack'[r] = stack[r] /\ answer'[r] = answer[r]
      /\ written'[r] = written[r] /\ said'[r] = said[r] /\ logged'[r] = logged[r]
      /\ r \in live' <=> r \in live
      /\ Holds(r) => comp'[stack[r].gz] = comp[stack[r].gz]
  BY Zenon DEF Apart
<1>2. RequestInv(r) /\ (stack[r].mode = "gzip" => stack[r].gz # None)
  BY Zenon DEF ChainInv, PoolInv
<1>3. (Served(r)' <=> Served(r)) /\ (IsHit(r)' <=> IsHit(r)) /\ (Blank(r)' <=> Blank(r))
  BY <1>1, Zenon DEF Served, IsHit, Blank
<1>4. ASSUME NEW status, NEW type, Conveys(r, status, type)
      PROVE  Conveys(r, status, type)'
  BY <1>1, <1>2, <1>4 DEF Conveys, Holds
<1>5. ASSUME NEW p \in Request, Clean(p)
      PROVE  Clean(p)' /\ answer'[p] = answer[p] /\ said'[p] = said[p]
  <2>1. CASE p = q
    BY <1>5, <2>1, Zenon DEF CleanStays
  <2>2. CASE p # q
    BY <1>5, <2>2, Zenon DEF Clean, Apart
  <2> QED BY <2>1, <2>2, Zenon
<1>6. IsHit(r) => \E p \in Request \ {r} :
           (Clean(p) /\ said[r] = said[p] /\ Conveys(r, answer[p].status, answer[p].type))'
  <2> SUFFICES ASSUME IsHit(r) PROVE \E p \in Request \ {r} :
           (Clean(p) /\ said[r] = said[p] /\ Conveys(r, answer[p].status, answer[p].type))'
    BY Zenon
  <2>1. PICK p \in Request \ {r} :
           Clean(p) /\ said[r] = said[p] /\ Conveys(r, answer[p].status, answer[p].type)
    BY <1>2, Zenon DEF RequestInv
  <2>2. Conveys(r, answer[p].status, answer[p].type)'
    BY <1>4, <1>5, <2>1, Zenon
  <2> QED BY <1>1, <1>5, <2>1, <2>2, Zenon
<1>7. answer[r] # None => Conveys(r, answer[r].status, answer[r].type)'
  <2>1. answer[r] # None => Conveys(r, answer[r].status, answer[r].type)
    BY <1>2, Zenon DEF RequestInv
  <2> QED BY <1>1, <1>4, <2>1, Zenon
<1>8. IsHit(r)' => \E p \in Request \ {r} :
           (Clean(p) /\ said[r] = said[p] /\ Conveys(r, answer[p].status, answer[p].type))'
  BY <1>3, <1>6, Zenon
<1> QED BY <1>1, <1>2, <1>3, <1>7, <1>8, ZenonT(30) DEF RequestInv

\* The page that the response cache keeps is still a clean answer.
LEMMA CacheKeeps ==
  ASSUME ChainInv, NEW q, Apart(q), CleanStays(q), cache' = cache
  PROVE  CacheInv'
<1>1. ASSUME NEW p \in Request, Clean(p)
      PROVE  Clean(p)' /\ answer'[p] = answer[p] /\ said'[p] = said[p]
  <2>1. CASE p = q
    BY <1>1, <2>1, ZenonT(30) DEF CleanStays
  <2>2. CASE p # q
    BY <1>1, <2>2 DEF Clean, Apart
  <2> QED BY <2>1, <2>2, Zenon
<1> QED BY <1>1, Zenon DEF ChainInv, CacheInv

\* No compressor changes hands.
LEMMA PoolKeeps ==
  ASSUME ChainInv, NEW q \in Request, Apart(q), heap' = heap, pool' = pool,
         \A c \in Compressor : comp'[c].to = comp[c].to /\ comp'[c].closed = comp[c].closed,
         stack'[q].gz = stack[q].gz, (stack'[q].mode = "gzip") <=> (stack[q].mode = "gzip"),
         Holds(q)' <=> Holds(q), (pc'[q] \in {"put", "putting"}) <=> (pc[q] \in {"put", "putting"})
  PROVE  PoolInv'
<1>1. \A r \in Request : /\ stack'[r].gz = stack[r].gz /\ (Holds(r)' <=> Holds(r))
                         /\ (stack'[r].mode = "gzip") <=> (stack[r].mode = "gzip")
                         /\ (pc'[r] \in {"put", "putting"}) <=> (pc[r] \in {"put", "putting"})
  BY DEF Apart, Holds
<1>2. \A c \in pool' : comp'[c].closed
  BY Zenon DEF ChainInv, TypeOK, PoolInv
<1>3. \A c \in heap' \ pool' : \E r \in Request : Holds(r)' /\ stack'[r].gz = c
  BY <1>1 DEF ChainInv, PoolInv
<1>4. ASSUME NEW r \in Request
      PROVE  /\ stack'[r].mode = "gzip" <=> stack'[r].gz # None
             /\ Holds(r)' => LET c == stack'[r].gz
                             IN  /\ c \in heap' \ pool' /\ comp'[c].to = r
                                 /\ comp'[c].closed <=> pc'[r] \in {"put", "putting"}
  <2>1. Holds(r) => stack[r].gz \in Compressor
    BY Zenon DEF ChainInv, TypeOK, PoolInv
  <2> QED BY <1>1, <2>1 DEF ChainInv, PoolInv
<1> QED BY <1>2, <1>3, <1>4, Zenon DEF PoolInv

\* The whole invariant, from what a step of q may disturb.
LEMMA StepKeeps ==
  ASSUME ChainInv, NEW q \in Request, TypeOK', Apart(q), CleanStays(q), AsSent(stack'[q]),
         stack'[q].hdr["Strict-Transport-Security"] # {},
         stack'[q].hdr["Access-Control-Allow-Origin"] = {"*"},
         RequestInv(q)', CacheInv', PoolInv'
  PROVE  ChainInv'
<1>1. HeadersInv'
  BY DEF ChainInv, HeadersInv, Apart, AsSent
<1>2. \A r \in Request : RequestInv(r)'
  BY OthersKeep, Zenon
<1> QED BY <1>1, <1>2, Zenon DEF ChainInv

\* A request arrives and is answered by one of the outer layers, or goes on to the router.
LEMMA ArriveKeeps ==
  ASSUME ChainInv, NEW q \in Request, NEW r \in Queries, NEW place \in {"leave", "route"}, NEW t \in Writers,
         Arrive(q, r), Goto(q, place), Becomes(q, t),
         live' = IF place = "route" THEN live \cup {q} ELSE live,
         UNCHANGED <<answer, written, said, logged, poolVars, cache>>,
         AsSent(t), t.gz = None, t.hdr["Strict-Transport-Security"] # {},
         t.hdr["Access-Control-Allow-Origin"] = {"*"}, t.hdr["X-Gordap-Cache"] = {},
         place = "leave" => t.sent # None /\ t.mode = "off" /\ t.hdr["Vary"] = {"Origin"},
         place = "route" => /\ t.sent = None /\ t.wire = <<>> /\ t.buf = <<>>
                            /\ t.mode \in {"off", "buffering"} /\ (t.mode = "buffering" => r.gzip)
                            /\ t.hdr["Content-Encoding"] = {}
                            /\ t.hdr["Vary"] = {"Origin", "Accept-Encoding"}
  PROVE  ChainInv'
<1>1. TypeOK /\ RequestInv(q) /\ pc[q] = "new" /\ answer[q] = None /\ Blank(q) /\ r # None
  <2>1. TypeOK /\ RequestInv(q) /\ pc[q] = "new"
    BY Zenon DEF ChainInv, Arrive
  <2>2. r # None
    BY NoneAssumption, Zenon
  <2> QED BY <2>1, <2>2, Zenon DEF RequestInv
<1>2. TypeOK'
  BY <1>1, Zenon DEF TypeOK, Arrive, Goto, Becomes, Place, poolVars
<1>3. pc'[q] = place /\ req'[q] = r /\ stack'[q] = t /\ answer'[q] = None /\ written'[q] = 0 /\ said'[q] = <<>>
  BY <1>1, Zenon DEF TypeOK, Arrive, Goto, Becomes, Blank
<1>4. Apart(q)
  BY <1>1, Zenon DEF Apart, TypeOK, Arrive, Goto, Becomes, poolVars
<1>5. CleanStays(q)
  BY <1>1, Zenon DEF CleanStays, Clean
<1>6. RequestInv(q)'
  <2>1. ~IsHit(q)' /\ ~Served(q)'
    BY <1>3, Zenon DEF IsHit, Served
  <2>2. place = "route" => Blank(q)'
    BY <1>3, Zenon DEF Blank
  <2>3. logged'[q] = None
    BY <1>1, Zenon DEF RequestInv
  <2>4. CASE place = "leave"
    BY <1>3, <2>1, <2>3, <2>4, Zenon DEF RequestInv
  <2>5. CASE place = "route"
    BY <1>1, <1>3, <2>1, <2>2, <2>3, <2>5, Zenon DEF RequestInv
  <2> QED BY <2>4, <2>5, Zenon
<1>7. CacheInv'
  BY <1>4, <1>5, CacheKeeps, Zenon
<1>8. PoolInv'
  <2>1. stack[q].gz = None /\ stack[q].mode # "gzip" /\ stack'[q].mode # "gzip" /\ ~Holds(q) /\ ~Holds(q)'
    BY <1>1, <1>3, Zenon DEF Blank, Holds
  <2> QED BY <1>1, <1>3, <1>4, <2>1, PoolKeeps, Zenon DEF poolVars
<1> QED BY <1>2, <1>3, <1>4, <1>5, <1>6, <1>7, <1>8, StepKeeps, ZenonT(30)

\* The four ways a request can go from there: CORS, the limiter, MaxRequestBody, the router.
LEMMA ArrivalsKeep ==
  ASSUME ChainInv, NEW q \in Request, NEW r \in Queries,
         Preflight(q, r) \/ Limit(q, r) \/ TooLarge(q, r) \/ Enter(q, r)
  PROVE  ChainInv'
<1>0. /\ "Strict-Transport-Security" \in HeaderName /\ "Access-Control-Allow-Origin" \in HeaderName
      /\ "Vary" \in HeaderName /\ "Retry-After" \in HeaderName /\ "Content-Encoding" \in HeaderName
      /\ "X-Gordap-Cache" \in HeaderName /\ "1" \in HeaderValue
  BY Zenon DEF HeaderName, HeaderValue
<1>1. CASE Preflight(q, r)
  <2> DEFINE t == WriteHeader(Adorned, 204)
  <2>1. /\ t \in Writers /\ t.hdr = Adorned.hdr /\ t.status = 204 /\ t.mode = "off" /\ t.gz = None
        /\ t.sent # None /\ t.sent = [status |-> 204, hdr |-> Adorned.hdr]
    <3>1. Adorned \in Writers /\ Adorned.sent = None /\ Adorned.mode = "off" /\ Adorned.gz = None
      BY AdornedIs, Zenon
    <3> QED BY <3>1, WriteHeaderKeeps
  <2>2. Arrive(q, r) /\ Goto(q, "leave") /\ Becomes(q, t) /\ UNCHANGED <<answer, written, said, live, logged, poolVars, cache>>
    BY <1>1, Zenon DEF Preflight
  <2> HIDE DEF t
  <2>3. AsSent(t)
    BY <2>1 DEF AsSent
  <2>4. /\ t.hdr["Strict-Transport-Security"] # {} /\ t.hdr["Access-Control-Allow-Origin"] = {"*"}
        /\ t.hdr["X-Gordap-Cache"] = {} /\ t.hdr["Vary"] = {"Origin"}
    BY <2>1, AdornedIs
  <2>5. "leave" # "route"
    OBVIOUS
  <2>6. live' = IF "leave" = "route" THEN live \cup {q} ELSE live
    BY <2>2, <2>5, Zenon
  <2> QED BY <2>1, <2>2, <2>3, <2>4, <2>5, <2>6, ArriveKeeps, Zenon
<1>2. CASE Limit(q, r)
  <2> DEFINE a == SetHeader(Adorned, "Retry-After", "1")
             t == HTTPError(a, 429)
  <2>1. /\ a \in Writers /\ SameButHeaders(Adorned, a)
        /\ \A n \in HeaderName \ {"Retry-After"} : a.hdr[n] = Adorned.hdr[n]
    <3>1. Adorned \in Writers /\ "Retry-After" \in HeaderName /\ "1" \in HeaderValue
      BY <1>0, AdornedIs, Zenon
    <3> QED BY <3>1, SetKeeps
  <2> HIDE DEF a
  <2>2. a.sent = None /\ a.mode = "off" /\ a.gz = None
    BY <2>1, AdornedIs, Zenon DEF SameButHeaders
  <2>3. /\ t \in Writers /\ t.status = 429 /\ t.sent = [status |-> 429, hdr |-> t.hdr]
        /\ t.sent # None /\ t.mode = a.mode /\ t.gz = a.gz
        /\ \A n \in HeaderName \ {"Content-Type"} : t.hdr[n] = a.hdr[n]
    BY <2>1, <2>2, HTTPErrorKeeps
  <2>4. Arrive(q, r) /\ Goto(q, "leave") /\ Becomes(q, t) /\ UNCHANGED <<answer, written, said, live, logged, poolVars, cache>>
    BY <1>2, Zenon DEF Limit, a
  <2> HIDE DEF t
  <2>5. AsSent(t)
    BY <2>3 DEF AsSent
  <2>6. /\ t.hdr["Strict-Transport-Security"] # {} /\ t.hdr["Access-Control-Allow-Origin"] = {"*"}
        /\ t.hdr["X-Gordap-Cache"] = {} /\ t.hdr["Vary"] = {"Origin"}
    <3>1. \A n \in HeaderName \ {"Content-Type", "Retry-After"} : t.hdr[n] = Adorned.hdr[n]
      BY <2>1, <2>3
    <3> QED BY <1>0, <3>1, AdornedIs, Zenon
  <2> QED BY <2>2, <2>3, <2>4, <2>5, <2>6, ArriveKeeps
<1>3. CASE TooLarge(q, r)
  <2> DEFINE t == HTTPError(Adorned, 413)
  <2>1. /\ t \in Writers /\ t.status = 413 /\ t.sent = [status |-> 413, hdr |-> t.hdr]
        /\ t.sent # None /\ t.mode = Adorned.mode /\ t.gz = Adorned.gz
        /\ \A n \in HeaderName \ {"Content-Type"} : t.hdr[n] = Adorned.hdr[n]
    <3>1. Adorned \in Writers /\ Adorned.sent = None
      BY AdornedIs, Zenon
    <3> QED BY <3>1, HTTPErrorKeeps
  <2>2. Arrive(q, r) /\ Goto(q, "leave") /\ Becomes(q, t) /\ UNCHANGED <<answer, written, said, live, logged, poolVars, cache>>
    BY <1>3, Zenon DEF TooLarge
  <2> HIDE DEF t
  <2>3. AsSent(t)
    BY <2>1 DEF AsSent
  <2>4. /\ t.hdr["Strict-Transport-Security"] # {} /\ t.hdr["Access-Control-Allow-Origin"] = {"*"}
        /\ t.hdr["X-Gordap-Cache"] = {} /\ t.hdr["Vary"] = {"Origin"}
    BY <1>0, <2>1, AdornedIs
  <2> QED BY <2>1, <2>2, <2>3, <2>4, AdornedIs, ArriveKeeps
<1>4. CASE Enter(q, r)
  <2> DEFINE t == Gzip(Adorned, r.gzip)
  <2>0. Adorned \in Writers /\ r.gzip \in BOOLEAN
    BY AdornedIs, ChainAssumption, Zenon
  <2>1. /\ t \in Writers /\ t.sent = Adorned.sent /\ t.wire = Adorned.wire
        /\ t.buf = Adorned.buf /\ t.gz = Adorned.gz
        /\ t.mode \in {"off", "buffering"} /\ (t.mode = "buffering" <=> r.gzip)
        /\ t.hdr["Vary"] = Adorned.hdr["Vary"] \cup {"Accept-Encoding"}
        /\ \A n \in HeaderName \ {"Vary"} : t.hdr[n] = Adorned.hdr[n]
    BY <2>0, GzipKeeps
  <2>2. Arrive(q, r) /\ Goto(q, "route") /\ Becomes(q, t) /\ live' = live \cup {q}
        /\ UNCHANGED <<answer, written, said, logged, poolVars, cache>>
    BY <1>4, Zenon DEF Enter
  <2> HIDE DEF t
  <2>3. AsSent(t) /\ t.sent = None /\ t.wire = <<>> /\ t.buf = <<>> /\ t.gz = None
    BY <2>1, AdornedIs, Zenon DEF AsSent
  <2>4. /\ t.hdr["Strict-Transport-Security"] # {} /\ t.hdr["Access-Control-Allow-Origin"] = {"*"}
        /\ t.hdr["X-Gordap-Cache"] = {} /\ t.hdr["Content-Encoding"] = {}
        /\ t.hdr["Vary"] = {"Origin", "Accept-Encoding"}
    <3>1. {"Strict-Transport-Security", "Access-Control-Allow-Origin", "X-Gordap-Cache", "Content-Encoding"}
            \subseteq HeaderName \ {"Vary"}
      BY DEF HeaderName
    <3>2. /\ t.hdr["Strict-Transport-Security"] = {"max-age"} /\ t.hdr["Access-Control-Allow-Origin"] = {"*"}
          /\ t.hdr["X-Gordap-Cache"] = {} /\ t.hdr["Content-Encoding"] = {}
          /\ t.hdr["Vary"] = {"Origin"} \cup {"Accept-Encoding"}
      BY <2>1, <3>1, AdornedIs, ZenonT(30)
    <3>3. {"Origin"} \cup {"Accept-Encoding"} = {"Origin", "Accept-Encoding"} /\ {"max-age"} # {}
      OBVIOUS
    <3> QED BY <3>2, <3>3, Zenon
  <2> QED BY <2>1, <2>2, <2>3, <2>4, ArriveKeeps, Zenon
<1> QED BY <1>1, <1>2, <1>3, <1>4, Zenon

\* A write uses the compressor of its own request, or one that no request holds.
LEMMA PoolStepTypes ==
  ASSUME ChainInv, NEW q \in Request, NEW s \in Writers, NEW t \in Writers, NEW held \in Seq(Unit),
         pc[q] \in {"route", "handle"}, s.gz = stack[q].gz, s.mode = stack[q].mode, PoolStep(q, s, t, held)
  PROVE  /\ heap' \subseteq Compressor /\ pool' \subseteq heap'
         /\ comp' \in [Compressor -> [to : {None} \cup Request, held : Seq(Unit), closed : BOOLEAN]]
         /\ \A r \in Request \ {q} : Holds(r) => comp'[stack[r].gz] = comp[stack[r].gz]
<1>1. TypeOK /\ PoolInv
  BY Zenon DEF ChainInv
<1>2. \A r \in Request : Holds(r) => stack[r].gz \in heap \ pool /\ comp[stack[r].gz].to = r
  BY <1>1, Zenon DEF PoolInv
<1>3. CASE t.gz = s.gz /\ UNCHANGED poolVars
  BY <1>1, <1>3, Zenon DEF TypeOK, poolVars
<1>4. CASE /\ s.mode = "gzip" /\ t.gz = s.gz /\ UNCHANGED <<heap, pool>>
           /\ comp' = [comp EXCEPT ![s.gz].held = held]
  <2>1. Holds(q) /\ comp[s.gz].to = q
    <3>1. stack[q].mode = "gzip" <=> stack[q].gz # None
      BY <1>1, Zenon DEF PoolInv
    <3>2. Holds(q)
      BY <1>4, <3>1, Zenon DEF Holds
    <3> QED BY <1>2, <3>2, Zenon
  <2>2. \A r \in Request \ {q} : Holds(r) => stack[r].gz # s.gz /\ stack[r].gz \in Compressor
    BY <1>1, <1>2, <2>1, Zenon DEF TypeOK
  <2>3. \A d \in Compressor \ {s.gz} : comp'[d] = comp[d]
    BY <1>1, <1>4, Zenon DEF TypeOK
  <2>4. comp' \in [Compressor -> [to : {None} \cup Request, held : Seq(Unit), closed : BOOLEAN]]
    BY <1>1, <1>4, ZenonT(30) DEF TypeOK
  <2> QED BY <1>1, <1>4, <2>2, <2>3, <2>4, ZenonT(30) DEF TypeOK
<1>5. CASE /\ t.gz \in pool \cup (Compressor \ heap)
           /\ heap' = heap \cup {t.gz} /\ pool' = pool \ {t.gz}
           /\ comp' = [comp EXCEPT ![t.gz] = [to |-> q, held |-> held, closed |-> FALSE]]
  <2>1. \A r \in Request \ {q} : Holds(r) => stack[r].gz # t.gz /\ stack[r].gz \in Compressor
    BY <1>1, <1>2, <1>5, Zenon DEF TypeOK
  <2> QED BY <1>1, <1>5, <2>1, Zenon DEF TypeOK
<1> QED BY <1>3, <1>4, <1>5, Zenon DEF PoolStep

\* Every compressor out of the pool still has its one owner after a write.
LEMMA PoolStepOwned ==
  ASSUME ChainInv, NEW q \in Request, NEW s \in Writers, NEW held,
         pc[q] \in {"route", "handle"}, s.gz = stack[q].gz, s.mode = stack[q].mode,
         Apart(q), pc'[q] \in {"handle", "unwind"}, stack'[q].mode = "gzip" <=> stack'[q].gz # None,
         PoolStep(q, s, stack'[q], held)
  PROVE  PoolInv'
<1> DEFINE t == stack'[q]
<1>1. TypeOK /\ PoolInv
  BY Zenon DEF ChainInv
<1>2. CASE t.gz = s.gz /\ heap' = heap /\ pool' = pool
           /\ \A c \in Compressor : comp'[c].to = comp[c].to /\ comp'[c].closed = comp[c].closed
  <2>1. (Holds(q)' <=> Holds(q)) /\ (t.mode = "gzip" <=> stack[q].mode = "gzip")
    BY <1>1, <1>2 DEF Holds, PoolInv
  <2> QED BY <1>2, <2>1, PoolKeeps, Zenon
<1>3. CASE /\ s.mode = "gzip" /\ t.gz = s.gz /\ UNCHANGED <<heap, pool>>
           /\ comp' = [comp EXCEPT ![s.gz].held = held]
  BY <1>1, <1>2, <1>3 DEF TypeOK
<1>4. CASE /\ s.mode = "buffering" /\ t.gz \in pool \cup (Compressor \ heap)
           /\ heap' = heap \cup {t.gz} /\ pool' = pool \ {t.gz}
           /\ comp' = [comp EXCEPT ![t.gz] = [to |-> q, held |-> held, closed |-> FALSE]]
  <2> DEFINE c == t.gz
  <2>0. c \in Compressor /\ c # None /\ stack[q].gz = None /\ ~Holds(q) /\ Holds(q)'
    <3>1. c \in Compressor /\ c # None
      BY <1>1, <1>4, NoneAssumption, Zenon DEF TypeOK
    <3>2. stack[q].gz = None
      BY <1>1, <1>4, Zenon DEF PoolInv
    <3> QED BY <3>1, <3>2, Zenon DEF Holds
  <2>1. comp'[c].to = q /\ ~comp'[c].closed /\ \A d \in Compressor \ {c} : comp'[d] = comp[d]
    BY <1>1, <1>4, <2>0, Zenon DEF TypeOK
  <2>2. \A r \in Request \ {q} : stack'[r] = stack[r] /\ pc'[r] = pc[r] /\ (Holds(r)' <=> Holds(r))
    BY Zenon DEF Apart, Holds
  <2>3. \A d \in pool' : comp'[d].closed
    <3>1. \A d \in pool' : d \in pool /\ d \in Compressor \ {c}
      BY <1>1, <1>4, Zenon DEF TypeOK
    <3> QED BY <1>1, <2>1, <3>1, ZenonT(30) DEF PoolInv
  <2>4. \A d \in heap' \ pool' : \E r \in Request : Holds(r)' /\ stack'[r].gz = d
    <3> SUFFICES ASSUME NEW d \in heap' \ pool', d # c PROVE \E r \in Request : Holds(r)' /\ stack'[r].gz = d
      BY <2>0, Zenon
    <3>1. PICK r \in Request : Holds(r) /\ stack[r].gz = d
      BY <1>1, <1>4 DEF PoolInv
    <3> QED BY <2>0, <2>2, <3>1, Zenon
  <2>5. ASSUME NEW r \in Request
        PROVE  /\ stack'[r].mode = "gzip" <=> stack'[r].gz # None
               /\ Holds(r)' => LET g == stack'[r].gz
                               IN  /\ g \in heap' \ pool' /\ comp'[g].to = r
                                   /\ comp'[g].closed <=> pc'[r] \in {"put", "putting"}
    <3>1. CASE r = q
      BY <1>4, <2>1, <3>1, Zenon
    <3>2. CASE r # q
      <4>1. Holds(r) => stack[r].gz \in heap \ pool /\ stack[r].gz # c /\ stack[r].gz \in Compressor
        BY <1>1, <1>4, Zenon DEF PoolInv, TypeOK
      <4>2. Holds(r) => stack[r].gz \in heap' \ pool' /\ comp'[stack[r].gz] = comp[stack[r].gz]
        BY <1>4, <2>1, <4>1, Zenon
      <4>3. stack'[r] = stack[r] /\ pc'[r] = pc[r] /\ (Holds(r)' <=> Holds(r))
        BY <2>2, <3>2, Zenon
      <4>4. /\ stack[r].mode = "gzip" <=> stack[r].gz # None
            /\ Holds(r) => LET g == stack[r].gz
                           IN  comp[g].to = r /\ (comp[g].closed <=> pc[r] \in {"put", "putting"})
        BY <1>1, Zenon DEF PoolInv
      <4> QED BY <4>2, <4>3, <4>4, ZenonT(30)
    <3> QED BY <3>1, <3>2, Zenon
  <2> QED BY <2>3, <2>4, <2>5, Zenon DEF PoolInv
<1> QED BY <1>2, <1>3, <1>4, Zenon DEF PoolStep, poolVars

\* A hit: the page's status, type and body go out in the coding this request takes.
LEMMA HitKeeps ==
  ASSUME ChainInv, NEW q \in Request, Hit(q)
  PROVE  ChainInv'
<1> DEFINE replay == [stack[q] EXCEPT !.hdr = [n \in HeaderName |-> IF n \in DOMAIN cache.hdr
                                                                  THEN cache.hdr[n] ELSE @[n]]]
           u == SetHeader(replay, "X-Gordap-Cache", "HIT")
           s == GzWriteHeader(u, cache.status)
           t == stack'[q]
<1>0. /\ "Content-Type" \in HeaderName /\ "Vary" \in HeaderName /\ "Content-Encoding" \in HeaderName
      /\ "X-Gordap-Cache" \in HeaderName /\ "HIT" \in HeaderValue
      /\ "Strict-Transport-Security" \in HeaderName /\ "Access-Control-Allow-Origin" \in HeaderName
  BY Zenon DEF HeaderName, HeaderValue
<1>1. TypeOK /\ RequestInv(q) /\ pc[q] = "route" /\ answer[q] = None /\ Blank(q) /\ CacheInv /\ PoolInv
  BY Zenon DEF ChainInv, Hit, RequestInv
<1>2. /\ cache \in Page /\ cache.status \in Nat /\ cache.body \in Seq(Unit)
      /\ cache.hdr \in [{"Content-Type"} -> SUBSET HeaderValue]
  BY <1>1, Zenon DEF TypeOK, Page, Hit
<1>3. /\ stack[q] \in Writers /\ stack[q].sent = None /\ stack[q].wire = <<>> /\ stack[q].buf = <<>>
      /\ stack[q].gz = None /\ stack[q].mode \in {"off", "buffering"}
      /\ stack[q].hdr["Content-Encoding"] = {} /\ stack[q].hdr["Vary"] = {"Origin", "Accept-Encoding"}
      /\ stack[q].mode # "off" => req[q] # None /\ req[q].gzip
  BY <1>1, Zenon DEF TypeOK, Blank, RequestInv
<1>4. /\ replay \in Writers /\ SameButHeaders(stack[q], replay)
      /\ replay.hdr["Content-Type"] = cache.hdr["Content-Type"]
      /\ \A n \in HeaderName \ {"Content-Type"} : replay.hdr[n] = stack[q].hdr[n]
  BY <1>0, <1>2, <1>3, Zenon DEF Writers, Headers, SameButHeaders
<1>5. GzWrite(q, s, cache.body)
  BY Zenon DEF Hit
<1> HIDE DEF replay
<1>6. /\ u \in Writers /\ SameButHeaders(replay, u) /\ u.hdr["X-Gordap-Cache"] = {"HIT"}
      /\ \A n \in HeaderName \ {"X-Gordap-Cache"} : u.hdr[n] = replay.hdr[n]
  <2>1. replay \in Writers /\ "X-Gordap-Cache" \in HeaderName /\ "HIT" \in HeaderValue
    BY <1>0, <1>4, Zenon
  <2> QED BY <2>1, SetKeeps
<1> HIDE DEF u
<1>7. /\ u.sent = None /\ u.wire = <<>> /\ u.buf = <<>> /\ u.gz = None /\ u.mode = stack[q].mode
  BY <1>3, <1>4, <1>6, Zenon DEF SameButHeaders
<1>8. /\ u.hdr["Content-Encoding"] = {} /\ u.hdr["Content-Type"] = cache.hdr["Content-Type"]
      /\ \A n \in HeaderName \ {"Content-Type", "X-Gordap-Cache"} : u.hdr[n] = stack[q].hdr[n]
  BY <1>0, <1>3, <1>4, <1>6
<1>9. /\ s \in Writers /\ s.hdr = u.hdr /\ s.mode = u.mode /\ s.gz = None /\ AsSent(s)
      /\ Carrying(s, comp[s.gz].held, <<>>, cache.status, cache.hdr["Content-Type"])
  <2>1. u.mode \in {"off", "buffering"}
    BY <1>3, <1>7, Zenon
  <2> HIDE DEF s
  <2>2. \A held : /\ s \in Writers /\ s.hdr = u.hdr /\ s.mode = u.mode /\ s.gz = u.gz /\ AsSent(s)
                  /\ Carrying(s, held, <<>>, cache.status, u.hdr["Content-Type"])
    BY <1>2, <1>6, <1>7, <1>8, <2>1, GzWriteHeaderKeeps, Zenon DEF s
  <2> QED BY <1>7, <1>8, <2>2, Zenon
<1> HIDE DEF s
<1>10. /\ stack' \in [Request -> Writers] /\ \A r \in Request \ {q} : stack'[r] = stack[r]
       /\ t \in Writers
       /\ \A n \in HeaderName \ {"Content-Encoding"} : t.hdr[n] = s.hdr[n]
       /\ AsSent(t) /\ (t.mode = "off" <=> s.mode = "off")
       /\ Carrying(t, comp'[t.gz].held, <<>> \o cache.body, cache.status, cache.hdr["Content-Type"])
       /\ t.mode = "gzip" <=> t.gz # None
       /\ PoolStep(q, s, t, <<>> \o cache.body)
  <2>1. s.mode = "gzip" <=> s.gz # None
    BY <1>3, <1>7, <1>9, Zenon
  <2> DEFINE x == <<>>
             body == cache.body
  <2>2. x \in Seq(Unit) /\ body \in Seq(Unit) /\ TypeOK
    BY <1>1, <1>2
  <2>3. /\ s \in Writers /\ AsSent(s) /\ GzWrite(q, s, body)
        /\ Carrying(s, comp[s.gz].held, x, cache.status, cache.hdr["Content-Type"])
    BY <1>5, <1>9, Zenon
  <2> HIDE DEF x, body
  <2>4. /\ stack' \in [Request -> Writers] /\ \A r \in Request \ {q} : stack'[r] = stack[r]
        /\ t \in Writers
        /\ \A n \in HeaderName \ {"Content-Encoding"} : t.hdr[n] = s.hdr[n]
        /\ AsSent(t) /\ (t.mode = "off" <=> s.mode = "off")
        /\ Carrying(t, comp'[t.gz].held, x \o body, cache.status, cache.hdr["Content-Type"])
        /\ t.mode = "gzip" <=> t.gz # None
        /\ PoolStep(q, s, t, x \o body)
    BY <2>1, <2>2, <2>3, GzWriteKeeps, ZenonT(30)
  <2> QED BY <2>4, ZenonT(30) DEF x, body
<1>11. <<>> \o cache.body = cache.body
  BY <1>2, NothingBefore, Zenon
<1>12. /\ heap' \subseteq Compressor /\ pool' \subseteq heap'
       /\ comp' \in [Compressor -> [to : {None} \cup Request, held : Seq(Unit), closed : BOOLEAN]]
       /\ \A r \in Request \ {q} : Holds(r) => comp'[stack[r].gz] = comp[stack[r].gz]
  <2>1. s.gz = stack[q].gz /\ s.mode = stack[q].mode /\ pc[q] \in {"route", "handle"}
    BY <1>1, <1>3, <1>7, <1>9, Zenon
  <2> QED BY <1>2, <1>9, <1>10, <1>11, <2>1, PoolStepTypes, Zenon
<1>13. TypeOK'
  BY <1>1, <1>2, <1>10, <1>12, Zenon DEF TypeOK, Hit, Goto, Place
<1>14. pc'[q] = "unwind" /\ req'[q] = req[q] /\ answer'[q] = None /\ said'[q] = cache.body /\ logged'[q] = None
  BY <1>1, Zenon DEF TypeOK, Hit, Goto, RequestInv
<1>15. Apart(q)
  BY <1>1, <1>10, <1>12 DEF Apart, TypeOK, Hit, Goto
<1>16. CleanStays(q)
  BY <1>1, ZenonT(30) DEF CleanStays, Clean
<1>17. /\ t.hdr["X-Gordap-Cache"] = {"HIT"} /\ t.hdr["Vary"] = {"Origin", "Accept-Encoding"}
       /\ t.hdr["Strict-Transport-Security"] # {} /\ t.hdr["Access-Control-Allow-Origin"] = {"*"}
  <2>1. stack[q].hdr["Strict-Transport-Security"] # {} /\ stack[q].hdr["Access-Control-Allow-Origin"] = {"*"}
    BY <1>1, Zenon DEF ChainInv, HeadersInv
  <2>2. \A n \in {"X-Gordap-Cache", "Vary", "Strict-Transport-Security", "Access-Control-Allow-Origin"} :
          n \in HeaderName \ {"Content-Encoding"}
    BY <1>0
  <2>3. \A n \in {"X-Gordap-Cache", "Vary", "Strict-Transport-Security", "Access-Control-Allow-Origin"} :
          t.hdr[n] = s.hdr[n]
    BY <1>10, <2>2, Zenon
  <2> QED BY <1>0, <1>3, <1>6, <1>8, <1>9, <2>1, <2>3
<1>18. RequestInv(q)'
  <2>1. IsHit(q)' /\ Served(q)'
    BY <1>17, Zenon DEF IsHit, Served
  <2>2. PICK p \in Request :
          /\ Clean(p) /\ cache.status = answer[p].status /\ cache.body = said[p]
          /\ cache.hdr["Content-Type"] = answer[p].type
    BY <1>1, Zenon DEF CacheInv, Hit
  <2>3. p # q
    BY <1>1, <2>2, Zenon DEF Clean
  <2>4. Clean(p)' /\ answer'[p] = answer[p] /\ said'[p] = said[p]
    BY <1>15, <2>2, <2>3, ZenonT(30) DEF Apart, Clean
  <2>5. Conveys(q, answer[p].status, answer[p].type)'
    BY <1>10, <1>11, <1>14, <2>2, <2>4, Zenon DEF Conveys, Carrying
  <2>6. t.mode # "off" => req'[q] # None /\ req'[q].gzip
    BY <1>3, <1>7, <1>9, <1>10, <1>14, Zenon
  <2> QED BY <1>14, <1>17, <2>1, <2>2, <2>3, <2>4, <2>5, <2>6, Zenon DEF RequestInv
<1>19. CacheInv'
  BY <1>15, <1>16, CacheKeeps, ZenonT(30) DEF Hit
<1>20. PoolInv'
  <2>1. s.gz = stack[q].gz /\ s.mode = stack[q].mode /\ pc[q] \in {"route", "handle"} /\ pc'[q] \in {"handle", "unwind"}
    BY <1>1, <1>3, <1>7, <1>9, <1>14, Zenon
  <2> QED BY <1>9, <1>10, <1>15, <2>1, PoolStepOwned
<1> HIDE DEF t
<1> QED BY <1>10, <1>13, <1>15, <1>16, <1>17, <1>18, <1>19, <1>20, StepKeeps, Zenon DEF t

\* The handler writes a piece of its body: the writers carry it, the captureWriter keeps it.
LEMMA HandlerWriteKeeps ==
  ASSUME ChainInv, NEW q \in Request, HandlerWrite(q)
  PROVE  ChainInv'
<1> DEFINE k == written[q] + 1
           p == Piece(q, k)
           s == [stack[q] EXCEPT !.body = IF @ = None THEN None ELSE @ \o p]
           t == stack'[q]
           a == answer[q]
<1>0. /\ "Content-Type" \in HeaderName /\ "Vary" \in HeaderName /\ "X-Gordap-Cache" \in HeaderName
      /\ "Strict-Transport-Security" \in HeaderName /\ "Access-Control-Allow-Origin" \in HeaderName
  BY Zenon DEF HeaderName
<1>1. /\ TypeOK /\ RequestInv(q) /\ PoolInv /\ pc[q] = "handle" /\ a # None /\ a \in Answers
      /\ written[q] \in Nat /\ written[q] < Len(a.writes)
  BY Zenon DEF ChainInv, HandlerWrite, TypeOK
<1>2. /\ a.status \in Nat /\ a.writes \in Seq(Nat \ {0})
  BY <1>1, ChainAssumption, Zenon
<1>3. p \in Seq(Unit) /\ said[q] \in Seq(Unit) /\ said[q] \o p \in Seq(Unit)
  <2>1. k \in 1..Len(a.writes) /\ a.writes[k] \in Nat
    BY <1>1, <1>2
  <2>2. p \in Seq(Unit)
    BY <1>1, <2>1 DEF Piece, Unit
  <2> HIDE DEF p
  <2>3. said[q] \in Seq(Unit)
    BY <1>1, Zenon DEF TypeOK
  <2> QED BY <2>2, <2>3, Concatenation, Zenon
<1>4. GzWrite(q, s, p) /\ said' = [said EXCEPT ![q] = @ \o p]
  BY Zenon DEF HandlerWrite
<1> HIDE DEF p
<1>5. /\ stack[q] \in Writers /\ ~IsHit(q) /\ Conveys(q, a.status, a.type)
      /\ stack[q].body = IF req[q].cacheable THEN said[q] ELSE None
      /\ stack[q].hdr["Vary"] = {"Origin", "Accept-Encoding"}
      /\ stack[q].mode # "off" => req[q] # None /\ req[q].gzip
      /\ stack[q].mode = "gzip" <=> stack[q].gz # None
      /\ logged[q] = None
  <2>0. stack[q] \in Writers
    BY <1>1, Zenon DEF TypeOK
  <2>1. stack[q].mode = "gzip" <=> stack[q].gz # None
    BY <1>1, Zenon DEF PoolInv
  <2>2. "handle" # "done"
    OBVIOUS
  <2> QED BY <1>1, <2>0, <2>1, <2>2, ZenonT(30) DEF RequestInv
<1>6. said[q] # None /\ s \in Writers /\ s.hdr = stack[q].hdr /\ s.sent = stack[q].sent /\ s.wire = stack[q].wire
      /\ s.status = stack[q].status /\ s.mode = stack[q].mode /\ s.buf = stack[q].buf
      /\ s.code = stack[q].code /\ s.gz = stack[q].gz
      /\ s.body = IF req[q].cacheable THEN said[q] \o p ELSE None
  <2>1. said[q] # None
    BY <1>3, NoneAssumption, Zenon
  <2> QED BY <1>3, <1>5, <2>1, ZenonT(30) DEF Writers
<1> HIDE DEF s
<1>7. AsSent(s) /\ Carrying(s, comp[s.gz].held, said[q], a.status, a.type)
  <2>1. AsSent(stack[q])
    BY Zenon DEF ChainInv, HeadersInv, AsSent
  <2>2. AsSent(s)
    BY <1>6, <2>1, Zenon DEF AsSent
  <2> QED BY <1>1, <1>5, <1>6, <2>2 DEF Carrying, Conveys
<1>8. /\ stack' \in [Request -> Writers] /\ \A r \in Request \ {q} : stack'[r] = stack[r]
      /\ t \in Writers /\ t.body = s.body
      /\ \A n \in HeaderName \ {"Content-Encoding"} : t.hdr[n] = s.hdr[n]
      /\ AsSent(t) /\ (t.mode = "off" <=> s.mode = "off")
      /\ Carrying(t, comp'[t.gz].held, said[q] \o p, a.status, a.type)
      /\ t.mode = "gzip" <=> t.gz # None
      /\ PoolStep(q, s, t, said[q] \o p)
  <2>1. TypeOK /\ s \in Writers /\ (s.mode = "gzip" <=> s.gz # None)
    BY <1>1, <1>5, <1>6, Zenon
  <2> QED BY <1>3, <1>4, <1>7, <2>1, GzWriteKeeps, Zenon
<1>9. s.gz = stack[q].gz /\ s.mode = stack[q].mode /\ pc[q] \in {"route", "handle"}
  BY <1>1, <1>6, Zenon
<1>10. /\ heap' \subseteq Compressor /\ pool' \subseteq heap'
       /\ comp' \in [Compressor -> [to : {None} \cup Request, held : Seq(Unit), closed : BOOLEAN]]
       /\ \A r \in Request \ {q} : Holds(r) => comp'[stack[r].gz] = comp[stack[r].gz]
  BY <1>3, <1>6, <1>8, <1>9, PoolStepTypes, Zenon
<1>11. TypeOK'
  <2>1. /\ said' \in [Request -> Seq(Unit)]
        /\ written' \in [Request -> Nat]
    <3>1. said \in [Request -> Seq(Unit)] /\ written \in [Request -> Nat]
      BY <1>1, Zenon DEF TypeOK
    <3>2. written' = [written EXCEPT ![q] = @ + 1]
      BY Zenon DEF HandlerWrite
    <3> DEFINE x == said[q] \o p
    <3>3. x \in Seq(Unit) /\ said' = [said EXCEPT ![q] = x]
      BY <1>3, <1>4, Zenon
    <3> HIDE DEF x
    <3> QED BY <3>1, <3>2, <3>3
  <2> QED BY <1>1, <1>8, <1>10, <2>1, Zenon DEF TypeOK, HandlerWrite
<1>12. pc'[q] = "handle" /\ req'[q] = req[q] /\ answer'[q] = a /\ said'[q] = said[q] \o p /\ logged'[q] = None
       /\ live' = live
  BY <1>1, <1>4, <1>5, Zenon DEF TypeOK, HandlerWrite
<1>13. Apart(q)
  BY <1>1, <1>4, <1>8, <1>10 DEF Apart, TypeOK, HandlerWrite
<1>14. CleanStays(q)
  BY <1>1, Zenon DEF CleanStays, Clean
<1>15. /\ t.hdr["X-Gordap-Cache"] # {"HIT"} /\ t.hdr["Vary"] = {"Origin", "Accept-Encoding"}
       /\ t.hdr["Strict-Transport-Security"] # {} /\ t.hdr["Access-Control-Allow-Origin"] = {"*"}
  <2>1. stack[q].hdr["Strict-Transport-Security"] # {} /\ stack[q].hdr["Access-Control-Allow-Origin"] = {"*"}
    BY <1>1, Zenon DEF ChainInv, HeadersInv
  <2>2. stack[q].hdr["X-Gordap-Cache"] # {"HIT"}
    BY <1>5, Zenon DEF IsHit
  <2>3. \A n \in {"X-Gordap-Cache", "Vary", "Strict-Transport-Security", "Access-Control-Allow-Origin"} :
          n \in HeaderName \ {"Content-Encoding"}
    BY <1>0
  <2>4. \A n \in {"X-Gordap-Cache", "Vary", "Strict-Transport-Security", "Access-Control-Allow-Origin"} :
          t.hdr[n] = stack[q].hdr[n]
    BY <1>6, <1>8, <2>3, ZenonT(30)
  <2> QED BY <1>5, <2>1, <2>2, <2>4, Zenon
<1>16. RequestInv(q)'
  <2>1. ~IsHit(q)' /\ Served(q)'
    BY <1>1, <1>12, <1>15, Zenon DEF IsHit, Served
  <2>2. Conveys(q, answer[q].status, answer[q].type)'
    BY <1>8, <1>12, Zenon DEF Conveys, Carrying
  <2>3. t.mode # "off" => req'[q] # None /\ req'[q].gzip
    BY <1>5, <1>6, <1>8, <1>12, Zenon
  <2>4. t.body = IF req'[q].cacheable THEN said'[q] ELSE None
    BY <1>6, <1>8, <1>12, Zenon
  <2> QED BY <1>1, <1>12, <1>15, <2>1, <2>2, <2>3, <2>4, Zenon DEF RequestInv
<1>17. CacheInv'
  BY <1>13, <1>14, CacheKeeps, ZenonT(30) DEF HandlerWrite
<1>18. PoolInv'
  <2>1. pc'[q] \in {"handle", "unwind"} /\ s \in Writers
    BY <1>6, <1>12, Zenon
  <2>2. PoolStep(q, s, stack'[q], said[q] \o p) /\ (stack'[q].mode = "gzip" <=> stack'[q].gz # None)
    BY <1>8, Zenon
  <2> QED BY <1>9, <1>13, <2>1, <2>2, PoolStepOwned
<1> QED BY <1>8, <1>11, <1>13, <1>14, <1>15, <1>16, <1>17, <1>18, StepKeeps, Zenon

\* The middleware has no page: the handler is to answer, and a captureWriter listens.
LEMMA RouteKeeps ==
  ASSUME ChainInv, NEW q \in Request, Route(q)
  PROVE  ChainInv'
<1> DEFINE t == [stack[q] EXCEPT !.body = IF req[q].cacheable THEN <<>> ELSE None]
<1>1. TypeOK /\ RequestInv(q) /\ pc[q] = "route" /\ answer[q] = None /\ Blank(q) /\ ~IsHit(q) /\ stack[q] \in Writers
  BY Zenon DEF ChainInv, Route, RequestInv, TypeOK
<1>2. /\ t \in Writers /\ t.hdr = stack[q].hdr /\ t.sent = stack[q].sent /\ t.wire = stack[q].wire
      /\ t.status = stack[q].status /\ t.mode = stack[q].mode /\ t.buf = stack[q].buf
      /\ t.gz = stack[q].gz /\ t.body = IF req[q].cacheable THEN <<>> ELSE None
  <2>1. <<>> \in Seq(Unit)
    OBVIOUS
  <2> QED BY <1>1, <2>1, Zenon DEF Writers
<1>3. Goto(q, "handle") /\ Becomes(q, t) /\ UNCHANGED <<req, answer, written, said, live, logged, poolVars, cache>>
  BY Zenon DEF Route
<1> HIDE DEF t
<1>4. TypeOK'
  BY <1>1, <1>2, <1>3, Zenon DEF TypeOK, Goto, Becomes, Place, poolVars
<1>5. pc'[q] = "handle" /\ stack'[q] = t
  BY <1>1, <1>3, Zenon DEF TypeOK, Goto, Becomes
<1>6. Apart(q)
  BY <1>1, <1>3, Zenon DEF Apart, TypeOK, Goto, Becomes, poolVars
<1>7. CleanStays(q)
  BY <1>1, Zenon DEF CleanStays, Clean
<1>8. AsSent(t) /\ t.hdr["Strict-Transport-Security"] # {} /\ t.hdr["Access-Control-Allow-Origin"] = {"*"}
  BY <1>1, <1>2, Zenon DEF ChainInv, HeadersInv, AsSent
<1>9. RequestInv(q)'
  <2>1. ~IsHit(q)' /\ ~Served(q)' /\ Blank(q)' /\ said'[q] = <<>>
    BY <1>1, <1>2, <1>3, <1>5, Zenon DEF IsHit, Served, Blank
  <2> QED BY <1>1, <1>2, <1>3, <1>5, <2>1, Zenon DEF RequestInv
<1>10. CacheInv'
  BY <1>3, <1>6, <1>7, CacheKeeps, Zenon
<1>11. PoolInv'
  <2>1. Holds(q)' <=> Holds(q)
    BY <1>1, <1>2, <1>5, Zenon DEF Holds
  <2> QED BY <1>1, <1>2, <1>3, <1>5, <1>6, <2>1, PoolKeeps, Zenon DEF poolVars
<1> QED BY <1>4, <1>5, <1>6, <1>7, <1>8, <1>9, <1>10, <1>11, StepKeeps, Zenon

\* The handler gives the type and the status of its answer.
LEMMA HandlerHeaderKeeps ==
  ASSUME ChainInv, NEW q \in Request, HandlerHeader(q)
  PROVE  ChainInv'
<1>1. PICK a \in Answers :
        /\ answer' = [answer EXCEPT ![q] = a]
        /\ Becomes(q, GzWriteHeader([stack[q] EXCEPT !.hdr["Content-Type"] = a.type], a.status))
  BY Zenon DEF HandlerHeader
<1> DEFINE u == [stack[q] EXCEPT !.hdr["Content-Type"] = a.type]
           t == GzWriteHeader(u, a.status)
<1>0. /\ "Content-Type" \in HeaderName /\ "Vary" \in HeaderName /\ "X-Gordap-Cache" \in HeaderName
      /\ "Strict-Transport-Security" \in HeaderName /\ "Access-Control-Allow-Origin" \in HeaderName
      /\ "Content-Encoding" \in HeaderName
  BY Zenon DEF HeaderName
<1>2. TypeOK /\ RequestInv(q) /\ pc[q] = "handle" /\ answer[q] = None /\ Blank(q) /\ ~IsHit(q) /\ stack[q] \in Writers
  BY Zenon DEF ChainInv, HandlerHeader, RequestInv, TypeOK
<1>3. a # None /\ a.status \in Nat /\ a.type \in SUBSET HeaderValue
  BY ChainAssumption, NoneAssumption, Zenon DEF HeaderValue
<1>4. /\ u \in Writers /\ SameButHeaders(stack[q], u) /\ u.hdr["Content-Type"] = a.type
      /\ \A n \in HeaderName \ {"Content-Type"} : u.hdr[n] = stack[q].hdr[n]
  BY <1>0, <1>2, <1>3, Zenon DEF Writers, Headers, SameButHeaders
<1> HIDE DEF u
<1>5. /\ u.sent = None /\ u.wire = <<>> /\ u.buf = <<>> /\ u.gz = None /\ u.mode = stack[q].mode
      /\ u.mode \in {"off", "buffering"} /\ u.body = stack[q].body
      /\ u.hdr["Content-Encoding"] = {} /\ said[q] = <<>>
  BY <1>0, <1>2, <1>4, Zenon DEF SameButHeaders, Blank
<1>6. \A held : /\ t \in Writers /\ t.hdr = u.hdr /\ t.mode = u.mode /\ t.gz = u.gz /\ t.body = u.body
                /\ AsSent(t) /\ Carrying(t, held, <<>>, a.status, u.hdr["Content-Type"])
  BY <1>3, <1>4, <1>5, GzWriteHeaderKeeps, Zenon
<1>7. /\ answer' = [answer EXCEPT ![q] = a] /\ Becomes(q, t)
      /\ UNCHANGED <<pc, req, written, said, live, logged, poolVars, cache>>
  BY <1>1, Zenon DEF HandlerHeader, u
<1> HIDE DEF t
<1>8. t \in Writers
  BY <1>6, Zenon
<1>9. TypeOK'
  BY <1>2, <1>7, <1>8, Zenon DEF TypeOK, Becomes, poolVars
<1>10. pc'[q] = "handle" /\ stack'[q] = t /\ answer'[q] = a
  BY <1>2, <1>7, Zenon DEF TypeOK, Becomes
<1>11. Apart(q)
  BY <1>2, <1>7, Zenon DEF Apart, TypeOK, Becomes, poolVars
<1>12. CleanStays(q)
  BY <1>2, ZenonT(30) DEF CleanStays, Clean
<1>13. /\ AsSent(t) /\ t.hdr["Strict-Transport-Security"] # {} /\ t.hdr["Access-Control-Allow-Origin"] = {"*"}
       /\ t.hdr["X-Gordap-Cache"] # {"HIT"} /\ t.hdr["Vary"] = {"Origin", "Accept-Encoding"}
  <2>1. stack[q].hdr["Strict-Transport-Security"] # {} /\ stack[q].hdr["Access-Control-Allow-Origin"] = {"*"}
    BY <1>2, Zenon DEF ChainInv, HeadersInv
  <2>2. stack[q].hdr["X-Gordap-Cache"] # {"HIT"} /\ stack[q].hdr["Vary"] = {"Origin", "Accept-Encoding"}
    BY <1>2, Zenon DEF IsHit, RequestInv
  <2>3. \A n \in {"X-Gordap-Cache", "Vary", "Strict-Transport-Security", "Access-Control-Allow-Origin"} :
          n \in HeaderName \ {"Content-Encoding"}
    BY <1>0
  <2> QED BY <1>4, <1>6, <2>1, <2>2, <2>3, Zenon
<1>14. RequestInv(q)'
  <2>1. ~IsHit(q)' /\ Served(q)'
    BY <1>3, <1>10, <1>13, Zenon DEF IsHit, Served
  <2>2. Conveys(q, answer[q].status, answer[q].type)'
    <3>1. Carrying(t, comp[t.gz].held, <<>>, a.status, a.type)
      BY <1>4, <1>6, Zenon
    <3> QED BY <1>5, <1>7, <1>10, <3>1, Zenon DEF Conveys, Carrying, poolVars
  <2>3. t.mode # "off" => req[q] # None /\ req[q].gzip
    BY <1>2, <1>5, <1>6, Zenon DEF RequestInv
  <2>4. t.body = IF req[q].cacheable THEN said[q] ELSE None
    BY <1>2, <1>5, <1>6, Zenon DEF RequestInv
  <2>5. logged[q] = None
    BY <1>2, Zenon DEF RequestInv
  <2> QED BY <1>3, <1>7, <1>10, <1>13, <2>1, <2>2, <2>3, <2>4, <2>5, Zenon DEF RequestInv
<1>15. CacheInv'
  BY <1>7, <1>11, <1>12, CacheKeeps, Zenon
<1>16. PoolInv'
  <2>1. /\ stack'[q].gz = stack[q].gz /\ stack'[q].mode = stack[q].mode
    BY <1>2, <1>5, <1>6, <1>10, Zenon DEF Blank
  <2>2. Holds(q)' <=> Holds(q)
    BY <1>7, <2>1, Zenon DEF Holds
  <2> QED BY <1>7, <1>11, <2>1, <2>2, PoolKeeps, Zenon DEF poolVars
<1> QED BY <1>9, <1>10, <1>11, <1>12, <1>13, <1>14, <1>15, <1>16, StepKeeps, Zenon

\* A step that only moves q on leaves what its writers convey.
LEMMA MoveConveys ==
  ASSUME NEW q \in Request, UNCHANGED <<stack, said, comp>>,
         (pc'[q] \in {"handle", "unwind", "panicking"}) <=> (pc[q] \in {"handle", "unwind", "panicking"})
  PROVE  \A status, type : Conveys(q, status, type) => Conveys(q, status, type)'
BY Zenon DEF Conveys

\* The handler has written everything; the middleware may keep what the captureWriter has.
LEMMA HandlerReturnKeeps ==
  ASSUME ChainInv, NEW q \in Request, HandlerReturn(q)
  PROVE  ChainInv'
<1> DEFINE s == stack[q]
<1>1. TypeOK /\ RequestInv(q) /\ pc[q] = "handle" /\ answer[q] # None /\ answer[q] \in Answers /\ s \in Writers
  BY Zenon DEF ChainInv, HandlerReturn, TypeOK
<1>2. /\ ~IsHit(q) /\ Conveys(q, answer[q].status, answer[q].type) /\ logged[q] = None
      /\ s.body = IF req[q].cacheable THEN said[q] ELSE None
      /\ s.hdr["Vary"] = {"Origin", "Accept-Encoding"} /\ (s.mode # "off" => req[q] # None /\ req[q].gzip)
  BY <1>1, Zenon DEF RequestInv
<1>3. /\ Goto(q, "unwind") /\ written[q] = Len(answer[q].writes)
      /\ UNCHANGED <<req, stack, answer, written, said, live, logged, poolVars>>
  BY Zenon DEF HandlerReturn
<1>6. \/ cache' = cache
      \/ /\ s.body # None /\ answer[q].status \in 200..299
         /\ cache' = [status |-> answer[q].status, hdr |-> SnapshotHeaders(s.hdr), body |-> s.body]
  BY ZenonT(30) DEF HandlerReturn
<1>7. cache' \in {None} \cup Page
  <2>1. "Content-Type" \in HeaderName
    BY Zenon DEF HeaderName
  <2>2. SnapshotHeaders(s.hdr) \in [{"Content-Type"} -> SUBSET HeaderValue]
    BY <1>1, <2>1, Zenon DEF SnapshotHeaders, Writers, Headers
  <2>3. answer[q].status \in Nat
    BY <1>1, ChainAssumption, Zenon
  <2> QED BY <1>1, <1>6, <2>2, <2>3 DEF TypeOK, Page, Writers
<1>8. TypeOK'
  BY <1>1, <1>3, <1>7, Zenon DEF TypeOK, Goto, Place, poolVars
<1>9. pc'[q] = "unwind"
  BY <1>1, <1>3, Zenon DEF TypeOK, Goto
<1>10. Apart(q)
  BY <1>1, <1>3, Zenon DEF Apart, TypeOK, Goto, poolVars
<1>11. CleanStays(q)
  BY <1>1, Zenon DEF CleanStays, Clean
<1>12. AsSent(s) /\ s.hdr["Strict-Transport-Security"] # {} /\ s.hdr["Access-Control-Allow-Origin"] = {"*"}
  BY <1>1, Zenon DEF ChainInv, HeadersInv, AsSent
<1>13. RequestInv(q)'
  <2>1. ~IsHit(q)' /\ Served(q)'
    BY <1>1, <1>2, <1>3, Zenon DEF IsHit, Served
  <2>2. Conveys(q, answer[q].status, answer[q].type)'
    BY <1>1, <1>2, <1>3, <1>9, Zenon DEF Conveys, poolVars
  <2> QED BY <1>1, <1>2, <1>3, <1>9, <2>1, <2>2, Zenon DEF RequestInv
<1>14. CacheInv'
  <2>1. CASE cache' = cache
    BY <1>10, <1>11, <2>1, CacheKeeps, Zenon
  <2>2. CASE /\ s.body # None /\ answer[q].status \in 200..299
             /\ cache' = [status |-> answer[q].status, hdr |-> SnapshotHeaders(s.hdr), body |-> s.body]
    <3>1. Clean(q)'
      BY <1>1, <1>3, <1>9, <2>2, Zenon DEF Clean
    <3>2. s.body = said[q] /\ s.hdr["Content-Type"] = answer[q].type
      BY <1>2, <2>2, Zenon DEF Conveys
    <3>3. cache'.hdr["Content-Type"] = answer[q].type
      BY <2>2, <3>2, Zenon DEF SnapshotHeaders
    <3> QED BY <1>3, <2>2, <3>1, <3>2, <3>3, Zenon DEF CacheInv
  <2> QED BY <1>6, <2>1, <2>2, Zenon
<1>15. PoolInv'
  <2>1. Holds(q)' <=> Holds(q)
    BY <1>1, <1>3, <1>9, Zenon DEF Holds
  <2> QED BY <1>1, <1>3, <1>9, <1>10, <2>1, PoolKeeps, Zenon DEF poolVars
<1> QED BY <1>3, <1>8, <1>10, <1>11, <1>12, <1>13, <1>14, <1>15, StepKeeps, Zenon

\* A panic: the deferred calls are to run, the handler's header is sent or held back.
LEMMA HandlerPanicKeeps ==
  ASSUME ChainInv, NEW q \in Request, HandlerPanic(q)
  PROVE  ChainInv'
<1>1. TypeOK /\ RequestInv(q) /\ pc[q] = "handle"
  BY Zenon DEF ChainInv, HandlerPanic
<1>2. Goto(q, "panicking") /\ UNCHANGED <<req, stack, answer, written, said, live, logged, poolVars, cache>>
  BY Zenon DEF HandlerPanic
<1>3. TypeOK' /\ pc'[q] = "panicking"
  BY <1>1, <1>2, Zenon DEF TypeOK, Goto, Place, poolVars
<1>4. Apart(q)
  BY <1>1, <1>2, Zenon DEF Apart, TypeOK, Goto, poolVars
<1>5. CleanStays(q)
  BY <1>1, Zenon DEF CleanStays, Clean
<1>6. /\ AsSent(stack[q]) /\ stack[q].hdr["Strict-Transport-Security"] # {}
      /\ stack[q].hdr["Access-Control-Allow-Origin"] = {"*"}
  BY <1>1, Zenon DEF ChainInv, HeadersInv, AsSent
<1>7. RequestInv(q)'
  <2>1. ~IsHit(q) /\ ~IsHit(q)' /\ (Served(q)' <=> Served(q)) /\ (Blank(q)' <=> Blank(q))
    BY <1>1, <1>2, Zenon DEF IsHit, Served, Blank, RequestInv
  <2>2. \A status, type : Conveys(q, status, type) => Conveys(q, status, type)'
    BY <1>1, <1>2, <1>3, Zenon DEF Conveys, poolVars
  <2> QED BY <1>1, <1>2, <1>3, <2>1, <2>2, Zenon DEF RequestInv
<1>8. CacheInv'
  BY <1>2, <1>4, <1>5, CacheKeeps, Zenon
<1>9. PoolInv'
  <2>1. Holds(q)' <=> Holds(q)
    BY <1>1, <1>2, <1>3, Zenon DEF Holds
  <2> QED BY <1>1, <1>2, <1>3, <1>4, <2>1, PoolKeeps, Zenon DEF poolVars
<1> QED BY <1>2, <1>3, <1>4, <1>5, <1>6, <1>7, <1>8, <1>9, StepKeeps, Zenon

\* gzipWriter.Close with nothing compressed: what was held back goes out plain.
LEMMA ClosePlainKeeps ==
  ASSUME ChainInv, NEW q \in Request, ClosePlain(q)
  PROVE  ChainInv'
<1> DEFINE s == stack[q]
           t == stack'[q]
<1>1. /\ TypeOK /\ RequestInv(q) /\ PoolInv /\ pc[q] \in {"unwind", "panicking"}
      /\ s \in Writers /\ s.mode # "gzip" /\ s.gz = None
  <2>1. /\ TypeOK /\ RequestInv(q) /\ PoolInv /\ pc[q] \in {"unwind", "panicking"} /\ stack[q].mode # "gzip"
    BY Zenon DEF ChainInv, ClosePlain, Unwinding
  <2>2. stack[q] \in Writers
    BY <2>1, Zenon DEF TypeOK
  <2>3. stack[q].gz = None
    BY <2>1, Zenon DEF PoolInv
  <2> QED BY <2>1, <2>2, <2>3, Zenon
<1>2. /\ Becomes(q, IF s.mode = "buffering" THEN WritePlain(s) ELSE s)
      /\ UNCHANGED <<req, answer, written, said, live, logged, poolVars, cache>>
      /\ Goto(q, IF pc[q] = "unwind" THEN "leave" ELSE "abort")
  BY Zenon DEF ClosePlain
<1>3. AsSent(s) /\ s.hdr["Strict-Transport-Security"] # {} /\ s.hdr["Access-Control-Allow-Origin"] = {"*"}
  BY <1>1, Zenon DEF ChainInv, HeadersInv, AsSent
<1>4. s.mode = "buffering" => s.sent = None /\ s.wire = <<>>
  <2>1. CASE answer[q] # None
    BY <1>1, <2>1, Zenon DEF RequestInv, Conveys
  <2>2. CASE answer[q] = None /\ pc[q] = "panicking"
    BY <1>1, <2>2, Zenon DEF RequestInv, Blank
  <2>3. CASE answer[q] = None /\ pc[q] = "unwind"
    <3>1. IsHit(q)
      BY <1>1, <2>3, Zenon DEF RequestInv, Served
    <3>2. PICK p \in Request : Conveys(q, answer[p].status, answer[p].type)
      BY <1>1, <3>1, Zenon DEF RequestInv
    <3> QED BY <3>2, Zenon DEF Conveys
  <2> QED BY <1>1, <2>1, <2>2, <2>3, Zenon
<1>5. /\ t \in Writers /\ AsSent(t) /\ t.hdr = s.hdr /\ t.gz = None /\ t.mode \notin {"gzip", "buffering"}
      /\ (t.mode # "off" => s.mode # "off") /\ (s.mode # "buffering" => t = s)
      /\ s.mode = "buffering" => /\ t.mode = "plain" /\ t.sent # None /\ t.status = s.code
                                 /\ t.wire = Coded("plain", s.buf)
  <2>1. CASE s.mode = "buffering"
    <3> DEFINE w == WritePlain(s)
    <3>1. /\ w \in Writers /\ w.hdr = s.hdr /\ w.wire = Coded("plain", s.buf)
          /\ w.status = s.code /\ w.sent = [status |-> s.code, hdr |-> s.hdr] /\ w.sent # None
          /\ w.mode = "plain" /\ w.gz = s.gz
      BY <1>1, <1>4, <2>1, WritePlainKeeps, Zenon
    <3>2. t = w
      BY <1>1, <1>2, <2>1, Zenon DEF Becomes, TypeOK
    <3> HIDE DEF w, t
    <3>3. AsSent(w)
      BY <3>1 DEF AsSent
    <3> QED BY <1>1, <2>1, <3>1, <3>2, <3>3, Zenon
  <2>2. CASE s.mode # "buffering"
    <3>1. t = s
      BY <1>1, <1>2, <2>2, Zenon DEF Becomes, TypeOK
    <3> QED BY <1>1, <1>3, <2>2, <3>1, Zenon
  <2> QED BY <2>1, <2>2, Zenon
<1>6. stack' = [stack EXCEPT ![q] = t]
  BY <1>1, <1>2, Zenon DEF Becomes, TypeOK
<1>7. pc'[q] = IF pc[q] = "unwind" THEN "leave" ELSE "abort"
  BY <1>1, <1>2, Zenon DEF Goto, TypeOK
<1> HIDE DEF t
<1>8. TypeOK'
  BY <1>1, <1>2, <1>5, <1>6, Zenon DEF TypeOK, Goto, Place, poolVars
<1>9. Apart(q)
  BY <1>1, <1>2, <1>6, Zenon DEF Apart, TypeOK, Goto, poolVars
<1>10. CleanStays(q)
  BY <1>1, <1>2, <1>7, Zenon DEF CleanStays, Clean
<1>11. RequestInv(q)'
  <2>1. (IsHit(q)' <=> IsHit(q)) /\ (Served(q)' <=> Served(q))
    BY <1>2, <1>5, Zenon DEF IsHit, Served, t
  <2>2. ASSUME NEW status, NEW type, Conveys(q, status, type)
        PROVE  Conveys(q, status, type)' /\ t.sent # None
    BY <1>1, <1>2, <1>5, <2>2, Zenon DEF Conveys, t
  <2>3. answer[q] # None => Conveys(q, answer[q].status, answer[q].type)' /\ t.sent # None
    BY <1>1, <1>2, <2>2, Zenon DEF RequestInv
  <2>4. IsHit(q) => /\ t.sent # None
                    /\ \E p \in Request \ {q} :
                         (Clean(p) /\ said[q] = said[p] /\ Conveys(q, answer[p].status, answer[p].type))'
    <3> SUFFICES ASSUME IsHit(q)
                 PROVE  /\ t.sent # None
                        /\ \E p \in Request \ {q} :
                             (Clean(p) /\ said[q] = said[p] /\ Conveys(q, answer[p].status, answer[p].type))'
      BY Zenon
    <3>1. PICK p \in Request \ {q} :
            Clean(p) /\ said[q] = said[p] /\ Conveys(q, answer[p].status, answer[p].type)
      BY <1>1, Zenon DEF RequestInv
    <3>2. Clean(p)'
      BY <1>2, <1>9, <3>1, Zenon DEF Apart, Clean
    <3>3. Conveys(q, answer[p].status, answer[p].type)' /\ t.sent # None
      BY <1>2, <2>2, <3>1, Zenon
    <3> QED BY <1>2, <3>1, <3>2, <3>3, Zenon
  <2>5. CASE pc[q] = "unwind"
    <3>1. Served(q) /\ t.sent # None
      BY <1>1, <2>3, <2>4, <2>5, Zenon DEF RequestInv, Served
    <3> QED BY <1>1, <1>2, <1>5, <1>7, <2>1, <2>3, <2>4, <2>5, <3>1, Zenon DEF RequestInv, t
  <2>6. CASE pc[q] = "panicking"
    BY <1>1, <1>2, <1>5, <1>7, <2>1, <2>3, <2>6, Zenon DEF RequestInv, t
  <2> QED BY <1>1, <2>5, <2>6, Zenon
<1>12. CacheInv'
  BY <1>2, <1>9, <1>10, CacheKeeps, Zenon
<1>13. PoolInv'
  <2>1. ~Holds(q)' /\ ~Holds(q)
    BY <1>1, <1>5, Zenon DEF Holds, t
  <2> QED BY <1>1, <1>2, <1>5, <1>7, <1>9, <2>1, PoolKeeps, Zenon DEF poolVars, t
<1> QED BY <1>3, <1>5, <1>8, <1>9, <1>10, <1>11, <1>12, <1>13, StepKeeps, ZenonT(30) DEF t

\* gzipWriter.Close of a compressed answer: the compressor, which writes to this request
\* and no other, writes out all that the handler said, and the end mark.
LEMMA CloseKeeps ==
  ASSUME ChainInv, NEW q \in Request, Close(q)
  PROVE  ChainInv'
<1> DEFINE s == stack[q]
           c == s.gz
           units == Append(comp[c].held, Mark)
           w == Write(s, Coded("gzip", units))
<1>1. /\ TypeOK /\ RequestInv(q) /\ PoolInv /\ pc[q] \in {"unwind", "panicking"} /\ s \in Writers /\ s.mode = "gzip"
  BY Zenon DEF ChainInv, Close, Unwinding, TypeOK
<1>2. /\ Goto(q, IF pc[q] = "unwind" THEN "put" ELSE "putting")
      /\ stack' = [stack EXCEPT ![comp[c].to] = Write(@, Coded("gzip", units))]
      /\ comp' = [comp EXCEPT ![c] = [@ EXCEPT !.held = <<>>, !.closed = TRUE]]
      /\ UNCHANGED <<req, answer, written, said, live, logged, heap, pool, cache>>
  BY Zenon DEF Close
<1>3. c # None /\ c \in Compressor /\ Holds(q) /\ comp[c].to = q /\ c \in heap \ pool
  <2>1. c # None
    BY <1>1, Zenon DEF PoolInv
  <2>2. Holds(q)
    BY <1>1, <2>1, Zenon DEF Holds
  <2>3. c \in heap \ pool /\ comp[c].to = q
    BY <1>1, <2>2, Zenon DEF PoolInv
  <2> QED BY <1>1, <2>1, <2>2, <2>3, Zenon DEF TypeOK
<1>4. comp[c] \in [to : {None} \cup Request, held : Seq(Unit), closed : BOOLEAN] /\ comp[c].held \in Seq(Unit)
  BY <1>1, <1>3, Zenon DEF TypeOK
<1>5. units \in Seq(Unit)
  <2>1. Mark \in Unit
    BY Zenon DEF Mark, Unit
  <2> QED BY <1>4, <2>1, Extended, Zenon
<1>6. s.sent # None /\ s.wire = <<>> /\ comp[c].held = said[q]
  <2>1. ASSUME NEW status, NEW type, Conveys(q, status, type)
        PROVE  s.sent # None /\ s.wire = <<>> /\ comp[c].held = said[q]
    BY <1>1, <2>1, Zenon DEF Conveys
  <2>2. CASE answer[q] # None
    BY <1>1, <2>1, <2>2, Zenon DEF RequestInv
  <2>3. CASE answer[q] = None /\ pc[q] = "panicking"
    BY <1>1, <2>3, Zenon DEF RequestInv, Blank
  <2>4. CASE answer[q] = None /\ pc[q] = "unwind"
    <3>1. IsHit(q)
      BY <1>1, <2>4, Zenon DEF RequestInv, Served
    <3>2. PICK p \in Request : Conveys(q, answer[p].status, answer[p].type)
      BY <1>1, <3>1, Zenon DEF RequestInv
    <3> QED BY <2>1, <3>2, Zenon
  <2> QED BY <1>1, <2>2, <2>3, <2>4, Zenon
<1> HIDE DEF units
<1>7. /\ w \in Writers /\ w.hdr = s.hdr /\ w.wire = Coded("gzip", units) /\ w.status = s.status
      /\ w.sent = s.sent /\ w.code = s.code /\ w.mode = "gzip" /\ w.buf = s.buf /\ w.gz = c
  <2>1. /\ w \in Writers /\ w.hdr = s.hdr /\ w.wire = s.wire \o Coded("gzip", units) /\ w.status = s.status
        /\ w.sent = s.sent /\ w.code = s.code /\ w.mode = s.mode /\ w.buf = s.buf /\ w.gz = s.gz
    BY <1>1, <1>5, <1>6, WriteKeeps, Zenon
  <2>2. <<>> \o Coded("gzip", units) = Coded("gzip", units)
    BY <1>5, CodedType, NothingBefore, Zenon
  <2> HIDE DEF w
  <2> QED BY <1>1, <1>6, <2>1, <2>2, Zenon
<1>8. stack' = [stack EXCEPT ![q] = w] /\ stack'[q] = w
  BY <1>1, <1>2, <1>3, Zenon DEF TypeOK
<1> HIDE DEF w
<1>9. /\ comp'[c].closed /\ comp'[c].to = q /\ \A d \in Compressor \ {c} : comp'[d] = comp[d]
      /\ comp' \in [Compressor -> [to : {None} \cup Request, held : Seq(Unit), closed : BOOLEAN]]
  <2>1. <<>> \in Seq(Unit)
    OBVIOUS
  <2> QED BY <1>1, <1>2, <1>3, <1>4, <2>1, Zenon DEF TypeOK
<1>10. pc'[q] = IF pc[q] = "unwind" THEN "put" ELSE "putting"
  BY <1>1, <1>2, Zenon DEF Goto, TypeOK
<1>11. TypeOK'
  BY <1>1, <1>2, <1>7, <1>8, <1>9 DEF TypeOK, Goto, Place
<1>12. Apart(q)
  <2>1. \A r \in Request \ {q} : Holds(r) => stack[r].gz # c /\ stack[r].gz \in Compressor
    BY <1>1, <1>3 DEF PoolInv, TypeOK
  <2> QED BY <1>1, <1>2, <1>8, <1>9, <2>1 DEF Apart, TypeOK, Goto
<1>13. CleanStays(q)
  BY <1>1, <1>2, <1>10, Zenon DEF CleanStays, Clean
<1>14. AsSent(w) /\ w.hdr["Strict-Transport-Security"] # {} /\ w.hdr["Access-Control-Allow-Origin"] = {"*"}
  BY <1>1, <1>7, Zenon DEF ChainInv, HeadersInv, AsSent
<1>15. RequestInv(q)'
  <2>1. (IsHit(q)' <=> IsHit(q)) /\ (Served(q)' <=> Served(q))
    BY <1>2, <1>7, <1>8, Zenon DEF IsHit, Served
  <2>2. ASSUME NEW status, NEW type, Conveys(q, status, type)
        PROVE  Conveys(q, status, type)'
    BY <1>1, <1>2, <1>6, <1>7, <1>8, <1>10, <2>2, Zenon DEF Conveys, units
  <2>3. answer[q] # None => Conveys(q, answer[q].status, answer[q].type)'
    BY <1>1, <1>2, <2>2, Zenon DEF RequestInv
  <2>4. IsHit(q) => \E p \in Request \ {q} :
                      (Clean(p) /\ said[q] = said[p] /\ Conveys(q, answer[p].status, answer[p].type))'
    <3> SUFFICES ASSUME IsHit(q)
                 PROVE  \E p \in Request \ {q} :
                          (Clean(p) /\ said[q] = said[p] /\ Conveys(q, answer[p].status, answer[p].type))'
      BY Zenon
    <3>1. PICK p \in Request \ {q} :
            Clean(p) /\ said[q] = said[p] /\ Conveys(q, answer[p].status, answer[p].type)
      BY <1>1, Zenon DEF RequestInv
    <3>2. Clean(p)'
      BY <1>2, <1>12, <3>1, Zenon DEF Apart, Clean
    <3>3. Conveys(q, answer[p].status, answer[p].type)'
      BY <1>2, <2>2, <3>1, Zenon
    <3> QED BY <1>2, <3>1, <3>2, <3>3, Zenon
  <2>5. CASE pc[q] = "unwind"
    BY <1>1, <1>2, <1>7, <1>8, <1>10, <2>1, <2>3, <2>4, <2>5, Zenon DEF RequestInv
  <2>6. CASE pc[q] = "panicking"
    BY <1>1, <1>2, <1>7, <1>8, <1>10, <2>1, <2>3, <2>6, Zenon DEF RequestInv
  <2> QED BY <1>1, <2>5, <2>6, Zenon
<1>16. CacheInv'
  BY <1>2, <1>12, <1>13, CacheKeeps, Zenon
<1>17. PoolInv'
  <2>0. heap' = heap /\ pool' = pool
    BY <1>2, Zenon
  <2>1. \A r \in Request : stack'[r].gz = stack[r].gz /\ stack'[r].mode = stack[r].mode /\ (Holds(r)' <=> Holds(r))
    <3>1. Holds(q)' /\ Holds(q)
      BY <1>3, <1>7, <1>8, <1>10, Zenon DEF Holds
    <3>2. stack'[q].gz = stack[q].gz /\ stack'[q].mode = stack[q].mode
      BY <1>1, <1>7, <1>8, Zenon
    <3>3. \A r \in Request \ {q} : stack'[r] = stack[r] /\ (Holds(r)' <=> Holds(r))
      BY <1>12, Zenon DEF Apart, Holds
    <3> QED BY <3>1, <3>2, <3>3, Zenon
  <2>2. \A d \in pool' : comp'[d].closed
    BY <1>1, <2>0, <1>9, ZenonT(30) DEF PoolInv, TypeOK
  <2>3. \A d \in heap' \ pool' : \E r \in Request : Holds(r)' /\ stack'[r].gz = d
    BY <1>1, <2>0, <2>1 DEF PoolInv
  <2>4. ASSUME NEW r \in Request
        PROVE  /\ stack'[r].mode = "gzip" <=> stack'[r].gz # None
               /\ Holds(r)' => LET g == stack'[r].gz
                               IN  /\ g \in heap' \ pool' /\ comp'[g].to = r
                                   /\ comp'[g].closed <=> pc'[r] \in {"put", "putting"}
    <3>1. CASE r = q
      BY <1>1, <1>2, <1>3, <1>7, <1>8, <1>9, <1>10, <3>1
    <3>2. CASE r # q
      <4>1. Holds(r) => comp'[stack[r].gz] = comp[stack[r].gz]
        BY <1>12, <3>2, Zenon DEF Apart
      <4>2. pc'[r] = pc[r]
        BY <1>12, <3>2, Zenon DEF Apart
      <4> QED BY <1>1, <2>0, <2>1, <4>1, <4>2 DEF PoolInv
    <3> QED BY <3>1, <3>2, Zenon
  <2> QED BY <2>2, <2>3, <2>4, Zenon DEF PoolInv
<1> QED BY <1>8, <1>11, <1>12, <1>13, <1>14, <1>15, <1>16, <1>17, StepKeeps, Zenon

\* The compressor goes back to the pool, closed.
LEMMA PutKeeps ==
  ASSUME ChainInv, NEW q \in Request, Put(q)
  PROVE  ChainInv'
<1> DEFINE s == stack[q]
           c == s.gz
<1>1. /\ TypeOK /\ RequestInv(q) /\ PoolInv /\ pc[q] \in {"put", "putting"} /\ s.mode = "gzip"
  BY Zenon DEF ChainInv, Put, RequestInv
<1>2. /\ Goto(q, IF pc[q] = "put" THEN "leave" ELSE "abort") /\ pool' = pool \cup {c}
      /\ UNCHANGED <<req, stack, answer, written, said, live, logged, heap, comp, cache>>
  BY Zenon DEF Put
<1>3. c # None /\ Holds(q) /\ comp[c].to = q /\ comp[c].closed /\ c \in heap \ pool
  <2>1. c # None
    BY <1>1, Zenon DEF PoolInv
  <2>2. Holds(q)
    BY <1>1, <2>1, Zenon DEF Holds
  <2> QED BY <1>1, <2>1, <2>2, Zenon DEF PoolInv
<1>4. pc'[q] = IF pc[q] = "put" THEN "leave" ELSE "abort"
  BY <1>1, <1>2, Zenon DEF Goto, TypeOK
<1>5. TypeOK'
  BY <1>1, <1>2, <1>3, Zenon DEF TypeOK, Goto, Place
<1>6. Apart(q)
  BY <1>1, <1>2, Zenon DEF Apart, TypeOK, Goto
<1>7. CleanStays(q)
  BY <1>1, <1>2, <1>4, Zenon DEF CleanStays, Clean
<1>8. AsSent(s) /\ s.hdr["Strict-Transport-Security"] # {} /\ s.hdr["Access-Control-Allow-Origin"] = {"*"}
  BY <1>1, Zenon DEF ChainInv, HeadersInv, AsSent
<1>9. RequestInv(q)'
  <2>1. (IsHit(q)' <=> IsHit(q)) /\ (Served(q)' <=> Served(q))
    BY <1>2, Zenon DEF IsHit, Served
  <2>2. ASSUME NEW status, NEW type, Conveys(q, status, type)
        PROVE  Conveys(q, status, type)' /\ s.sent # None
    <3>1. Conveys(q, status, type)'
      BY <1>1, <1>2, <1>4, <2>2, MoveConveys, Zenon
    <3> QED BY <1>1, <2>2, <3>1, Zenon DEF Conveys
  <2>3. answer[q] # None => Conveys(q, answer[q].status, answer[q].type)' /\ s.sent # None
    BY <1>1, <1>2, <2>2, Zenon DEF RequestInv
  <2>4. IsHit(q) => /\ s.sent # None
                    /\ \E p \in Request \ {q} :
                         (Clean(p) /\ said[q] = said[p] /\ Conveys(q, answer[p].status, answer[p].type))'
    <3> SUFFICES ASSUME IsHit(q)
                 PROVE  /\ s.sent # None
                        /\ \E p \in Request \ {q} :
                             (Clean(p) /\ said[q] = said[p] /\ Conveys(q, answer[p].status, answer[p].type))'
      BY Zenon
    <3>1. PICK p \in Request \ {q} :
            Clean(p) /\ said[q] = said[p] /\ Conveys(q, answer[p].status, answer[p].type)
      BY <1>1, Zenon DEF RequestInv
    <3>2. Clean(p)'
      BY <1>2, <1>6, <3>1, Zenon DEF Apart, Clean
    <3>3. Conveys(q, answer[p].status, answer[p].type)' /\ s.sent # None
      BY <1>2, <2>2, <3>1, Zenon
    <3> QED BY <1>2, <3>1, <3>2, <3>3, Zenon
  <2>5. CASE pc[q] = "put"
    <3>1. s.sent # None
      BY <1>1, <2>3, <2>4, <2>5, Zenon DEF RequestInv, Served
    <3> QED BY <1>1, <1>2, <1>4, <2>1, <2>3, <2>4, <2>5, <3>1, Zenon DEF RequestInv
  <2>6. CASE pc[q] = "putting"
    BY <1>1, <1>2, <1>4, <2>1, <2>3, <2>4, <2>6, Zenon DEF RequestInv
  <2> QED BY <1>1, <2>5, <2>6, Zenon
<1>10. CacheInv'
  BY <1>2, <1>6, <1>7, CacheKeeps, Zenon
<1>11. PoolInv'
  <2>1. ~Holds(q)' /\ \A r \in Request \ {q} : pc'[r] = pc[r] /\ (Holds(r)' <=> Holds(r))
    BY <1>1, <1>2, <1>4, <1>6, Zenon DEF Apart, Holds
  <2>2. \A d \in pool' : comp'[d].closed
    BY <1>1, <1>2, <1>3, ZenonT(30) DEF PoolInv
  <2>3. \A d \in heap' \ pool' : \E r \in Request : Holds(r)' /\ stack'[r].gz = d
    BY <1>1, <1>2, <2>1 DEF PoolInv
  <2>4. ASSUME NEW r \in Request
        PROVE  /\ stack'[r].mode = "gzip" <=> stack'[r].gz # None
               /\ Holds(r)' => LET g == stack'[r].gz
                               IN  /\ g \in heap' \ pool' /\ comp'[g].to = r
                                   /\ comp'[g].closed <=> pc'[r] \in {"put", "putting"}
    <3>1. CASE r = q
      BY <1>1, <1>2, <2>1, <3>1, Zenon DEF PoolInv
    <3>2. CASE r # q
      <4>1. Holds(r) => stack[r].gz # c
        BY <1>1, <1>3, <3>2 DEF PoolInv
      <4> QED BY <1>1, <1>2, <2>1, <3>2, <4>1, Zenon DEF PoolInv
    <3> QED BY <3>1, <3>2, Zenon
  <2> QED BY <2>2, <2>3, <2>4, Zenon DEF PoolInv
<1> QED BY <1>2, <1>5, <1>6, <1>7, <1>8, <1>9, <1>10, <1>11, StepKeeps, Zenon

\* The request ends, with its record, or by a panic, without one; its context is cancelled.
LEMMA EndKeeps ==
  ASSUME ChainInv, NEW q \in Request, Leave(q) \/ Abort(q)
  PROVE  ChainInv'
<1> DEFINE s == stack[q]
<1>1. /\ TypeOK /\ RequestInv(q) /\ PoolInv /\ pc[q] \in {"leave", "abort"} /\ s \in Writers
  BY Zenon DEF ChainInv, Leave, Abort, TypeOK
<1>2. /\ live' = live \ {q} /\ UNCHANGED <<req, stack, answer, written, said, poolVars, cache>>
      /\ pc[q] = "leave" => Goto(q, "done") /\ logged' = [logged EXCEPT ![q] = s.status]
      /\ pc[q] = "abort" => Goto(q, "dropped") /\ logged' = logged
  BY Zenon DEF Leave, Abort
<1>3. /\ pc'[q] = IF pc[q] = "leave" THEN "done" ELSE "dropped"
      /\ logged'[q] = IF pc[q] = "leave" THEN s.status ELSE None
  BY <1>1, <1>2, Zenon DEF Goto, TypeOK, RequestInv
<1>4. TypeOK'
  <2>1. s.status \in Nat
    BY <1>1, Zenon DEF Writers
  <2> QED BY <1>1, <1>2, <2>1, Zenon DEF TypeOK, Goto, Place, poolVars
<1>5. Apart(q)
  BY <1>1, <1>2, Zenon DEF Apart, TypeOK, Goto, poolVars
<1>6. CleanStays(q)
  BY <1>1, <1>2, <1>3, Zenon DEF CleanStays, Clean
<1>7. AsSent(s) /\ s.hdr["Strict-Transport-Security"] # {} /\ s.hdr["Access-Control-Allow-Origin"] = {"*"}
  BY <1>1, Zenon DEF ChainInv, HeadersInv, AsSent
<1>8. RequestInv(q)'
  <2>1. (IsHit(q)' <=> IsHit(q)) /\ (Served(q)' <=> Served(q))
    BY <1>2, Zenon DEF IsHit, Served
  <2>2. ASSUME NEW status, NEW type, Conveys(q, status, type)
        PROVE  Conveys(q, status, type)'
    BY <1>1, <1>2, <1>3, <2>2, MoveConveys, Zenon DEF poolVars
  <2>3. answer[q] # None => Conveys(q, answer[q].status, answer[q].type)'
    BY <1>1, <1>2, <2>2, Zenon DEF RequestInv
  <2>4. IsHit(q) => \E p \in Request \ {q} :
                      (Clean(p) /\ said[q] = said[p] /\ Conveys(q, answer[p].status, answer[p].type))'
    <3> SUFFICES ASSUME IsHit(q)
                 PROVE  \E p \in Request \ {q} :
                          (Clean(p) /\ said[q] = said[p] /\ Conveys(q, answer[p].status, answer[p].type))'
      BY Zenon
    <3>1. PICK p \in Request \ {q} :
            Clean(p) /\ said[q] = said[p] /\ Conveys(q, answer[p].status, answer[p].type)
      BY <1>1, Zenon DEF RequestInv
    <3>2. Clean(p)'
      BY <1>2, <1>5, <3>1, Zenon DEF Apart, Clean
    <3>3. Conveys(q, answer[p].status, answer[p].type)'
      BY <1>2, <2>2, <3>1, Zenon
    <3> QED BY <1>2, <3>1, <3>2, <3>3, Zenon
  <2>5. CASE pc[q] = "leave"
    BY <1>1, <1>2, <1>3, <2>1, <2>3, <2>4, <2>5, Zenon DEF RequestInv
  <2>6. CASE pc[q] = "abort"
    BY <1>1, <1>2, <1>3, <2>1, <2>3, <2>4, <2>6, Zenon DEF RequestInv
  <2> QED BY <1>1, <2>5, <2>6, Zenon
<1>9. CacheInv'
  BY <1>2, <1>5, <1>6, CacheKeeps, Zenon
<1>10. PoolInv'
  <2>1. ~Holds(q) /\ ~Holds(q)'
    BY <1>1, <1>2, <1>3, Zenon DEF Holds
  <2> QED BY <1>1, <1>2, <1>3, <1>5, <2>1, PoolKeeps, Zenon DEF poolVars
<1> QED BY <1>2, <1>4, <1>5, <1>6, <1>7, <1>8, <1>9, <1>10, StepKeeps, Zenon

\* Steps of no request: the cache gives up its page, the pool a compressor, or nothing
\* happens at all.
LEMMA BackgroundKeeps ==
  ASSUME ChainInv, Evict \/ (\E c \in Compressor : Collect(c)) \/ UNCHANGED vars
  PROVE  ChainInv'
<1>1. TypeOK /\ PoolInv /\ HeadersInv /\ None \notin Request
  BY NoneAssumption, Zenon DEF ChainInv
<1>2. UNCHANGED <<pc, req, stack, answer, written, said, live, logged>>
  BY Zenon DEF Evict, Collect, vars
<1>3. CASE \E c \in Compressor : Collect(c)
  <2>1. PICK c \in Compressor : Collect(c)
    BY <1>3, Zenon
  <2>2. /\ c \in pool /\ pool' = pool \ {c} /\ heap' = heap \ {c} /\ cache' = cache
        /\ comp' = [comp EXCEPT ![c] = Unused]
    BY <2>1, Zenon DEF Collect
  <2>3. /\ comp' \in [Compressor -> [to : {None} \cup Request, held : Seq(Unit), closed : BOOLEAN]]
        /\ \A d \in Compressor \ {c} : comp'[d] = comp[d]
    <3>1. <<>> \in Seq(Unit)
      OBVIOUS
    <3> QED BY <1>1, <2>2, <3>1, Zenon DEF TypeOK, Unused
  <2>4. TypeOK'
    BY <1>1, <1>2, <2>2, <2>3, Zenon DEF TypeOK
  <2>5. \A r \in Request : /\ (Holds(r)' <=> Holds(r))
                           /\ Holds(r) => stack[r].gz \in Compressor /\ stack[r].gz # c
    BY <1>1, <1>2, <2>2 DEF Holds, PoolInv, TypeOK
  <2>6. Apart(None) /\ CleanStays(None)
    BY <1>1, <1>2, <2>3, <2>5, Zenon DEF Apart, CleanStays
  <2>7. CacheInv' /\ \A r \in Request : RequestInv(r)'
    BY <1>1, <2>2, <2>6, CacheKeeps, OthersKeep, Zenon
  <2>8. HeadersInv'
    BY <1>1, <1>2, Zenon DEF HeadersInv
  <2>9. pool' = pool \ {c} /\ heap' = heap \ {c} /\ c \in pool
    BY <2>2, ZenonT(30)
  <2>10. PoolInv'
    BY <1>1, <1>2, <2>3, <2>5, <2>9 DEF PoolInv, TypeOK
  <2> QED BY <2>4, <2>7, <2>8, <2>10, Zenon DEF ChainInv
<1>4. CASE UNCHANGED poolVars /\ cache' \in {cache, None}
  <2>1. TypeOK'
    BY <1>1, <1>2, <1>4, Zenon DEF TypeOK, poolVars
  <2>2. \A r \in Request : Holds(r)' <=> Holds(r)
    BY <1>2, Zenon DEF Holds
  <2>3. Apart(None) /\ CleanStays(None)
    BY <1>1, <1>2, <1>4, Zenon DEF Apart, CleanStays, poolVars
  <2>4. CacheInv'
    BY <1>4, <2>3, CacheKeeps, Zenon DEF CacheInv
  <2>5. \A r \in Request : RequestInv(r)'
    BY <1>1, <2>3, OthersKeep, Zenon
  <2>6. HeadersInv'
    BY <1>1, <1>2, ZenonT(30) DEF HeadersInv
  <2>7. PoolInv'
    BY <1>1, <1>2, <1>4, <2>2 DEF PoolInv, poolVars
  <2> QED BY <2>1, <2>4, <2>5, <2>6, <2>7, Zenon DEF ChainInv
<1> QED BY <1>3, <1>4, Zenon DEF Evict, vars

\* The inductive invariant of the chain holds in every state: the writers of every request
\* carry all that was said on it, the cache's page is a clean answer, and every compressor
\* has one owner.
THEOREM ChainInvariant == Spec => []ChainInv
<1>1. Init => ChainInv
  <2> SUFFICES ASSUME Init PROVE ChainInv
    BY Zenon
  <2>1. /\ Fresh \in Writers /\ Fresh.sent = None /\ Fresh.wire = <<>> /\ Fresh.buf = <<>>
        /\ Fresh.mode = "off" /\ Fresh.gz = None /\ \A n \in HeaderName : Fresh.hdr[n] = {}
    <3>1. <<>> \in Seq(Unit) /\ <<>> \in Seq({"plain", "gzip"} \X Unit)
      OBVIOUS
    <3>2. [n \in HeaderName |-> {}] \in Headers
      BY Zenon DEF Headers
    <3> QED BY <3>1, <3>2, ZenonT(30) DEF Fresh, Writers
  <2>2. Unused \in [to : {None} \cup Request, held : Seq(Unit), closed : BOOLEAN]
    BY DEF Unused
  <2>3. TypeOK
    <3>1. <<>> \in Seq(Unit)
      OBVIOUS
    <3> QED BY <2>1, <2>2, <3>1, Zenon DEF Init, TypeOK, Place
  <2>4. HeadersInv
    BY <2>1, Zenon DEF Init, HeadersInv
  <2>5. ASSUME NEW q \in Request PROVE RequestInv(q)
    <3>1. /\ "Vary" \in HeaderName /\ "Content-Encoding" \in HeaderName /\ "X-Gordap-Cache" \in HeaderName
      BY Zenon DEF HeaderName
    <3>2. stack[q] = Fresh /\ pc[q] = "new" /\ answer[q] = None /\ said[q] = <<>> /\ written[q] = 0
          /\ logged[q] = None /\ q \notin live
      BY Zenon DEF Init
    <3>3. ~IsHit(q) /\ ~Served(q) /\ Blank(q)
      BY <2>1, <3>1, <3>2, Zenon DEF IsHit, Served, Blank
    <3> QED BY <2>1, <3>1, <3>2, <3>3, Zenon DEF RequestInv
  <2>6. CacheInv
    BY Zenon DEF Init, CacheInv
  <2>7. PoolInv
    BY <2>1, Zenon DEF Init, PoolInv, Holds
  <2> QED BY <2>3, <2>4, <2>5, <2>6, <2>7, Zenon DEF ChainInv
<1>2. ChainInv /\ [Next]_vars => ChainInv'
  <2> SUFFICES ASSUME ChainInv, [Next]_vars PROVE ChainInv'
    BY Zenon
  <2>1. CASE Evict \/ (\E c \in Compressor : Collect(c)) \/ UNCHANGED vars
    BY <2>1, BackgroundKeeps, Zenon
  <2>2. ASSUME NEW q \in Request, NEW r \in Queries,
               Preflight(q, r) \/ Limit(q, r) \/ TooLarge(q, r) \/ Enter(q, r)
        PROVE  ChainInv'
    BY <2>2, ArrivalsKeep, Zenon
  <2>3. ASSUME NEW q \in Request, Hit(q) PROVE ChainInv'
    BY <2>3, HitKeeps, Zenon
  <2>4. ASSUME NEW q \in Request, Route(q) PROVE ChainInv'
    BY <2>4, RouteKeeps
  <2>5. ASSUME NEW q \in Request, HandlerHeader(q) PROVE ChainInv'
    BY <2>5, HandlerHeaderKeeps, Zenon
  <2>6. ASSUME NEW q \in Request, HandlerWrite(q) PROVE ChainInv'
    BY <2>6, HandlerWriteKeeps, Zenon
  <2>7. ASSUME NEW q \in Request, HandlerReturn(q) PROVE ChainInv'
    BY <2>7, HandlerReturnKeeps, Zenon
  <2>8. ASSUME NEW q \in Request, HandlerPanic(q) PROVE ChainInv'
    BY <2>8, HandlerPanicKeeps, Zenon
  <2>9. ASSUME NEW q \in Request, ClosePlain(q) PROVE ChainInv'
    BY <2>9, ClosePlainKeeps, Zenon
  <2>10. ASSUME NEW q \in Request, Close(q) PROVE ChainInv'
    BY <2>10, CloseKeeps, Zenon
  <2>11. ASSUME NEW q \in Request, Put(q) PROVE ChainInv'
    BY <2>11, PutKeeps, Zenon
  <2>12. ASSUME NEW q \in Request, Leave(q) \/ Abort(q) PROVE ChainInv'
    BY <2>12, EndKeeps, Zenon
  <2> QED BY <2>1, <2>2, <2>3, <2>4, <2>5, <2>6, <2>7, <2>8, <2>9, <2>10, <2>11, <2>12, Zenon DEF Next
<1> QED BY <1>1, <1>2, PTL DEF Spec

\* Every request the router served gets the status, the type and the whole body its handler
\* wrote, or on a hit those of a clean earlier answer, in a coding that it accepts: for any
\* answers, any sizes of the writes and any threshold of Gzip.
THEOREM AnswersArriveIntact == Spec => []AnswerIntact
<1>1. ChainInv => AnswerIntact
  <2> SUFFICES ASSUME ChainInv, NEW q \in Request, pc[q] = "done", Served(q)
               PROVE  IF IsHit(q)
                      THEN \E p \in Request \ {q} :
                             answer[p] # None /\ answer[p].status \in 200..299 /\ Delivers(q, p)
                      ELSE Delivers(q, q)
    BY Zenon DEF AnswerIntact
  <2> DEFINE s == stack[q]
  <2>1. RequestInv(q) /\ (s.sent # None => s.sent.hdr = s.hdr /\ s.sent.status = s.status) /\ s.mode \in {"off", "buffering", "plain", "gzip"}
    BY Zenon DEF ChainInv, HeadersInv, TypeOK, Writers
  <2>2. s.sent # None /\ s.mode # "buffering" /\ (s.mode # "off" => req[q].gzip)
    BY <2>1, Zenon DEF RequestInv
  <2>3. ASSUME NEW p \in Request, Conveys(q, answer[p].status, answer[p].type),
               said[q] = said[p], written[p] = Len(answer[p].writes)
        PROVE  Delivers(q, p)
    <3>1. CASE s.mode = "gzip"
      BY <2>1, <2>2, <2>3, <3>1, Zenon DEF Delivers, Conveys
    <3>2. CASE s.mode \in {"off", "plain"}
      BY <2>1, <2>2, <2>3, <3>2, Zenon DEF Delivers, Conveys
    <3> QED BY <2>1, <2>2, <3>1, <3>2, Zenon
  <2>4. CASE IsHit(q)
    <3>1. PICK p \in Request \ {q} :
            Clean(p) /\ said[q] = said[p] /\ Conveys(q, answer[p].status, answer[p].type)
      BY <2>1, <2>4, Zenon DEF RequestInv
    <3> QED BY <2>3, <2>4, <3>1, Zenon DEF Clean
  <2>5. CASE ~IsHit(q)
    BY <2>1, <2>3, <2>5, Zenon DEF RequestInv, Served
  <2> QED BY <2>4, <2>5, Zenon
<1> QED BY <1>1, ChainInvariant, PTL

\* A compressor is in the pool, closed, or with exactly one request under way, the one it
\* writes to; a request that has ended holds neither a compressor nor a context.
THEOREM CompressorsHaveOneOwner == Spec => []CompressorsOwned
<1>1. ChainInv => CompressorsOwned
  <2> SUFFICES ASSUME ChainInv PROVE CompressorsOwned
    BY Zenon
  <2> DEFINE Holders(c) == {q \in Request : /\ stack[q].gz = c
                                            /\ pc[q] \notin {"leave", "abort", "done", "dropped"}}
  <2>0. TypeOK /\ PoolInv /\ None \notin Compressor
    BY NoneAssumption, Zenon DEF ChainInv
  <2>1. \A q \in Request : Holds(q) => stack[q].gz \in heap \ pool /\ comp[stack[q].gz].to = q
    BY <2>0, Zenon DEF PoolInv
  <2>2. ASSUME NEW c \in heap
        PROVE  IF c \in pool
               THEN Holders(c) = {} /\ comp[c].closed
               ELSE \E q \in Request : Holders(c) = {q} /\ comp[c].to = q
    <3>1. c # None
      BY <2>0, Zenon DEF TypeOK
    <3>2. \A q \in Holders(c) : Holds(q) /\ stack[q].gz = c
      BY <3>1, Zenon DEF Holds
    <3>3. \A q \in Holders(c) : comp[c].to = q /\ c \notin pool
      BY <2>1, <3>2, Zenon
    <3>4. CASE c \in pool
      <4>1. Holders(c) = {}
        BY <3>3, <3>4, Zenon
      <4> HIDE DEF Holders
      <4> QED BY <2>0, <3>4, <4>1, Zenon DEF PoolInv
    <3>5. CASE c \notin pool
      <4>1. PICK q \in Request : Holds(q) /\ stack[q].gz = c
        BY <2>0, <3>5, Zenon DEF PoolInv
      <4>2. q \in Holders(c)
        BY <4>1, Zenon DEF Holds
      <4>3. Holders(c) = {q} /\ comp[c].to = q
        BY <3>3, <4>2, Zenon
      <4> HIDE DEF Holders
      <4> QED BY <3>5, <4>3, Zenon
    <3> QED BY <3>4, <3>5, Zenon
  <2>3. \A q \in live : pc[q] \notin {"done", "dropped"}
    BY <2>0, Zenon DEF ChainInv, RequestInv, TypeOK
  <2> QED BY <2>2, <2>3, Zenon DEF CompressorsOwned
<1> QED BY <1>1, ChainInvariant, PTL

\* The security and CORS headers and the Vary of both layers are on every answer, and the
\* access log has the status that went out, once, for every request that was answered.
THEOREM OuterLayersAlwaysApply == Spec => []OuterLayersApply
<1>1. ChainInv => OuterLayersApply
  <2> SUFFICES ASSUME ChainInv, NEW q \in Request
               PROVE  /\ logged[q] = IF pc[q] = "done" THEN stack[q].sent.status ELSE None
                      /\ pc[q] = "done" =>
                           LET h == stack[q].sent.hdr
                           IN  /\ h["Strict-Transport-Security"] # {}
                               /\ h["Access-Control-Allow-Origin"] = {"*"}
                               /\ h["Vary"] = {"Origin"} \cup IF Served(q) THEN {"Accept-Encoding"} ELSE {}
    BY Zenon DEF OuterLayersApply
  <2> DEFINE s == stack[q]
  <2>1. /\ RequestInv(q) /\ (s.sent # None => s.sent.hdr = s.hdr /\ s.sent.status = s.status)
        /\ pc[q] # "new" => s.hdr["Strict-Transport-Security"] # {} /\ s.hdr["Access-Control-Allow-Origin"] = {"*"}
    BY Zenon DEF ChainInv, HeadersInv
  <2>2. CASE pc[q] = "done"
    <3>1. s.sent # None /\ logged[q] = s.status
      BY <2>1, <2>2, Zenon DEF RequestInv
    <3>2. s.hdr["Vary"] = {"Origin"} \cup IF Served(q) THEN {"Accept-Encoding"} ELSE {}
      BY <2>1, <2>2, Zenon DEF RequestInv
    <3> QED BY <2>1, <2>2, <3>1, <3>2, Zenon
  <2>3. CASE pc[q] # "done"
    BY <2>1, <2>3, Zenon DEF RequestInv
  <2> QED BY <2>2, <2>3, Zenon
<1> QED BY <1>1, ChainInvariant, PTL

----------------------------------------------------------------------------
(***************************************************************************)
(* RateLimiter, for any set of requests and clients, any rate, burst and   *)
(* idle time that satisfy LimiterAssumption.                               *)
(***************************************************************************)

----------------------------------------------------------------------------
(* Arithmetic.  A balance is what a client has spent (s) and still has (h) *)
(* against the burst and the gifts (b) and the refill (r) of the time      *)
(* (t, e).                                                                 *)

\* What a bucket misses after its idle time is the Gift; there is none if the
\* idle time is long enough to refill it.
LEMMA GiftLemma ==
  /\ Gift \in Nat /\ Idle \in Nat
  /\ Burst <= Idle * Rate + Gift
  /\ Burst <= Idle * Rate => Gift = 0
<1>1. Idle \in Nat /\ Rate \in Nat /\ Burst \in Nat
  BY LimiterAssumption DEF Idle
<1>2. Idle * Rate \in Nat
  BY <1>1
<1> QED BY <1>1, <1>2 DEF Gift

\* A refill keeps the balance, up to the time it was computed for.
LEMMA RefillBalances ==
  ASSUME NEW s \in Nat, NEW h \in Nat, NEW b \in Nat, NEW r \in Nat,
         NEW last \in Nat, NEW t \in Nat, NEW e \in Nat,
         s + h <= b + r * (last + e)
  PROVE  s + (h + (t - last) * r) <= b + r * (t + e)
<1>1. r * (t + e) = r * (last + e) + (t - last) * r
  OBVIOUS
<1>2. r * (last + e) \in Int /\ (t - last) * r \in Int
  OBVIOUS
<1> QED BY <1>1, <1>2

\* An overtaken request turns lastSeen back by at most one lag, which the count
\* of overtaken requests pays for.
LEMMA OvertakenBalances ==
  ASSUME NEW s \in Nat, NEW h \in Nat, NEW b \in Nat, NEW r \in Nat,
         NEW last \in Nat, NEW t \in Nat, NEW m \in Nat, NEW n \in Nat,
         last <= t + m, s + h <= b + r * (last + m * n)
  PROVE  s + h <= b + r * (t + m * (n + 1))
<1>1. m * (n + 1) = m * n + m /\ m * n \in Int
  OBVIOUS
<1>2. r * (t + m + m * n) = r * (last + m * n) + r * (t + m - last)
  OBVIOUS
<1>3. r * (t + m - last) \in Nat
  <2>1. t + m - last \in Nat
    OBVIOUS
  <2> QED BY <2>1
<1>4. r * (last + m * n) \in Int
  OBVIOUS
<1>5. r * (t + m * (n + 1)) = r * (t + m + m * n)
  BY <1>1
<1> QED BY <1>2, <1>3, <1>4, <1>5

\* A bucket that was last used more than the idle time ago would miss at most a
\* gift (g) a lag ago, when its client has had n of them.
LEMMA IdleBalances ==
  ASSUME NEW s \in Nat, NEW h \in Nat, NEW b \in Nat, NEW r \in Nat, NEW g \in Nat, NEW n \in Nat,
         NEW last \in Nat, NEW t \in Nat, NEW m \in Nat, NEW e \in Nat, NEW idle \in Nat,
         last < t - (idle + m), b <= idle * r + g, s + h <= b + g * n + r * (last + e)
  PROVE  s <= g * (n + 1) + r * (t - m + e)
<1>1. r * (t - m + e) = r * (last + e) + idle * r + r * (t - m - idle - last)
  OBVIOUS
<1>2. t - m - idle - last \in Nat
  OBVIOUS
<1>3. r * (t - m - idle - last) \in Nat
  BY <1>2
<1>4. r * (last + e) \in Int /\ idle * r \in Int /\ g * n \in Int
  OBVIOUS
<1>5. g * (n + 1) = g * n + g
  OBVIOUS
<1> QED BY <1>1, <1>3, <1>4, <1>5

\* The refill grows with the time.
LEMMA RefillGrows ==
  ASSUME NEW r \in Nat, NEW x \in Int, NEW y \in Int, x <= y
  PROVE  r * x <= r * y
<1>1. r * y = r * x + r * (y - x) /\ r * x \in Int
  OBVIOUS
<1>2. y - x \in Nat
  OBVIOUS
<1>3. r * (y - x) \in Nat
  BY <1>2
<1> QED BY <1>1, <1>3

----------------------------------------------------------------------------
(* The steps.                                                              *)

\* A limiter made by NewRateLimiter satisfies the invariant.
LEMMA BudgetInit == LimiterInit => BudgetInv
<1> SUFFICES ASSUME LimiterInit PROVE BudgetInv
  BY Zenon
<1>1. NewBucket(0) \in Bucket
  BY LimiterAssumption, Zenon DEF NewBucket, Bucket
<1>2. LimiterTypeOK
  <2>1. DOMAIN buckets = {} /\ buckets \in [DOMAIN buckets -> Bucket]
    BY DEF LimiterInit
  <2>2. forgotten \in [Client -> Bucket]
    BY <1>1, Zenon DEF LimiterInit
  <2>3. sweeping \in BOOLEAN
    BY Zenon DEF LimiterInit
  <2>4. /\ now \in Nat /\ cutoff \in Int /\ seen \in [Call -> Nat]
        /\ stage \in [Call -> {"idle", "timed", "served", "rejected"}]
        /\ client \in [Call -> Client]
        /\ granted \in [Client -> Nat] /\ overtaken \in [Client -> Nat] /\ pruned \in [Client -> Nat]
    BY DEF LimiterInit
  <2> QED BY <2>1, <2>2, <2>3, <2>4, Zenon DEF LimiterTypeOK
<1>3. ReadingInv /\ BurstGuaranteed
  BY LimiterAssumption DEF LimiterInit, ReadingInv, BurstGuaranteed
<1>4. DOMAIN buckets = {} /\ \A k \in Client : Rested(k)
  BY DEF LimiterInit, Rested
<1> QED BY <1>2, <1>3, <1>4, Zenon DEF BudgetInv

\* The tokens a request finds balance what its client was granted, whether the
\* client has a bucket, had one, or a faster request has used it.
LEMMA TokensBalanced ==
  ASSUME BudgetInv, NEW q \in Call, stage[q] = "timed"
  PROVE  LET k == client[q]
             n == IF IsOvertaken(q) THEN overtaken[k] + 1 ELSE overtaken[k] IN
         /\ k \in Client /\ seen[q] \in Nat /\ n \in Nat
         /\ seen[q] <= now
         /\ Tokens(q) \in Nat /\ Tokens(q) <= Burst
         /\ granted[k] * Cost + Tokens(q) <= Burst + Gift * pruned[k] + Rate * (seen[q] + MaxLag * n)
         /\ Burst <= granted[k] * Cost + Tokens(q)
<1> DEFINE k == client[q]
           t == seen[q]
           s == granted[k] * Cost
           o == overtaken[k]
           e == MaxLag * o
           g == Gift * pruned[k]
<1>1. /\ k \in Client /\ t \in Nat /\ now \in Nat /\ o \in Nat /\ granted[k] \in Nat
      /\ Rate \in Nat /\ Burst \in Nat /\ MaxLag \in Nat /\ Cost \in Nat
      /\ Gift \in Nat /\ pruned[k] \in Nat
  BY LimiterAssumption, GiftLemma, Zenon DEF BudgetInv, LimiterTypeOK
<1>2. s \in Nat /\ e \in Nat /\ g \in Nat /\ Burst + g \in Nat
  BY <1>1
<1>3. t <= now /\ now <= t + MaxLag
  BY Zenon DEF BudgetInv, ReadingInv
<1>4. CASE k \notin DOMAIN buckets
  <2>1. Tokens(q) = Burst /\ ~IsOvertaken(q)
    BY <1>4, Zenon DEF Tokens, IsOvertaken
  <2>2. s = 0 \/ s <= g + Rate * (now - MaxLag + e)
    BY <1>1, <1>4 DEF BudgetInv, Rested
  <2> HIDE DEF s, e, g
  <2>3. Rate * (now - MaxLag + e) <= Rate * (t + e)
    <3>1. now - MaxLag + e \in Int /\ t + e \in Int /\ now - MaxLag + e <= t + e
      BY <1>1, <1>2, <1>3
    <3> QED BY <1>1, <3>1, RefillGrows, Zenon
  <2>4. Rate * (t + e) \in Nat /\ Rate * (now - MaxLag + e) \in Int
    BY <1>1, <1>2
  <2>5. s <= g + Rate * (t + e)
    BY <1>2, <2>2, <2>3, <2>4
  <2> QED BY <1>1, <1>2, <1>3, <2>1, <2>4, <2>5 DEF s, e, g
<1>5. CASE k \in DOMAIN buckets
  <2> DEFINE b == buckets[k]
  <2>1. b.tokens \in Nat /\ b.lastSeen \in Nat
    BY <1>5, Zenon DEF BudgetInv, LimiterTypeOK, Bucket
  <2>2. /\ b.lastSeen <= now /\ b.tokens <= Burst
        /\ s + b.tokens <= Burst + g + Rate * (b.lastSeen + e)
        /\ Burst <= s + b.tokens
    BY <1>5, Zenon DEF BudgetInv, Balanced
  <2>3. Tokens(q) = Refilled(b, t) /\ (IsOvertaken(q) <=> t < b.lastSeen)
    BY <1>5, Zenon DEF Tokens, IsOvertaken
  <2> HIDE DEF b
  <2>4. CASE t > b.lastSeen
    <3> DEFINE full == b.tokens + (t - b.lastSeen) * Rate
    <3>1. s + full <= Burst + g + Rate * (t + e)
      BY <1>1, <1>2, <2>1, <2>2, RefillBalances, ZenonT(30)
    <3>2. full \in Nat /\ b.tokens <= full /\ Rate * (t + e) \in Int
      <4>1. t - b.lastSeen \in Nat
        BY <1>1, <2>1, <2>4
      <4>2. (t - b.lastSeen) * Rate \in Nat
        BY <1>1, <4>1
      <4> QED BY <1>1, <1>2, <2>1, <4>2
    <3>3. Tokens(q) = minF64(Burst, full) /\ ~IsOvertaken(q)
      BY <1>1, <2>1, <2>3, <2>4 DEF Refilled
    <3> HIDE DEF full, s, e, g
    <3>4. /\ Tokens(q) \in Nat /\ Tokens(q) <= Burst
          /\ s + Tokens(q) <= Burst + g + Rate * (t + e)
          /\ Burst <= s + Tokens(q)
      BY <1>1, <1>2, <2>1, <2>2, <3>1, <3>2, <3>3 DEF minF64
    <3> QED BY <1>1, <1>3, <3>3, <3>4, Zenon DEF s, e, g
  <2>5. CASE t = b.lastSeen
    BY <1>1, <1>3, <2>1, <2>2, <2>3, <2>5 DEF Refilled
  <2>6. CASE t < b.lastSeen
    <3>1. b.lastSeen <= t + MaxLag
      BY <1>1, <1>3, <2>1, <2>2
    <3>2. s + b.tokens <= Burst + g + Rate * (t + MaxLag * (o + 1))
      BY <1>1, <1>2, <2>1, <2>2, <3>1, OvertakenBalances, ZenonT(30)
    <3>3. ~(t > b.lastSeen)
      BY <1>1, <2>1, <2>6
    <3>4. Tokens(q) = b.tokens /\ IsOvertaken(q)
      BY <2>3, <2>6, <3>3, Zenon DEF Refilled
    <3>5. o + 1 \in Nat
      BY <1>1
    <3> QED BY <1>1, <1>3, <2>1, <2>2, <3>2, <3>4, <3>5, Zenon
  <2> QED BY <1>1, <2>1, <2>4, <2>5, <2>6
<1> QED BY <1>4, <1>5, Zenon

\* What a grant takes from the bucket it adds to what the client has spent.
LEMMA CostBalances ==
  ASSUME NEW g \in Nat, NEW t \in Nat, NEW cost \in Nat, NEW c \in {0, 1}, c * cost <= t
  PROVE  /\ t - c * cost \in Nat /\ t - c * cost <= t
         /\ (g + c) * cost + (t - c * cost) = g * cost + t
<1>1. CASE c = 0
  BY <1>1
<1>2. CASE c = 1
  <2>1. c * cost = cost /\ (g + 1) * cost = g * cost + cost /\ g * cost \in Nat
    BY <1>2
  <2> QED BY <1>2, <2>1
<1> QED BY <1>1, <1>2, Zenon

\* A critical section of Allow keeps the invariant, whether it grants the
\* request (c = 1) or not (c = 0).
LEMMA StoreKeeps ==
  ASSUME BudgetInv, NEW q \in Call, stage[q] = "timed",
         NEW c \in {0, 1}, c * Cost <= Tokens(q), c = 0 => Tokens(q) < Cost,
         Store(q, Tokens(q) - c * Cost),
         stage' = [stage EXCEPT ![q] = IF c = 1 THEN "served" ELSE "rejected"],
         granted' = [granted EXCEPT ![client[q]] = @ + c],
         UNCHANGED <<now, client, seen, sweeping, cutoff, pruned, forgotten>>
  PROVE  BudgetInv'
<1> DEFINE k == client[q]
           left == Tokens(q) - c * Cost
<1>1. /\ k \in Client /\ granted[k] \in Nat /\ Cost \in Nat /\ Burst \in Nat /\ now \in Nat
      /\ overtaken' \in [Client -> Nat] /\ granted' \in [Client -> Nat]
      /\ granted'[k] = granted[k] + c
      /\ \A j \in Client : j # k => granted'[j] = granted[j] /\ overtaken'[j] = overtaken[j]
  BY TokensBalanced, LimiterAssumption DEF BudgetInv, LimiterTypeOK, Store
<1>2. overtaken'[k] = IF IsOvertaken(q) THEN overtaken[k] + 1 ELSE overtaken[k]
  BY <1>1, Zenon DEF BudgetInv, LimiterTypeOK, Store
<1>3. /\ seen[q] \in Nat /\ seen[q] <= now /\ Tokens(q) \in Nat /\ Tokens(q) <= Burst
      /\ granted[k] * Cost + Tokens(q)
           <= Burst + Gift * pruned[k] + Rate * (seen[q] + MaxLag * overtaken'[k])
      /\ Burst <= granted[k] * Cost + Tokens(q)
  BY <1>2, TokensBalanced, Zenon
<1>4. left \in Nat /\ left <= Burst /\ granted'[k] * Cost + left = granted[k] * Cost + Tokens(q)
  <2>1. /\ left \in Nat /\ left <= Tokens(q)
        /\ (granted[k] + c) * Cost + left = granted[k] * Cost + Tokens(q)
    <3>1. granted[k] \in Nat /\ Tokens(q) \in Nat /\ Cost \in Nat /\ c \in {0, 1} /\ c * Cost <= Tokens(q)
      BY <1>1, <1>3, Zenon
    <3> QED BY ONLY <3>1, CostBalances
  <2>2. granted'[k] = granted[k] + c /\ Tokens(q) \in Nat /\ Tokens(q) <= Burst /\ Burst \in Nat
    BY <1>1, <1>3, Zenon
  <2>3. left <= Burst
    <3> HIDE DEF left
    <3> QED BY <2>1, <2>2
  <2> QED BY <2>1, <2>2, <2>3, Zenon
<1>5. /\ DOMAIN buckets' = DOMAIN buckets \cup {k}
      /\ buckets'[k] = [tokens |-> left, lastSeen |-> seen[q]]
      /\ \A j \in DOMAIN buckets : j # k => buckets'[j] = buckets[j]
  BY Zenon DEF Store
<1> HIDE DEF left, k
<1>6. LimiterTypeOK'
  <2>1. [tokens |-> left, lastSeen |-> seen[q]] \in Bucket
    BY <1>3, <1>4, Zenon DEF Bucket
  <2>2. /\ DOMAIN buckets' \subseteq Client /\ \A j \in DOMAIN buckets' : buckets'[j] \in Bucket
        /\ buckets' = [j \in DOMAIN buckets' |-> buckets'[j]]
    BY <1>1, <1>5, <2>1 DEF BudgetInv, LimiterTypeOK, Store
  <2>3. stage' \in [Call -> {"idle", "timed", "served", "rejected"}]
    BY Zenon DEF BudgetInv, LimiterTypeOK
  <2> QED BY <1>1, <2>2, <2>3 DEF BudgetInv, LimiterTypeOK
<1>7. ReadingInv'
  BY Zenon DEF BudgetInv, LimiterTypeOK, ReadingInv
<1>8. BurstGuaranteed'
  <2> SUFFICES ASSUME NEW p \in Call, stage'[p] = "rejected"
               PROVE  Burst < (granted'[client[p]] + 1) * Cost
    BY Zenon DEF BurstGuaranteed
  <2>1. CASE p = q
    <3>1. c = 0 /\ granted'[k] = granted[k]
      BY <1>1, <2>1 DEF BudgetInv, LimiterTypeOK
    <3>2. Tokens(q) < Cost
      BY <3>1, Zenon
    <3>3. (granted[k] + 1) * Cost = granted[k] * Cost + Cost /\ granted[k] * Cost \in Nat
      BY <1>1
    <3> QED BY <1>1, <1>3, <2>1, <3>1, <3>2, <3>3 DEF k
  <2>2. CASE p # q
    <3>1. stage[p] = "rejected" /\ client[p] \in Client
      BY <2>2, Zenon DEF BudgetInv, LimiterTypeOK
    <3>2. Burst < (granted[client[p]] + 1) * Cost
      BY <3>1, Zenon DEF BudgetInv, BurstGuaranteed
    <3>3. granted[client[p]] \in Nat /\ granted'[client[p]] \in Nat
          /\ granted[client[p]] + 1 <= granted'[client[p]] + 1
      BY <1>1, <3>1 DEF BudgetInv, LimiterTypeOK
    <3>4. Cost * (granted[client[p]] + 1) <= Cost * (granted'[client[p]] + 1)
      BY <1>1, <3>3, RefillGrows
    <3> QED BY <1>1, <3>2, <3>3, <3>4
  <2> QED BY <2>1, <2>2, Zenon
<1>9. ASSUME NEW j \in DOMAIN buckets'
      PROVE  Balanced(j)'
  <2>1. CASE j = k
    BY <1>3, <1>4, <1>5, <2>1 DEF Balanced
  <2>2. CASE j # k
    BY <1>1, <1>5, <2>2, Zenon DEF BudgetInv, LimiterTypeOK, Balanced
  <2> QED BY <2>1, <2>2, ZenonT(30)
<1>10. ASSUME NEW j \in Client \ DOMAIN buckets'
       PROVE  Rested(j)'
  BY <1>1, <1>5, Zenon DEF BudgetInv, Rested
<1> QED BY <1>6, <1>7, <1>8, <1>9, <1>10, Zenon DEF BudgetInv

\* Every step keeps the invariant.
LEMMA BudgetStep == BudgetInv /\ [LimiterNext]_limiterVars => BudgetInv'
<1> SUFFICES ASSUME BudgetInv, [LimiterNext]_limiterVars PROVE BudgetInv'
  BY Zenon
<1>1. ASSUME NEW q \in Call, Allow(q) PROVE BudgetInv'
  <2>1. Tokens(q) \in Nat /\ Cost \in Nat
    BY <1>1, TokensBalanced, LimiterAssumption, Zenon DEF Allow
  <2>2. 1 * Cost = Cost
    BY <2>1
  <2>3. /\ stage[q] = "timed" /\ 1 * Cost <= Tokens(q)
        /\ Store(q, Tokens(q) - 1 * Cost)
        /\ stage' = [stage EXCEPT ![q] = IF 1 = 1 THEN "served" ELSE "rejected"]
        /\ granted' = [granted EXCEPT ![client[q]] = @ + 1]
        /\ UNCHANGED <<now, client, seen, sweeping, cutoff, pruned, forgotten>>
    BY <1>1, <2>1, <2>2, Zenon DEF Allow
  <2>4. 1 \in {0, 1} /\ (1 = 0 => Tokens(q) < Cost)
    OBVIOUS
  <2> QED BY <2>3, <2>4, StoreKeeps, Zenon
<1>2. ASSUME NEW q \in Call, Reject(q) PROVE BudgetInv'
  <2>1. Tokens(q) \in Nat /\ Cost \in Nat
    BY <1>2, TokensBalanced, LimiterAssumption, Zenon DEF Reject
  <2>2. 0 * Cost = 0 /\ Tokens(q) - 0 * Cost = Tokens(q) /\ 0 * Cost <= Tokens(q)
    BY <2>1
  <2>3. granted = [granted EXCEPT ![client[q]] = @ + 0]
    BY DEF BudgetInv, LimiterTypeOK
  <2>4. /\ stage[q] = "timed" /\ Tokens(q) < Cost
        /\ Store(q, Tokens(q) - 0 * Cost)
        /\ stage' = [stage EXCEPT ![q] = IF 0 = 1 THEN "served" ELSE "rejected"]
        /\ granted' = [granted EXCEPT ![client[q]] = @ + 0]
        /\ UNCHANGED <<now, client, seen, sweeping, cutoff, pruned, forgotten>>
    BY <1>2, <2>2, <2>3 DEF Reject
  <2>5. 0 \in {0, 1}
    BY Zenon
  <2> QED BY <2>2, <2>4, <2>5, StoreKeeps, Zenon
<1>3. ASSUME NEW q \in Call, ReadClock(q) PROVE BudgetInv'
  BY <1>3, LimiterAssumption DEF ReadClock, BudgetInv, LimiterTypeOK, ReadingInv, BurstGuaranteed, Balanced, Rested
<1>4. CASE BeginSweep
  BY <1>4, LimiterAssumption
     DEF BeginSweep, BudgetInv, LimiterTypeOK, ReadingInv, BurstGuaranteed, Balanced, Rested
<1>5. CASE Sweep
  <2> DEFINE idle == {k \in DOMAIN buckets : IsIdle(k)}
  <2>1. /\ DOMAIN buckets' = DOMAIN buckets \ idle
        /\ \A k \in DOMAIN buckets' : buckets'[k] = buckets[k]
        /\ buckets' = [k \in DOMAIN buckets' |-> buckets'[k]]
        /\ forgotten' = [k \in Client |-> IF k \in idle THEN buckets[k] ELSE forgotten[k]]
        /\ pruned' = [k \in Client |-> IF k \in idle THEN pruned[k] + 1 ELSE pruned[k]]
        /\ UNCHANGED <<now, stage, client, seen, granted, overtaken>>
        /\ sweeping' = FALSE /\ cutoff' = 0 /\ sweeping
    BY <1>5, Zenon DEF Sweep, Restrict
  <2>2. LimiterTypeOK'
    <3>1. DOMAIN buckets' \subseteq Client /\ \A k \in DOMAIN buckets' : buckets'[k] \in Bucket
      BY <2>1, Zenon DEF BudgetInv, LimiterTypeOK
    <3>2. forgotten' \in [Client -> Bucket] /\ pruned' \in [Client -> Nat]
      BY <2>1 DEF BudgetInv, LimiterTypeOK
    <3>3. sweeping' \in BOOLEAN
      BY <2>1, Zenon
    <3>4. cutoff' \in Int
      BY <2>1
    <3> QED BY <2>1, <3>1, <3>2, <3>3, <3>4, Zenon DEF BudgetInv, LimiterTypeOK
  <2>3. ReadingInv' /\ BurstGuaranteed' /\ \A k \in DOMAIN buckets' : Balanced(k)'
    <3>1. \A k \in DOMAIN buckets' : pruned'[k] = pruned[k] /\ k \in DOMAIN buckets
      BY <2>1, Zenon DEF BudgetInv, LimiterTypeOK
    <3> QED BY <2>1, <3>1, Zenon DEF BudgetInv, ReadingInv, BurstGuaranteed, Balanced
  <2>4. ASSUME NEW k \in Client \ DOMAIN buckets'
        PROVE  Rested(k)'
    <3>1. CASE k \in idle
      <4> DEFINE b == buckets[k]
                 s == granted[k] * Cost
                 e == MaxLag * overtaken[k]
      <4>1. /\ s \in Nat /\ e \in Nat /\ b.tokens \in Nat /\ b.lastSeen \in Nat /\ now \in Nat
            /\ Rate \in Nat /\ Burst \in Nat /\ MaxLag \in Nat /\ pruned[k] \in Nat
        <5>1. granted[k] \in Nat /\ overtaken[k] \in Nat /\ Cost \in Nat /\ MaxLag \in Nat
          BY LimiterAssumption, Zenon DEF BudgetInv, LimiterTypeOK
        <5>2. b \in Bucket
          BY <3>1, Zenon DEF BudgetInv, LimiterTypeOK
        <5> QED BY <5>1, <5>2, LimiterAssumption DEF BudgetInv, LimiterTypeOK, Bucket
      <4>2. s + b.tokens <= Burst + Gift * pruned[k] + Rate * (b.lastSeen + e)
        BY <3>1, Zenon DEF BudgetInv, Balanced
      <4>3. b.lastSeen < now - MaxIdle
        BY <2>1, <3>1, <4>1, LimiterAssumption DEF BudgetInv, LimiterTypeOK, ReadingInv, IsIdle
      <4>4. b.lastSeen < now - (Idle + MaxLag)
        BY <4>1, <4>3, LimiterAssumption DEF Idle
      <4> HIDE DEF b, s, e
      <4>5. s <= Gift * (pruned[k] + 1) + Rate * (now - MaxLag + e)
        BY <4>1, <4>2, <4>4, IdleBalances, GiftLemma, ZenonT(30)
      <4> QED BY <2>1, <3>1, <4>3, <4>5, ZenonT(30) DEF Rested, b, s, e
    <3>2. CASE k \notin idle
      BY <2>1, <3>2, Zenon DEF BudgetInv, Rested
    <3> QED BY <3>1, <3>2, Zenon
  <2> QED BY <2>2, <2>3, <2>4, Zenon DEF BudgetInv
<1>6. CASE Tick
  <2>1. /\ now' = now + 1 /\ now \in Nat /\ MaxLag \in Nat /\ MaxIdle \in Nat /\ Rate \in Nat
        /\ UNCHANGED <<buckets, stage, client, seen, sweeping, cutoff, granted, overtaken, pruned, forgotten>>
    BY <1>6, LimiterAssumption, Zenon DEF Tick, BudgetInv, LimiterTypeOK
  <2>2. LimiterTypeOK' /\ ReadingInv' /\ BurstGuaranteed'
    BY <1>6, <2>1, LimiterAssumption DEF Tick, BudgetInv, LimiterTypeOK, ReadingInv, BurstGuaranteed
  <2>3. \A k \in DOMAIN buckets' : Balanced(k)'
    BY <2>1 DEF BudgetInv, LimiterTypeOK, Bucket, Balanced
  <2>4. ASSUME NEW k \in Client \ DOMAIN buckets'
        PROVE  Rested(k)'
    <3> DEFINE s == granted[k] * Cost
               e == MaxLag * overtaken[k]
               g == Gift * pruned[k]
    <3>1. /\ s \in Nat /\ e \in Nat /\ g \in Nat /\ forgotten[k].lastSeen \in Nat /\ Rested(k)
      BY <2>1, LimiterAssumption, GiftLemma DEF BudgetInv, LimiterTypeOK, Bucket
    <3>2. Rate * (now - MaxLag + e) <= Rate * (now + 1 - MaxLag + e)
      <4>1. Rate \in Nat /\ now \in Nat /\ MaxLag \in Nat /\ e \in Nat
        BY <2>1, <3>1, Zenon
      <4> HIDE DEF e
      <4>2. now - MaxLag + e \in Int /\ now + 1 - MaxLag + e \in Int /\ now - MaxLag + e <= now + 1 - MaxLag + e
        BY <4>1
      <4> QED BY <4>1, <4>2, RefillGrows, Zenon
    <3>3. Rate * (now - MaxLag + e) \in Int /\ Rate * (now + 1 - MaxLag + e) \in Int
      <4>1. Rate \in Nat /\ now \in Nat /\ MaxLag \in Nat /\ e \in Nat
        BY <2>1, <3>1, Zenon
      <4> HIDE DEF e
      <4> QED BY <4>1
    <3>4. CASE granted[k] = 0 /\ forgotten[k] = NewBucket(0)
      BY <2>1, <3>4, ZenonT(30) DEF Rested, NewBucket
    <3>5. CASE s <= g + Rate * (now - MaxLag + e) /\ forgotten[k].lastSeen < now - MaxIdle
      <4>1. s <= g + Rate * (now + 1 - MaxLag + e)
        <5> HIDE DEF s, e, g
        <5> QED BY <3>1, <3>2, <3>3, <3>5
      <4>2. forgotten[k].lastSeen < now + 1 - MaxIdle
        BY <2>1, <3>1, <3>5
      <4> QED BY <2>1, <4>1, <4>2 DEF Rested
    <3> QED BY <3>1, <3>4, <3>5, Zenon DEF Rested
  <2> QED BY <2>1, <2>2, <2>3, <2>4, Zenon DEF BudgetInv
<1>7. CASE UNCHANGED limiterVars
  BY <1>7, Zenon DEF limiterVars, BudgetInv, LimiterTypeOK, ReadingInv, BurstGuaranteed, Balanced, Rested
<1> QED BY <1>1, <1>2, <1>3, <1>4, <1>5, <1>6, <1>7, Zenon DEF LimiterNext

----------------------------------------------------------------------------
(* The theorems.                                                           *)

\* BudgetInv is an invariant of the rate limiter.
THEOREM BudgetInvariance == LimiterSpec => []BudgetInv
BY BudgetInit, BudgetStep, PTL DEF LimiterSpec

\* A client gets its burst and its rate, one lag of refill per overtaken request
\* and one Gift per sweep that pruned its bucket (none at all, by GiftLemma, if
\* the idle time is long enough to refill a bucket).
THEOREM BudgetTheorem == LimiterSpec => []BudgetBounded
<1>1. BudgetInv => BudgetBounded
  <2> SUFFICES ASSUME BudgetInv, NEW k \in Client
               PROVE  granted[k] * Cost
                        <= Burst + Gift * pruned[k] + Rate * (now + MaxLag * overtaken[k])
    BY Zenon DEF BudgetBounded
  <2> DEFINE s == granted[k] * Cost
             e == MaxLag * overtaken[k]
             g == Gift * pruned[k]
  <2>1. /\ s \in Nat /\ e \in Nat /\ g \in Nat /\ now \in Nat
        /\ Rate \in Nat /\ Burst \in Nat /\ MaxLag \in Nat
    BY LimiterAssumption, GiftLemma DEF BudgetInv, LimiterTypeOK
  <2>2. Rate * (now + e) \in Nat
    BY <2>1
  <2>3. CASE k \in DOMAIN buckets
    <3> DEFINE b == buckets[k]
    <3>1. b.tokens \in Nat /\ b.lastSeen \in Nat
      BY <2>3, Zenon DEF BudgetInv, LimiterTypeOK, Bucket
    <3>2. b.lastSeen <= now /\ s + b.tokens <= Burst + g + Rate * (b.lastSeen + e)
      BY <2>3, Zenon DEF BudgetInv, Balanced
    <3> HIDE DEF b, s, e, g
    <3>3. Rate * (b.lastSeen + e) <= Rate * (now + e) /\ Rate * (b.lastSeen + e) \in Int
      BY <2>1, <3>1, <3>2, RefillGrows
    <3> QED BY <2>1, <2>2, <3>1, <3>2, <3>3 DEF s, e, g
  <2>4. CASE k \notin DOMAIN buckets
    <3>1. s = 0 \/ s <= g + Rate * (now - MaxLag + e)
      BY <2>1, <2>4, LimiterAssumption DEF BudgetInv, Rested
    <3> HIDE DEF s, e, g
    <3>2. Rate * (now - MaxLag + e) <= Rate * (now + e) /\ Rate * (now - MaxLag + e) \in Int
      BY <2>1, RefillGrows
    <3> QED BY <2>1, <2>2, <3>1, <3>2 DEF s, e, g
  <2> QED BY <2>3, <2>4, Zenon
<1> QED BY <1>1, BudgetInvariance, PTL

\* No request is rejected before its client has had its burst.
THEOREM BurstTheorem == LimiterSpec => []BurstGuaranteed
<1>1. BudgetInv => BurstGuaranteed
  BY Zenon DEF BudgetInv
<1> QED BY <1>1, BudgetInvariance, PTL

\* Every access has an effect and an outcome it could have if no bucket had ever
\* been pruned, but for the accounts left alone for longer than Idle.
THEOREM AccountsTheorem == LimiterSpec => ImplementsAccounts
<1> DEFINE A == [k \in Client |-> IF k \in DOMAIN buckets THEN buckets[k] ELSE forgotten[k]]
<1>1. LimiterInit => Accounts!Init
  <2> SUFFICES ASSUME LimiterInit PROVE Accounts!Init
    BY Zenon
  <2>1. DOMAIN buckets = {} /\ forgotten = [k \in Client |-> [tokens |-> Burst, lastSeen |-> 0]]
    BY DEF LimiterInit, NewBucket
  <2> QED BY <2>1, Zenon DEF LimiterInit, Accounts!Init
<1>2. ASSUME BudgetInv, NEW q \in Call, stage[q] = "timed"
      PROVE  LET k == client[q] IN
             k \in Client /\ seen[q] \in Nat /\ Tokens(q) \in Accounts!Found(A[k], seen[q])
  <2> DEFINE k == client[q]
             t == seen[q]
  <2>1. /\ k \in Client /\ t \in Nat /\ t <= now /\ now <= t + MaxLag /\ now \in Nat
        /\ Rate \in Nat \ {0} /\ Burst \in Nat /\ MaxLag \in Nat /\ MaxIdle \in Nat
        /\ MaxLag <= MaxIdle
    BY <1>2, LimiterAssumption, Zenon DEF BudgetInv, LimiterTypeOK, ReadingInv
  <2>2. CASE k \in DOMAIN buckets
    <3>1. A[k] = buckets[k] /\ Tokens(q) = Refilled(buckets[k], t)
      BY <2>1, <2>2, Zenon DEF Tokens
    <3> HIDE DEF A
    <3> QED BY <2>1, <3>1, Zenon DEF Refilled, minF64, Accounts!Found, Accounts!Credited, Accounts!Smaller
  <2>3. CASE k \notin DOMAIN buckets
    <3> DEFINE f == forgotten[k]
    <3>1. A[k] = f /\ Tokens(q) = Burst /\ Rested(k) /\ f \in Bucket
      BY <1>2, <2>1, <2>3, Zenon DEF Tokens, BudgetInv, LimiterTypeOK
    <3>2. f.tokens \in Nat /\ f.lastSeen \in Nat
      BY <3>1, Zenon DEF Bucket
    <3> HIDE DEF A, f
    <3>3. CASE f = [tokens |-> Burst, lastSeen |-> 0]
      <4>1. f.tokens = Burst /\ f.lastSeen = 0
        BY <3>3, Zenon
      <4>2. (t - 0) * Rate \in Nat
        BY <2>1
      <4> QED BY <2>1, <3>1, <4>1, <4>2 DEF Accounts!Found, Accounts!Credited, Accounts!Smaller
    <3>4. CASE f.lastSeen < now - MaxIdle
      <4>1. t > f.lastSeen + Idle
        BY <2>1, <3>2, <3>4 DEF Idle
      <4>2. Burst \in {n \in {Burst} : t > f.lastSeen + Idle}
        BY <4>1, Zenon
      <4> QED BY <2>1, <3>1, <4>2, Zenon DEF Accounts!Found
    <3> QED BY <3>1, <3>3, <3>4, Zenon DEF Rested, NewBucket, f
  <2> QED BY <2>2, <2>3, Zenon
<1>3. ASSUME BudgetInv, BudgetInv', NEW q \in Call, NEW left, Store(q, left), stage[q] = "timed",
             UNCHANGED forgotten
      PROVE  A' = [A EXCEPT ![client[q]] = [tokens |-> left, lastSeen |-> seen[q]]]
  <2>1. client[q] \in Client
    BY <1>3, Zenon DEF BudgetInv, LimiterTypeOK
  <2> QED BY <1>3, <2>1, Zenon DEF Store
<1>4. ASSUME BudgetInv, NEW q \in Call, stage[q] = "timed"
      PROVE  seen[q] \in 0..MaxTime
  BY <1>4, LimiterAssumption DEF BudgetInv, LimiterTypeOK, ReadingInv
<1>5. ASSUME BudgetInv, BudgetInv', [LimiterNext]_limiterVars
      PROVE  [Accounts!Next]_(Accounts!vars)
  <2>1. ASSUME NEW q \in Call, Allow(q)
        PROVE  Accounts!Next
    <3> DEFINE k == client[q]
    <3>1. /\ k \in Client /\ seen[q] \in 0..MaxTime /\ stage[q] = "timed"
          /\ Tokens(q) \in Accounts!Found(A[k], seen[q])
      BY <1>2, <1>4, <1>5, <2>1, Zenon DEF Allow
    <3>2. A' = [A EXCEPT ![k] = [tokens |-> Tokens(q) - Cost, lastSeen |-> seen[q]]]
      BY <1>3, <1>5, <2>1, Zenon DEF Allow
    <3>3. granted' = [granted EXCEPT ![k] = @ + 1] /\ Tokens(q) >= Cost
      BY <2>1, Zenon DEF Allow
    <3> HIDE DEF k
    <3>4. Accounts!Access(k, seen[q], Tokens(q))
      BY <3>1, <3>2, <3>3, Zenon DEF Accounts!Access
    <3> QED BY <3>1, <3>4, Zenon DEF Accounts!Next, Accounts!Access
  <2>2. ASSUME NEW q \in Call, Reject(q)
        PROVE  Accounts!Next
    <3> DEFINE k == client[q]
    <3>1. /\ k \in Client /\ seen[q] \in 0..MaxTime /\ stage[q] = "timed"
          /\ Tokens(q) \in Accounts!Found(A[k], seen[q])
      BY <1>2, <1>4, <1>5, <2>2, Zenon DEF Reject
    <3>2. A' = [A EXCEPT ![k] = [tokens |-> Tokens(q), lastSeen |-> seen[q]]]
      BY <1>3, <1>5, <2>2, Zenon DEF Reject
    <3>3. granted' = granted /\ Tokens(q) < Cost
      BY <2>2, Zenon DEF Reject
    <3> HIDE DEF k
    <3>4. Accounts!Access(k, seen[q], Tokens(q))
      BY <3>1, <3>2, <3>3, Zenon DEF Accounts!Access
    <3> QED BY <3>1, <3>4, Zenon DEF Accounts!Next, Accounts!Access
  <2>3. CASE Sweep
    <3>1. A' = A
      BY <1>5, <2>3, Zenon DEF Sweep, Restrict, BudgetInv, LimiterTypeOK
    <3> QED BY <2>3, <3>1, Zenon DEF Sweep, Accounts!vars
  <2>4. ASSUME (\E q \in Call : ReadClock(q)) \/ BeginSweep \/ Tick \/ UNCHANGED limiterVars
        PROVE  UNCHANGED Accounts!vars
    <3>1. UNCHANGED <<buckets, forgotten, granted>>
      BY <2>4, Zenon DEF ReadClock, BeginSweep, Tick, limiterVars
    <3> QED BY <3>1, Zenon DEF Accounts!vars
  <2> QED BY <1>5, <2>1, <2>2, <2>3, <2>4, Zenon DEF LimiterNext
<1> QED BY <1>1, <1>5, BudgetInvariance, PTL DEF LimiterSpec, ImplementsAccounts, Accounts!Spec
============================================================================
