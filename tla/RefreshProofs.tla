--------------------------- MODULE RefreshProofs ---------------------------
(***************************************************************************)
(* What is fetched from outside while requests are served: proofs about the *)
(* keys of tokens, and about the bootstrap registry and the server around it. *)
(***************************************************************************)
EXTENDS Server, Verifier, WellFoundedInduction, TLAPS

\* A leaf that names no prover is tried with SMT, if need be again with more time, then with Zenon.
USE SMT, SMTT(10), SMTT(30), Zenon

(***************************************************************************)
(* Verifier.  VerifierInv is inductive for any callers, keys, tokens and   *)
(* times, and with it the bound on the use of withdrawn keys, the success  *)
(* of lookups for published ones, and the single acceptance of a token     *)
(* identifier.                                                             *)
(***************************************************************************)

\* New (jwks.go:65): a verifier starts without keys and without seen tokens.
LEMMA VerifierInitInv == VerifierInit => VerifierInv
<1> SUFFICES ASSUME VerifierInit PROVE VerifierInv
  BY Zenon
<1> USE VerifierAssumption DEF VerifierInit
<1>1. VerifierTypeOK
  <2>1. \A c \in Caller : NoDocument \in Documents
    BY Zenon DEF NoDocument, Documents
  <2>2. seen \in [DOMAIN seen -> Nat] /\ DOMAIN seen = {}
    OBVIOUS
  <2>3. issued \subseteq Kid
    BY Zenon
  <2>5. stage \in [Caller -> Places] /\ token \in [Caller -> Tokens \cup {None}]
    BY Zenon DEF Places
  <2>6. doc \in [Caller -> Documents]
    BY <2>1, Zenon
  <2> QED
    BY <2>2, <2>3, <2>5, <2>6, Zenon DEF VerifierTypeOK
<1>2. LockInv
  BY DEF LockInv
<1>3. KeysInv
  BY DEF KeysInv
<1>4. SeenInv
  BY DEF SeenInv, IsChecked, Token
<1> QED
  BY <1>1, <1>2, <1>3, <1>4, Zenon DEF VerifierInv

\* A goroutine presents a token, or goes on without the lock (jwks.go:213-231).
LEMMA LookupStep ==
  ASSUME VerifierInv, NEW c \in Caller,
         (\E t \in Tokens : Present(c, t)) \/ FastHit(c) \/ FastMiss(c) \/ RecheckHit(c)
  PROVE  VerifierInv'
<1> USE DEF VerifierInv
<1>1. /\ UNCHANGED <<now, issued, withdrawn, keys, nextFetch, lock, doc, seen, prune, honoured>>
      /\ \E p \in {"fast", "wait", "claims", "rejected"} : stage' = [stage EXCEPT ![c] = p]
      /\ stage[c] \in {"idle", "fast", "wait"}
  BY Zenon DEF Present, FastHit, FastMiss, RecheckHit, keyVars, replayVars, Goto
<1>2. \/ \E t \in Tokens : /\ token' = [token EXCEPT ![c] = t]
                           /\ lasting' = IF t.kid \in issued \cap Usable
                                         THEN lasting \cup {c} ELSE lasting
                           /\ stage[c] = "idle"
      \/ UNCHANGED <<token, lasting>> /\ stage[c] # "idle"
  BY Zenon DEF Present, FastHit, FastMiss, RecheckHit
<1>3. lasting' \subseteq Caller /\ token' \in [Caller -> Tokens \cup {None}]
  BY <1>2, Zenon DEF VerifierTypeOK
<1>4. VerifierTypeOK'
  <2>1. stage' \in [Caller -> Places]
    BY <1>1, Zenon DEF VerifierTypeOK, Places
  <2> QED
    BY <1>1, <1>3, <2>1, Zenon DEF VerifierTypeOK
<1>5. LockInv'
  BY <1>1 DEF VerifierTypeOK, LockInv
<1>6. KeysInv'
  BY <1>1, <1>2 DEF VerifierTypeOK, KeysInv, IsChecked
<1>7. SeenInv'
  BY <1>1, Zenon DEF SeenInv, IsChecked
<1> QED
  BY <1>4, <1>5, <1>6, <1>7, Zenon

\* A goroutine takes the write lock to fetch, and the provider answers
\* (jwks.go:223-259).
LEMMA FetchStep ==
  ASSUME VerifierInv, NEW c \in Caller, BeginFetch(c) \/ Receive(c) \/ ReceiveFails(c)
  PROVE  VerifierInv'
<1> USE DEF VerifierInv
<1>1. /\ UNCHANGED <<now, issued, withdrawn, keys, nextFetch, seen, prune, honoured, token,
                     lasting>>
      /\ doc' \in [Caller -> Documents]
  BY DEF BeginFetch, Receive, ReceiveFails, replayVars, VerifierTypeOK, Documents, NoDocument
<1>2. VerifierTypeOK'
  BY <1>1, Zenon DEF VerifierTypeOK, BeginFetch, Receive, ReceiveFails, Goto, Places
<1>3. LockInv'
  BY VerifierAssumption DEF VerifierTypeOK, LockInv, BeginFetch, Receive, ReceiveFails, Goto
<1>4. KeysInv'
  <2>1. CASE BeginFetch(c)
    BY <1>1, <2>1, Zenon DEF VerifierTypeOK, KeysInv, BeginFetch, Goto, IsChecked
  <2>2. CASE Receive(c)
    BY <1>1, <2>2, VerifierAssumption DEF VerifierTypeOK, KeysInv, Receive, Goto, IsChecked
  <2>3. CASE ReceiveFails(c)
    BY <1>1, <2>3 DEF VerifierTypeOK, KeysInv, ReceiveFails, Goto, IsChecked
  <2> QED
    BY <2>1, <2>2, <2>3, Zenon
<1>5. SeenInv'
  BY <1>1, Zenon DEF SeenInv, IsChecked
<1> QED
  BY <1>2, <1>3, <1>4, <1>5, Zenon

\* fetchLocked (jwks.go:277) replaces the keys.
LEMMA StoreStep ==
  ASSUME VerifierInv, NEW c \in Caller, Store(c)
  PROVE  VerifierInv'
<1> USE DEF VerifierInv
<1>1. /\ UNCHANGED <<now, issued, withdrawn, seen, prune, honoured, token, lasting>>
      /\ stage[c] = "decode" /\ lock = c /\ lock' = None
      /\ keys' = doc[c].keys \cap Usable /\ nextFetch' = now + RefreshEvery
      /\ doc' = [doc EXCEPT ![c] = NoDocument]
      /\ stage' = [stage EXCEPT ![c] = IF token[c].kid \in keys' THEN "claims" ELSE "unknown"]
  BY Zenon DEF Store, replayVars, Goto, LockInv, UsableKeys
<1>2. VerifierTypeOK'
  <2>1. doc' \in [Caller -> Documents] /\ stage' \in [Caller -> Places]
    BY <1>1, Zenon DEF VerifierTypeOK, NoDocument, Documents, Places
  <2>2. keys' \subseteq Kid /\ nextFetch' \in Nat
    BY <1>1, VerifierAssumption DEF VerifierTypeOK, Documents
  <2> QED
    BY <1>1, <2>1, <2>2, Zenon DEF VerifierTypeOK
<1>3. LockInv'
  BY <1>1, VerifierAssumption DEF VerifierTypeOK, LockInv
<1>4. KeysInv'
  <2>1. ASSUME NEW k \in keys'
        PROVE  k \in issued' \/ nextFetch' <= withdrawn'[k] + MaxFetch + RefreshEvery
    <3>1. /\ now <= doc[c].at + MaxFetch
          /\ k \in issued \/ doc[c].at <= withdrawn[k]
      BY <1>1, <2>1, Zenon DEF KeysInv
    <3>2. now \in Nat /\ doc[c].at \in Nat /\ withdrawn[k] \in Nat
          /\ MaxFetch \in Nat /\ RefreshEvery \in Nat
      BY <1>1, <2>1, VerifierAssumption, Zenon DEF VerifierTypeOK, Documents
    <3> QED
      BY <1>1, <3>1, <3>2
  <2>2. stage'[c] = "unknown" => c \notin lasting
    BY <1>1, Zenon DEF VerifierTypeOK, KeysInv
  <2>3. \A d \in Caller :
          /\ stage'[d] # "idle" => token'[d] \in Tokens
          /\ stage'[d] = "idle" => d \notin lasting'
          /\ d \in lasting' => token'[d].kid \in issued' \cap Usable
          /\ stage'[d] = "decode" =>
               /\ doc'[d].at <= now' /\ now' <= doc'[d].at + MaxFetch
               /\ \A k \in doc'[d].keys : k \in issued' \/ doc'[d].at <= withdrawn'[k]
               /\ d \in lasting' => token'[d].kid \in doc'[d].keys
          /\ stage'[d] = "unknown" => d \notin lasting'
          /\ stage'[d] = "replay" => IsChecked(token'[d])
    BY <1>1, <2>2, Zenon DEF VerifierTypeOK, KeysInv
  <2>4. nextFetch' <= now' + RefreshEvery
    BY <1>1, VerifierAssumption DEF VerifierTypeOK
  <2> QED
    BY <2>1, <2>3, <2>4, Zenon DEF KeysInv, IsChecked
<1>5. SeenInv'
  BY <1>1, Zenon DEF SeenInv, IsChecked
<1> QED
  BY <1>2, <1>3, <1>4, <1>5, Zenon

\* Verify's checks of the claims (jwks.go:107-168).
LEMMA ClaimsStep ==
  ASSUME VerifierInv, NEW c \in Caller, Claims(c)
  PROVE  VerifierInv'
<1> USE DEF VerifierInv
<1>1. /\ UNCHANGED <<now, issued, withdrawn, keys, nextFetch, lock, doc, seen, prune, honoured,
                     token, lasting>>
      /\ stage[c] = "claims"
      /\ \E p \in {"rejected", "replay", "accepted"} :
           stage' = [stage EXCEPT ![c] = p] /\ (p = "replay" => IsChecked(token[c]))
  BY Zenon DEF Claims, keyVars, replayVars, Goto
<1>2. VerifierTypeOK'
  BY <1>1 DEF VerifierTypeOK, Places
<1>3. LockInv'
  BY <1>1 DEF VerifierTypeOK, LockInv
<1>4. KeysInv'
  BY <1>1 DEF VerifierTypeOK, KeysInv, IsChecked
<1>5. SeenInv'
  BY <1>1, Zenon DEF SeenInv, IsChecked
<1> QED
  BY <1>2, <1>3, <1>4, <1>5, Zenon

\* The prune (replay.go:46) drops entries only after their expiry.
LEMMA PrunedKeeps ==
  ASSUME VerifierInv
  PROVE  /\ DOMAIN Pruned \subseteq DOMAIN seen /\ Pruned \in [DOMAIN Pruned -> Nat]
         /\ \A j \in DOMAIN Pruned : Pruned[j] = seen[j]
         /\ \A j \in DOMAIN seen : now <= seen[j] => j \in DOMAIN Pruned
BY Zenon DEF VerifierInv, VerifierTypeOK, Pruned, Restrict

\* replayCache.check (replay.go:38) records what it accepts.
LEMMA CheckStep ==
  ASSUME VerifierInv, NEW c \in Caller, Check(c)
  PROVE  VerifierInv'
<1> DEFINE t == token[c]
<1>1. /\ UNCHANGED <<now, issued, withdrawn, keys, nextFetch, lock, doc, token, lasting>>
      /\ stage[c] = "replay" /\ t \in Tokens /\ IsChecked(t)
  BY Zenon DEF Check, keyVars, VerifierInv, KeysInv
<1>2. t.jti \in Jti /\ t.exp \in Nat
  BY <1>1, VerifierAssumption, Zenon DEF IsChecked, Token
<1>3. /\ DOMAIN Pruned \subseteq DOMAIN seen /\ Pruned \in [DOMAIN Pruned -> Nat]
      /\ \A j \in DOMAIN Pruned : Pruned[j] = seen[j]
      /\ \A j \in DOMAIN seen : now <= seen[j] => j \in DOMAIN Pruned
  BY PrunedKeeps, Zenon
<1>4. /\ \E p \in {"rejected", "accepted"} : stage' = [stage EXCEPT ![c] = p]
      /\ prune' = IF prune = 0 \/ now > prune THEN now + PruneEvery ELSE prune
      /\ \/ seen' = Pruned /\ honoured' = honoured
         \/ /\ ~(t.jti \in DOMAIN Pruned /\ now < Pruned[t.jti])
            /\ seen' = [j \in DOMAIN Pruned \cup {t.jti} |->
                          IF j = t.jti THEN t.exp ELSE Pruned[j]]
            /\ honoured' = [honoured EXCEPT ![t.jti] = @ + 1]
  BY Zenon DEF Check, IsReplay, Goto
<1> HIDE DEF t
<1>5. VerifierTypeOK'
  <2>1. stage' \in [Caller -> Places] /\ prune' \in Nat
    BY <1>4, VerifierAssumption DEF VerifierInv, VerifierTypeOK, Places
  <2>2. DOMAIN seen' \subseteq Jti /\ seen' \in [DOMAIN seen' -> Nat]
    BY <1>2, <1>3, <1>4, Zenon DEF VerifierInv, VerifierTypeOK
  <2>3. honoured' \in [Jti -> Nat]
    BY <1>2, <1>4 DEF VerifierInv, VerifierTypeOK
  <2> QED
    BY <1>1, <2>1, <2>2, <2>3, Zenon DEF VerifierInv, VerifierTypeOK
<1>6. LockInv'
  BY <1>1, <1>4 DEF VerifierInv, VerifierTypeOK, LockInv
<1>7. KeysInv'
  BY <1>1, <1>4, Zenon DEF VerifierInv, VerifierTypeOK, KeysInv, IsChecked
<1>8. SeenInv'
  <2> SUFFICES ASSUME NEW u \in Tokens, IsChecked(u)
               PROVE  /\ u.jti \in DOMAIN seen' => seen'[u.jti] = u.exp
                      /\ honoured'[u.jti] > 0 => u.jti \in DOMAIN seen' \/ now' >= u.exp
    BY Zenon DEF SeenInv, IsChecked
  <2>1. /\ u.jti \in DOMAIN seen => seen[u.jti] = u.exp
        /\ honoured[u.jti] > 0 => u.jti \in DOMAIN seen \/ now >= u.exp
    BY Zenon DEF VerifierInv, SeenInv
  <2>2. u.jti \in Jti /\ u.exp \in Nat /\ now \in Nat /\ honoured \in [Jti -> Nat]
    BY VerifierAssumption, Zenon DEF IsChecked, Token, VerifierInv, VerifierTypeOK
  <2>3. u.jti = t.jti => u.exp = t.exp
    BY <1>1, <1>2, VerifierAssumption, Zenon DEF IsChecked
  <2>4. CASE seen' = Pruned /\ honoured' = honoured
    BY <1>1, <1>3, <2>1, <2>2, <2>4
  <2>5. CASE /\ ~(t.jti \in DOMAIN Pruned /\ now < Pruned[t.jti])
             /\ seen' = [j \in DOMAIN Pruned \cup {t.jti} |->
                           IF j = t.jti THEN t.exp ELSE Pruned[j]]
             /\ honoured' = [honoured EXCEPT ![t.jti] = @ + 1]
    <3>1. CASE u.jti = t.jti
      BY <2>3, <2>5, <3>1
    <3>2. CASE u.jti # t.jti
      BY <1>1, <1>2, <1>3, <2>1, <2>2, <2>5, <3>2
    <3> QED
      BY <3>1, <3>2, Zenon
  <2> QED
    BY <1>4, <2>4, <2>5, Zenon
<1> QED
  BY <1>5, <1>6, <1>7, <1>8, Zenon DEF VerifierInv

\* The provider's steps and the clock's (jwks.go:215, replay.go:45).
LEMMA EnvironmentStep ==
  ASSUME VerifierInv, (\E S \in Publications : Rotate(S)) \/ Pass
  PROVE  VerifierInv'
<1> USE DEF VerifierInv
<1>1. CASE Pass
  <2>1. /\ now' = now + 1 /\ now \in Nat
        /\ \A c \in Caller : stage[c] = "decode" => now < doc[c].at + MaxFetch
        /\ UNCHANGED <<issued, withdrawn, keys, nextFetch, lock, doc, seen, prune, honoured,
                       stage, token, lasting>>
    BY <1>1, Zenon DEF Pass, keyVars, replayVars, VerifierTypeOK
  <2>2. VerifierTypeOK'
    BY <2>1 DEF VerifierTypeOK
  <2>3. LockInv'
    BY <2>1, Zenon DEF LockInv
  <2>4. KeysInv'
    <3>1. \A c \in Caller : doc[c].at \in Nat
      BY Zenon DEF VerifierTypeOK, Documents
    <3>2. MaxFetch \in Nat /\ RefreshEvery \in Nat /\ nextFetch \in Nat
      BY VerifierAssumption, Zenon DEF VerifierTypeOK
    <3> QED
      BY <2>1, <3>1, <3>2 DEF KeysInv, IsChecked
  <2>5. SeenInv'
    <3>1. \A t \in Tokens : t.exp \in Nat
      BY VerifierAssumption, Zenon DEF Token
    <3> QED
      BY <2>1, <3>1 DEF SeenInv, IsChecked
  <2> QED
    BY <2>2, <2>3, <2>4, <2>5, Zenon
<1>2. ASSUME NEW S \in Publications, Rotate(S) PROVE VerifierInv'
  <2>1. /\ issued' = S
        /\ withdrawn' = [k \in Kid |-> IF k \in issued \ S THEN now ELSE withdrawn[k]]
        /\ lasting' = {c \in lasting : token[c].kid \in S}
        /\ UNCHANGED <<now, keys, nextFetch, lock, doc, seen, prune, honoured, stage, token>>
    BY <1>2, Zenon DEF Rotate, replayVars
  <2>2. VerifierTypeOK'
    BY <2>1, VerifierAssumption, Zenon DEF VerifierTypeOK
  <2>3. LockInv'
    BY <2>1, Zenon DEF LockInv
  <2>4. now \in Nat /\ nextFetch \in Nat /\ MaxFetch \in Nat /\ RefreshEvery \in Nat
    BY VerifierAssumption, Zenon DEF VerifierTypeOK
  <2>5. \A k \in keys' : k \in issued' \/ nextFetch' <= withdrawn'[k] + MaxFetch + RefreshEvery
    BY <2>1, <2>4 DEF VerifierTypeOK, KeysInv
  <2>6. ASSUME NEW c \in Caller, stage'[c] = "decode"
        PROVE  /\ doc'[c].at <= now' /\ now' <= doc'[c].at + MaxFetch
               /\ \A k \in doc'[c].keys : k \in issued' \/ doc'[c].at <= withdrawn'[k]
               /\ c \in lasting' => token'[c].kid \in doc'[c].keys
    <3>1. doc[c].keys \subseteq Kid
      BY Zenon DEF VerifierTypeOK, Documents
    <3> QED
      BY <2>1, <2>6, <3>1, Zenon DEF KeysInv
  <2>7. KeysInv'
    BY <2>1, <2>5, <2>6, Zenon DEF KeysInv, IsChecked
  <2>8. SeenInv'
    BY <2>1, Zenon DEF SeenInv, IsChecked
  <2> QED
    BY <2>2, <2>3, <2>7, <2>8, Zenon
<1> QED
  BY <1>1, <1>2, Zenon

\* VerifierInv holds in every reachable state of the verifier (jwks.go:213,
\* replay.go:38).
THEOREM VerifierInvariance == VerifierSpec => []VerifierInv
<1>1. ASSUME VerifierInv, [VerifierNext]_verifierVars PROVE VerifierInv'
  <2>1. CASE UNCHANGED verifierVars
    <3>1. UNCHANGED <<now, issued, withdrawn, keys, nextFetch, lock, doc, seen, prune, honoured,
                      stage, token, lasting>>
      BY <2>1, Zenon DEF verifierVars, keyVars, replayVars
    <3>2. VerifierTypeOK' /\ LockInv'
      BY <1>1, <3>1, Zenon DEF VerifierInv, VerifierTypeOK, LockInv
    <3>3. KeysInv' /\ SeenInv'
      BY <1>1, <3>1, Zenon DEF VerifierInv, KeysInv, SeenInv, IsChecked
    <3> QED
      BY <3>2, <3>3, Zenon DEF VerifierInv
  <2> QED
    BY Zenon, <1>1, <2>1, LookupStep, FetchStep, StoreStep, ClaimsStep, CheckStep, EnvironmentStep
    DEF VerifierNext, Step
<1> QED
  BY <1>1, VerifierInitInv, PTL DEF VerifierSpec

\* A published key is found (jwks.go:236).
THEOREM PublishedTheorem == VerifierSpec => []PublishedKeysAreFound
<1>1. VerifierInv => PublishedKeysAreFound
  BY Zenon DEF VerifierInv, KeysInv, PublishedKeysAreFound
<1> QED
  BY <1>1, VerifierInvariance, PTL

\* A token identifier that was accepted is not accepted again before its expiry
\* (replay.go:38).
THEOREM NoReplayTheorem == VerifierSpec => NoReplayBeforeExpiry
<1> DEFINE A == \A c \in Caller :
                  stage[c] = "replay" /\ stage'[c] = "accepted" /\ honoured[token[c].jti] > 0
                    => now >= token[c].exp
<1>1. ASSUME VerifierInv, [VerifierNext]_verifierVars PROVE [A]_verifierVars
  <2> SUFFICES ASSUME VerifierNext, NEW c \in Caller, stage[c] = "replay", stage'[c] = "accepted",
                      honoured[token[c].jti] > 0
               PROVE  now >= token[c].exp
    BY <1>1, Zenon
  <2> DEFINE t == token[c]
  <2>0. stage \in [Caller -> Places] /\ now \in Nat
    BY <1>1, Zenon DEF VerifierInv, VerifierTypeOK
  <2>1. Check(c)
    <3>1. ASSUME NEW d \in Caller \ {c}, Step(d) \/ \E u \in Tokens : Present(d, u) PROVE FALSE
      BY <2>0, <3>1, Zenon
      DEF Step, Present, FastHit, FastMiss, RecheckHit, BeginFetch, Receive, ReceiveFails, Store, Claims,
          Check, Goto
    <3>2. ASSUME (\E u \in Tokens : Present(c, u)) \/ FastHit(c) \/ FastMiss(c) \/ RecheckHit(c)
                 \/ BeginFetch(c) \/ Receive(c) \/ ReceiveFails(c) \/ Store(c) \/ Claims(c)
          PROVE  FALSE
      BY <3>2 DEF Present, FastHit, FastMiss, RecheckHit, BeginFetch, Receive, ReceiveFails, Store, Claims
    <3>3. ASSUME (\E S \in Publications : Rotate(S)) \/ Pass PROVE FALSE
      BY <3>3 DEF Rotate, Pass
    <3> QED
      BY <3>1, <3>2, <3>3, Zenon DEF VerifierNext, Step
  <2>2. t \in Tokens /\ IsChecked(t) /\ t.exp \in Nat
    BY <1>1, VerifierAssumption, Zenon DEF VerifierInv, KeysInv, Token
  <2>3. /\ t.jti \in DOMAIN seen => seen[t.jti] = t.exp
        /\ t.jti \in DOMAIN seen \/ now >= t.exp
    BY <1>1, <2>2, Zenon DEF VerifierInv, SeenInv
  <2>4. ~IsReplay(t)
    BY <2>0, <2>1 DEF Check, Goto
  <2>5. /\ \A j \in DOMAIN Pruned : Pruned[j] = seen[j]
        /\ \A j \in DOMAIN seen : now <= seen[j] => j \in DOMAIN Pruned
    BY <1>1, PrunedKeeps, Zenon
  <2> HIDE DEF t
  <2>6. now >= t.exp
    BY <2>0, <2>2, <2>3, <2>4, <2>5 DEF IsReplay
  <2> QED
    BY <2>6 DEF t
<1> QED
  BY <1>1, VerifierInvariance, PTL DEF VerifierSpec, NoReplayBeforeExpiry

\* A withdrawn key is used for RefreshEvery and a fetch at most (jwks.go:213).
THEOREM WithdrawnTheorem == VerifierSpec => WithdrawnKeysExpire
<1> DEFINE A == \A c \in Caller : stage[c] # "claims" /\ stage'[c] = "claims" =>
                  \/ token[c].kid \in issued
                  \/ now < withdrawn[token[c].kid] + MaxFetch + RefreshEvery
<1>1. ASSUME VerifierInv, [VerifierNext]_verifierVars PROVE [A]_verifierVars
  <2> SUFFICES ASSUME VerifierNext, NEW c \in Caller, stage[c] # "claims", stage'[c] = "claims",
                      token[c].kid \notin issued
               PROVE  now < withdrawn[token[c].kid] + MaxFetch + RefreshEvery
    BY <1>1, Zenon
  <2> DEFINE k == token[c].kid
  <2>0. /\ stage \in [Caller -> Places] /\ now \in Nat /\ nextFetch \in Nat
        /\ MaxFetch \in Nat /\ RefreshEvery \in Nat \ {0}
    BY <1>1, VerifierAssumption, Zenon DEF VerifierInv, VerifierTypeOK
  <2>1. FastHit(c) \/ RecheckHit(c) \/ Store(c)
    <3>1. ASSUME NEW d \in Caller, (\E t \in Tokens : Present(d, t)) \/ FastMiss(d) \/ BeginFetch(d)
                 \/ Receive(d) \/ ReceiveFails(d) \/ Claims(d) \/ Check(d)
          PROVE  FALSE
      BY <2>0, <3>1, Zenon DEF Present, FastMiss, BeginFetch, Receive, ReceiveFails, Claims, Check, Goto
    <3>2. ASSUME NEW d \in Caller \ {c}, FastHit(d) \/ RecheckHit(d) \/ Store(d) PROVE FALSE
      BY <2>0, <3>2, Zenon DEF FastHit, RecheckHit, Store, Goto
    <3>3. ASSUME (\E S \in Publications : Rotate(S)) \/ Pass PROVE FALSE
      BY <3>3, Zenon DEF Rotate, Pass
    <3> QED
      BY <3>1, <3>2, <3>3, Zenon DEF VerifierNext, Step
  <2>2. CASE FastHit(c) \/ RecheckHit(c)
    <3>1. now < nextFetch /\ k \in keys
      BY <2>2, Zenon DEF FastHit, RecheckHit, HasKey
    <3>2. nextFetch <= withdrawn[k] + MaxFetch + RefreshEvery /\ withdrawn[k] \in Nat
      BY <1>1, <3>1, Zenon DEF VerifierInv, KeysInv, VerifierTypeOK
    <3> QED
      BY <2>0, <3>1, <3>2
  <2>3. CASE Store(c)
    <3>1. stage[c] = "decode" /\ k \in doc[c].keys
      BY <2>0, <2>3, Zenon DEF Store, Goto, UsableKeys
    <3>2. now <= doc[c].at + MaxFetch /\ doc[c].at <= withdrawn[k]
      BY <1>1, <3>1, Zenon DEF VerifierInv, KeysInv
    <3>3. doc[c].at \in Nat /\ withdrawn[k] \in Nat
      BY <1>1, <3>1, Zenon DEF VerifierInv, VerifierTypeOK, Documents
    <3> QED
      BY <2>0, <3>2, <3>3
  <2> QED
    BY <2>1, <2>2, <2>3, Zenon
<1> QED
  BY <1>1, VerifierInvariance, PTL DEF VerifierSpec, WithdrawnKeysExpire

----------------------------------------------------------------------------
(***************************************************************************)
(* Bootstrap and Server: both lookups find the service that is responsible, *)
(* for any files; and for any number of requests, editions and refreshes the *)
(* tables stay within what was published and never go back, referrals follow *)
(* an edition that was current, and a clean exit loses no request.         *)
(***************************************************************************)

\* A set of numbers has a least one; used for the scans that stop at the first hit.
LEMMA LeastNumber ==
  ASSUME NEW T \in SUBSET Nat, T # {}
  PROVE  \E x \in T : \A y \in T : x <= y
<1> DEFINE R == OpToRel(<, Nat)
<1>1. IsWellFoundedOn(R, Nat)
  BY NatLessThanWellFounded, Zenon
<1>2. \A x, y \in Nat : x < y => <<x, y>> \in R
  BY Zenon DEF OpToRel
<1> HIDE DEF R
<1>3. \E x \in T : \A y \in T : ~(<<y, x>> \in R)
  BY <1>1, WFMin, Zenon
<1>4. PICK x \in T : \A y \in T : ~(<<y, x>> \in R)
  BY <1>3, Zenon
<1>5. ASSUME NEW y \in T PROVE x <= y
  <2>1. x \in Nat /\ y \in Nat
    BY Zenon
  <2>2. ~(y < x)
    BY <1>2, <1>4, <2>1, Zenon
  <2> QED BY <2>1, <2>2
<1> QED BY <1>5, Zenon

\* Min of a set of positions.
LEMMA MinFact ==
  ASSUME NEW n \in Nat, NEW T \in SUBSET (1..n), T # {}
  PROVE  Min(T) \in T /\ \A y \in T : Min(T) <= y
<1>1. T \in SUBSET Nat
  OBVIOUS
<1>2. \E x \in T : \A y \in T : x <= y
  BY <1>1, LeastNumber, Zenon
<1> QED BY <1>2, Zenon DEF Min

\* Max of a set of positions.
LEMMA MaxFact ==
  ASSUME NEW n \in Nat, NEW T \in SUBSET (1..n), T # {}
  PROVE  Max(T) \in T /\ \A y \in T : y <= Max(T)
<1> DEFINE U == {n - x : x \in T}
<1>0. \A x \in T : x \in Nat /\ x <= n
  OBVIOUS
<1>1. U \in SUBSET Nat /\ U # {}
  <2>1. \A x \in T : n - x \in Nat
    BY <1>0
  <2> QED BY <2>1, Zenon
<1>2. PICK u \in U : \A y \in U : u <= y
  BY <1>1, LeastNumber, Zenon
<1>3. PICK x \in T : u = n - x
  BY Zenon
<1>4. \A y \in T : x >= y
  <2> TAKE y \in T
  <2>1. n - y \in U /\ x \in Nat /\ y \in Nat
    BY <1>0, Zenon
  <2>2. n - x <= n - y
    BY <1>2, <1>3, <2>1, Zenon
  <2> QED BY <2>1, <2>2
<1>5. Max(T) \in T /\ \A y \in T : Max(T) >= y
  BY <1>4, Zenon DEF Max
<1>6. \A y \in T : y \in Int
  BY <1>0
<1> QED BY <1>5, <1>6, Zenon

----------------------------------------------------------------------------
\* Lowering a name keeps its length.
LEMMA Lowered ==
  ASSUME NEW name \in Name
  PROVE  ToLower(name) \in Name /\ Len(ToLower(name)) = Len(name)
BY LowerAssumption DEF Name, ToLower

\* Zones are names.
LEMMA ZoneNames ==
  ASSUME NEW file \in ZoneFile, NEW j \in DOMAIN file, NEW z \in file[j].for
  PROVE  z \in Name /\ Len(ToLower(z)) = Len(z) /\ Len(z) \in Nat
<1>1. file[j] \in [ok : BOOLEAN, for : SUBSET Name, urls : Seq(Url)]
  <2> DEFINE Services == [ok : BOOLEAN, for : SUBSET Name, urls : Seq(Url)]
  <2>1. file \in Seq(Services)
    BY Zenon DEF ZoneFile
  <2> HIDE DEF Services
  <2>2. file[j] \in Services
    BY <2>1
  <2> QED BY <2>2, Zenon DEF Services
<1>2. z \in Name
  BY <1>1, Zenon
<1> QED BY <1>2, Lowered DEF Name

\* The zones of the table Refresh makes are those that some service lists.
LEMMA TableDomain ==
  ASSUME NEW file, NEW zone
  PROVE  zone \in DOMAIN TldServers(file) <=>
           \E j \in DOMAIN file : file[j].ok /\ \E z \in file[j].for : ToLower(z) = zone
BY DEF TldServers

\* DomainServers finds the service responsible for a name, if there is one: the
\* longest zone, and of several services for it the last.
LEMMA DomainLookup ==
  ASSUME NEW file \in ZoneFile, NEW name \in Name
  PROVE  \/ \E i \in DOMAIN file : ResponsibleForName(file, name, i) /\ DomainServers(file, name) = file[i].urls
         \/ DomainServers(file, name) = <<>> /\ \A i \in DOMAIN file : ~ResponsibleForName(file, name, i)
<1> DEFINE L == ToLower(name)
           n == Len(name)
           Z(k) == SubSeq(L, k, n)
           table == TldServers(file)
           hits == {i \in DOMAIN name : Z(i) \in DOMAIN table}
<1>1. n \in Nat /\ DOMAIN name = 1..n /\ L \in Name /\ Len(L) = n /\ DOMAIN L = 1..n /\ DOMAIN file = 1..Len(file) /\ Len(file) \in Nat
  BY Lowered DEF Name, ZoneFile
<1>2. DomainServers(file, name) = IF hits = {} THEN <<>> ELSE table[Z(Min(hits))]
  BY Zenon DEF DomainServers
<1>3. \A k \in 1..n : Len(Z(k)) = n - k + 1
  BY <1>1 DEF Name
<1>4. \A zone : IsSuffix(zone, L) <=> \E k \in 1..n : zone = Z(k)
  BY <1>1, Zenon DEF IsSuffix
<1>5. \A j \in DOMAIN file : \A z \in file[j].for : z \in Name /\ Len(ToLower(z)) = Len(z)
  BY ZoneNames, Zenon
<1> HIDE DEF L, n, Z, table
<1>6. CASE hits = {}
  <2>1. ASSUME NEW i \in DOMAIN file, ResponsibleForName(file, name, i) PROVE FALSE
    <3>1. PICK zone \in {ToLower(z) : z \in file[i].for} : file[i].ok /\ IsSuffix(zone, L)
      BY <2>1, Zenon DEF ResponsibleForName, L
    <3>2. PICK k \in 1..n : zone = Z(k)
      BY <1>4, <3>1, Zenon
    <3>3. zone \in DOMAIN table
      BY <3>1, TableDomain, Zenon DEF table
    <3> QED BY <1>1, <1>6, <3>2, <3>3, Zenon
  <2> QED BY <1>2, <1>6, <2>1, Zenon
<1>7. CASE hits # {}
  <2> DEFINE m == Min(hits)
             zone == Z(m)
             i == Max(Listing(file, zone))
  <2>1. m \in hits /\ \A k \in hits : m <= k
    <3>1. hits \in SUBSET (1..n)
      BY <1>1, Zenon
    <3> HIDE DEF hits
    <3> QED BY <1>1, <1>7, <3>1, MinFact, Zenon
  <2>2. zone \in DOMAIN table /\ m \in 1..n
    BY <1>1, <2>1, Zenon
  <2> HIDE DEF m
  <2>3. Listing(file, zone) # {} /\ Listing(file, zone) \in SUBSET (1..Len(file))
    BY <1>1, <2>2, TableDomain, Zenon DEF Listing, table
  <2>4. i \in Listing(file, zone) /\ \A j \in Listing(file, zone) : j <= i
    BY <1>1, <2>3, MaxFact, Zenon
  <2>5. table[zone] = file[i].urls
    BY <2>2, Zenon DEF table, TldServers
  <2> HIDE DEF zone, i
  <2>6. i \in DOMAIN file /\ file[i].ok /\ zone \in {ToLower(z) : z \in file[i].for}
    BY <2>4, Zenon DEF Listing
  <2>7. IsSuffix(zone, L) /\ zone = Z(m)
    BY <1>4, <2>2, Zenon DEF zone
  <2>8. ASSUME NEW j \in DOMAIN file, file[j].ok, NEW z \in file[j].for, IsSuffix(ToLower(z), L)
        PROVE  Len(z) < Len(zone) \/ (ToLower(z) = zone /\ j <= i)
    <3>1. PICK k \in 1..n : ToLower(z) = Z(k)
      BY <1>4, <2>8, Zenon
    <3>2. Z(k) \in DOMAIN table
      BY <2>8, <3>1, TableDomain, Zenon DEF table
    <3>3. m <= k
      BY <1>1, <2>1, <3>2, Zenon
    <3>4. CASE k = m
      <4>1. j \in Listing(file, zone)
        BY <2>7, <2>8, <3>1, <3>4, Zenon DEF Listing
      <4> QED BY <2>4, <2>7, <3>1, <3>4, <4>1, Zenon
    <3>5. CASE k # m
      <4>1. Len(ToLower(z)) = n - k + 1 /\ Len(zone) = n - m + 1 /\ Len(ToLower(z)) = Len(z)
        BY <1>3, <1>5, <2>2, <2>7, <3>1, Zenon
      <4> QED BY <1>1, <2>2, <3>3, <3>5, <4>1
    <3> QED BY <3>4, <3>5, Zenon
  <2>9. ResponsibleForName(file, name, i)
    BY <2>6, <2>7, <2>8, Zenon DEF ResponsibleForName, L
  <2> QED BY <1>2, <1>7, <2>5, <2>6, <2>9, Zenon DEF zone, m
<1> QED BY <1>6, <1>7, Zenon

\* No two services are responsible for a name.
LEMMA DomainUnique ==
  ASSUME NEW file \in ZoneFile, NEW name \in Name, NEW i \in DOMAIN file, NEW j \in DOMAIN file,
         ResponsibleForName(file, name, i), ResponsibleForName(file, name, j)
  PROVE  i = j
<1> DEFINE L == ToLower(name)
<1>1. PICK x \in file[i].for :
        /\ file[i].ok /\ IsSuffix(ToLower(x), L)
        /\ \A k \in DOMAIN file : file[k].ok => \A z \in file[k].for :
             IsSuffix(ToLower(z), L) => Len(z) < Len(ToLower(x)) \/ (ToLower(z) = ToLower(x) /\ k <= i)
  BY DEF ResponsibleForName
<1>2. PICK y \in file[j].for :
        /\ file[j].ok /\ IsSuffix(ToLower(y), L)
        /\ \A k \in DOMAIN file : file[k].ok => \A z \in file[k].for :
             IsSuffix(ToLower(z), L) => Len(z) < Len(ToLower(y)) \/ (ToLower(z) = ToLower(y) /\ k <= j)
  BY DEF ResponsibleForName
<1>3. /\ Len(ToLower(x)) = Len(x) /\ Len(x) \in Nat /\ Len(ToLower(y)) = Len(y) /\ Len(y) \in Nat
      /\ i \in Nat /\ j \in Nat
  <2>1. i \in Nat /\ j \in Nat
    BY DEF ZoneFile
  <2> QED BY <2>1, ZoneNames, Zenon
<1>4. Len(y) < Len(x) \/ (ToLower(y) = ToLower(x) /\ j <= i)
  BY <1>1, <1>2, <1>3, Zenon
<1>5. Len(x) < Len(y) \/ (ToLower(x) = ToLower(y) /\ i <= j)
  BY <1>1, <1>2, <1>3, Zenon
<1> QED BY <1>3, <1>4, <1>5

\* IPServers finds the service responsible for an address, if there is one: the
\* first that lists a range with it.
LEMMA AddressLookup ==
  ASSUME NEW file \in RangeFile, NEW ip
  PROVE  \/ \E i \in DOMAIN file : ResponsibleForAddress(file, ip, i) /\ IPServers(file, ip) = file[i].urls
         \/ IPServers(file, ip) = <<>> /\ \A i \in DOMAIN file : ~ResponsibleForAddress(file, ip, i)
<1> DEFINE hits == {i \in DOMAIN file : file[i].ok /\ \E r \in file[i].for : ip \in r}
<1>1. DOMAIN file = 1..Len(file) /\ Len(file) \in Nat
  BY DEF RangeFile
<1>2. IPServers(file, ip) = IF hits = {} THEN <<>> ELSE file[Min(hits)].urls
  BY Zenon DEF IPServers
<1>3. \A i \in DOMAIN file : ResponsibleForAddress(file, ip, i) => i \in hits
  BY Zenon DEF ResponsibleForAddress
<1>4. CASE hits # {}
  <2>1. hits \in SUBSET (1..Len(file))
    BY <1>1, Zenon
  <2>2. Min(hits) \in hits /\ \A k \in hits : Min(hits) <= k
    <3> HIDE DEF hits
    <3> QED BY <1>1, <1>4, <2>1, MinFact, Zenon
  <2> DEFINE i == Min(hits)
  <2> HIDE DEF i
  <2>3. i \in 1..Len(file) /\ i \in hits /\ \A k \in hits : i <= k
    BY <2>1, <2>2, Zenon DEF i
  <2>4. ResponsibleForAddress(file, ip, i)
    <3>1. ASSUME NEW j \in 1..(i - 1) PROVE j \in DOMAIN file /\ j \notin hits
      BY <1>1, <2>3
    <3> QED BY <2>3, <3>1, Zenon DEF ResponsibleForAddress
  <2> QED BY <1>1, <1>2, <1>4, <2>3, <2>4, Zenon DEF i
<1> QED BY <1>2, <1>3, <1>4, Zenon

\* No two services are responsible for an address.
LEMMA AddressUnique ==
  ASSUME NEW file \in RangeFile, NEW ip, NEW i \in DOMAIN file, NEW j \in DOMAIN file,
         ResponsibleForAddress(file, ip, i), ResponsibleForAddress(file, ip, j)
  PROVE  i = j
<1>1. i \in 1..Len(file) /\ j \in 1..Len(file) /\ Len(file) \in Nat
  BY DEF RangeFile
<1>2. ~(i < j) /\ ~(j < i)
  <2>1. i < j => i \in 1..(j - 1)
    BY <1>1
  <2>2. j < i => j \in 1..(i - 1)
    BY <1>1
  <2> QED BY <2>1, <2>2, Zenon DEF ResponsibleForAddress
<1> QED BY <1>1, <1>2

----------------------------------------------------------------------------
\* Every file has an edition.
LEMMA Editions1 ==
  /\ \A f \in Files : Len(Edition[f]) \in Nat /\ Len(Edition[f]) >= 1
  /\ \A e \in 1..Len(Edition["dns"]) : Edition["dns"][e] \in ZoneFile
  /\ \A f \in {"ipv4", "ipv6"} : \A e \in 1..Len(Edition[f]) : Edition[f][e] \in RangeFile
<1>1. /\ Edition["dns"] \in Seq(ZoneFile) /\ Edition["dns"] # <<>>
      /\ Edition["ipv4"] \in Seq(RangeFile) /\ Edition["ipv4"] # <<>>
      /\ Edition["ipv6"] \in Seq(RangeFile) /\ Edition["ipv6"] # <<>>
  BY ServerAssumption, Zenon DEF Files
<1>2. ASSUME NEW S, NEW s \in Seq(S), s # <<>>
      PROVE  Len(s) \in Nat /\ Len(s) >= 1 /\ \A e \in 1..Len(s) : s[e] \in S
  BY <1>2
<1> QED BY <1>1, <1>2, Zenon DEF Files

\* The servers that a lookup finds are a list of URLs.
LEMMA ServersTyped ==
  ASSUME RegistryInv, NEW o \in Objects
  PROVE  Servers(o) \in Seq(Url)
<1>1. o \in Object
  BY ServerAssumption, Zenon
<1>2. tables[o.file] \in Nat /\ tables[o.file] <= Len(Edition[o.file]) /\ o.file \in Files
  <2>1. o.file \in Files
    BY <1>1, Zenon DEF Object, Files
  <2>2. tables[o.file] \in Nat /\ published[o.file] \in Nat
    BY <2>1, Zenon DEF RegistryInv, TypeOK, RegistryTypeOK, Editions
  <2>3. tables[o.file] <= published[o.file] /\ published[o.file] \in 1..Len(Edition[o.file])
    BY <2>1, Zenon DEF RegistryInv, Within
  <2> QED BY <2>1, <2>2, <2>3, Editions1
<1>3. CASE o.file = "dns"
  <2>1. o.name \in Name
    BY <1>1, <1>3, Zenon DEF Object
  <2>2. FileOf(o.file) \in ZoneFile
    <3>1. <<>> \in ZoneFile
      BY DEF ZoneFile
    <3> QED BY <1>2, <1>3, <3>1, Editions1 DEF FileOf
  <2> DEFINE file == FileOf(o.file)
  <2>3. ASSUME NEW k \in DOMAIN file PROVE file[k].urls \in Seq(Url)
    <3> DEFINE Services == [ok : BOOLEAN, for : SUBSET Name, urls : Seq(Url)]
    <3>1. file \in Seq(Services)
      BY <2>2, Zenon DEF ZoneFile
    <3> HIDE DEF Services, file
    <3>2. file[k] \in Services
      BY <2>3, <3>1
    <3> QED BY <3>2, Zenon DEF Services
  <2> HIDE DEF file
  <2>4. DomainServers(file, o.name) \in Seq(Url)
    <3>1. file \in ZoneFile
      BY <2>2, Zenon DEF file
    <3>2. <<>> \in Seq(Url)
      OBVIOUS
    <3> QED BY <2>1, <2>3, <3>1, <3>2, DomainLookup, Zenon
  <2> QED BY <1>3, <2>4, Zenon DEF Servers, file
<1>4. CASE o.file # "dns"
  <2>1. FileOf(o.file) \in RangeFile
    <3>1. <<>> \in RangeFile
      BY DEF RangeFile
    <3>2. o.file \in {"ipv4", "ipv6"}
      BY <1>2, <1>4, Zenon DEF Files
    <3> QED BY <1>2, <3>1, <3>2, Editions1 DEF FileOf
  <2> DEFINE file == FileOf(o.file)
  <2>2. ASSUME NEW k \in DOMAIN file PROVE file[k].urls \in Seq(Url)
    <3> DEFINE Services == [ok : BOOLEAN, for : SUBSET SUBSET Address, urls : Seq(Url)]
    <3>1. file \in Seq(Services)
      BY <2>1, Zenon DEF RangeFile
    <3> HIDE DEF Services, file
    <3>2. file[k] \in Services
      BY <2>2, <3>1
    <3> QED BY <3>2, Zenon DEF Services
  <2> HIDE DEF file
  <2>3. IPServers(file, o.name) \in Seq(Url)
    <3>1. file \in RangeFile
      BY <2>1, Zenon DEF file
    <3>2. <<>> \in Seq(Url)
      OBVIOUS
    <3> QED BY <2>2, <3>1, <3>2, AddressLookup, Zenon
  <2> QED BY <1>4, <2>3, Zenon DEF Servers, file
<1> QED BY <1>3, <1>4, Zenon

\* The first state satisfies the registry's invariant.
LEMMA InitRegistry == Init => RegistryInv
<1> SUFFICES ASSUME Init PROVE RegistryInv
  BY Zenon
<1>1. ProcessTypeOK
  <2>1. main = "config" /\ code = 0 /\ cancelled = FALSE /\ listener = "none" /\ enabled \in BOOLEAN
    BY Zenon DEF Init
  <2>2. code \in 0..2
    BY <2>1
  <2> QED BY <2>1, <2>2, Zenon DEF ProcessTypeOK
<1>2. RegistryTypeOK
  <2>1. registry = FALSE /\ tick = FALSE /\ loop = "none" /\ step = 0
    BY Zenon DEF Init
  <2>2. /\ got \in Editions /\ began \in Editions /\ tables \in Editions
        /\ floor \in Editions /\ published \in Editions
    BY Zenon DEF Init, Zero, Editions
  <2>3. step \in 0..4
    BY <2>1
  <2> QED BY <2>1, <2>2, <2>3, Zenon DEF RegistryTypeOK
<1>3. RequestTypeOK
  BY DEF Init, RequestTypeOK, NoAnswer
<1>4. OneRefresh
  BY DEF Init, OneRefresh, Alive
<1>5. \A f \in Files : Within(f)
  BY Editions1 DEF Init, Within, Zero
<1>6. Fetched
  BY DEF Init, Fetched
<1> QED BY <1>1, <1>2, <1>3, <1>4, <1>5, <1>6, Zenon DEF RegistryInv, TypeOK

\* A step outside the registry keeps its invariant.
LEMMA OutsideRegistry ==
  ASSUME RegistryInv, UNCHANGED bootVars, ProcessTypeOK', RequestTypeOK', OneRefresh'
  PROVE  RegistryInv'
<1>1. /\ registry' = registry /\ loop' = loop /\ tick' = tick /\ step' = step /\ got' = got
      /\ began' = began /\ tables' = tables /\ floor' = floor /\ published' = published
  BY Zenon DEF bootVars
<1>2. RegistryTypeOK'
  BY <1>1, Zenon DEF RegistryInv, TypeOK, RegistryTypeOK, Editions, Files
<1>3. \A f \in Files : Within(f)'
  BY <1>1, Zenon DEF RegistryInv, Within
<1>4. Fetched'
  BY <1>1, Zenon DEF RegistryInv, Fetched
<1> QED BY <1>2, <1>3, <1>4, Zenon DEF RegistryInv, TypeOK, Files

\* The steps of main, the listener and the requests that do not touch the registry.
LEMMA ExitKeeps ==
  ASSUME RegistryInv, NEW status \in 0..2, Exit(status), main \in {"config", "datasource", "shutdown"}
  PROVE  RegistryInv'
<1>1. /\ main' = "exited" /\ code' = status /\ cancelled' = cancelled /\ listener' = listener
      /\ enabled' = enabled /\ UNCHANGED bootVars /\ want' = want /\ answer' = answer
      /\ pc' = [q \in Request |-> IF pc[q] = "active" THEN "cut" ELSE pc[q]]
  BY Zenon DEF Exit, Cut
<1>2. ProcessTypeOK'
  BY <1>1, Zenon DEF RegistryInv, TypeOK, ProcessTypeOK
<1>3. RequestTypeOK'
  BY <1>1 DEF RegistryInv, TypeOK, RequestTypeOK
<1>4. OneRefresh'
  BY <1>1, Zenon DEF RegistryInv, OneRefresh, Alive, bootVars
<1> QED BY <1>1, <1>2, <1>3, <1>4, OutsideRegistry, Zenon

\* main, signals and the listener.
LEMMA ProcessKeeps ==
  ASSUME RegistryInv, Configure \/ Signal \/ Listen \/ ListenFails \/ BeginShutdown
  PROVE  RegistryInv'
<1>1. /\ UNCHANGED bootVars /\ pc' = pc /\ want' = want /\ answer' = answer
      /\ code' = code /\ enabled' = enabled /\ cancelled' \in {cancelled, TRUE}
      /\ listener' \in {listener, "open", "failed", "closed"}
      /\ \/ main' = main
         \/ main = "config" /\ main' = "datasource"
         \/ main = "serving" /\ main' = "shutdown"
  BY Zenon DEF Configure, Signal, Listen, ListenFails, BeginShutdown, reqVars
<1>2. ProcessTypeOK'
  BY <1>1, Zenon DEF RegistryInv, TypeOK, ProcessTypeOK
<1>3. RequestTypeOK'
  BY <1>1 DEF RegistryInv, TypeOK, RequestTypeOK
<1>4. OneRefresh'
  BY <1>1, Zenon DEF RegistryInv, OneRefresh, Alive, bootVars
<1> QED BY <1>1, <1>2, <1>3, <1>4, OutsideRegistry, Zenon

\* Requests only read the registry.
LEMMA RequestsKeep ==
  ASSUME RegistryInv, NEW q \in Request, Accept(q) \/ Answer(q)
  PROVE  RegistryInv'
<1>1. /\ UNCHANGED bootVars /\ want' = want
      /\ main' = main /\ code' = code /\ cancelled' = cancelled /\ listener' = listener /\ enabled' = enabled
      /\ \/ pc' = [pc EXCEPT ![q] = "active"] /\ answer' = answer
         \/ Answer(q) /\ pc' = [pc EXCEPT ![q] = "answered"]
  BY Zenon DEF Accept, Answer, procVars
<1>2. ProcessTypeOK'
  BY <1>1, Zenon DEF RegistryInv, TypeOK, ProcessTypeOK
<1>3. RequestTypeOK'
  <2>1. RequestTypeOK
    BY Zenon DEF RegistryInv, TypeOK
  <2>2. pc' \in [Request -> {"none", "active", "answered", "cut"}] /\ want' \in [Request -> Objects]
    BY <1>1, <2>1, ZenonT(30) DEF RequestTypeOK
  <2>3. CASE answer' = answer
    BY <2>1, <2>2, <2>3, Zenon DEF RequestTypeOK
  <2>4. CASE Answer(q)
    <3> DEFINE o == want[q]
               urls == IF registry THEN Servers(o) ELSE <<>>
               a == [status |-> IF urls # <<>> THEN 302 ELSE 404, urls |-> urls,
                     floor |-> floor[o.file], top |-> published[o.file]]
    <3>1. answer' = [answer EXCEPT ![q] = a]
      BY <2>4, Zenon DEF Answer
    <3>2. o \in Objects /\ o.file \in Files
      BY <2>1, ServerAssumption DEF RequestTypeOK, Object, Files
    <3>3. urls \in Seq(Url)
      BY <3>2, ServersTyped
    <3>4. floor[o.file] \in Nat /\ published[o.file] \in Nat
      BY <3>2, Zenon DEF RegistryInv, TypeOK, RegistryTypeOK, Editions
    <3> HIDE DEF urls, o
    <3>5. a \in [status : {0, 302, 404}, urls : Seq(Url), floor : Nat, top : Nat]
      BY <3>3, <3>4
    <3> HIDE DEF a
    <3> QED BY <2>1, <2>2, <3>1, <3>5 DEF RequestTypeOK
  <2> QED BY <1>1, <2>3, <2>4, Zenon
<1>4. OneRefresh'
  BY <1>1, Zenon DEF RegistryInv, OneRefresh, Alive, bootVars
<1> QED BY <1>1, <1>2, <1>3, <1>4, OutsideRegistry, Zenon

\* The three files, in the order of Refresh.
LEMMA FileFact ==
  /\ \A i \in 1..3 : File[i] \in Files
  /\ \A i, j \in 1..3 : File[i] = File[j] => i = j
  /\ \A f \in Files : \E i \in 1..3 : f = File[i]
<1>1. File[1] = "dns" /\ File[2] = "ipv4" /\ File[3] = "ipv6"
  BY Zenon DEF File
<1>2. \A i \in 1..3 : i = 1 \/ i = 2 \/ i = 3
  OBVIOUS
<1>3. 1 \in 1..3 /\ 2 \in 1..3 /\ 3 \in 1..3
  OBVIOUS
<1> QED BY <1>1, <1>2, <1>3, Zenon DEF Files

\* The parts of the invariant at one file, unfolded once for the steps below.
LEMMA AtFile ==
  ASSUME RegistryInv, NEW f \in Files
  PROVE  /\ got[f] \in Nat /\ began[f] \in Nat /\ tables[f] \in Nat /\ floor[f] \in Nat
         /\ published[f] \in Nat /\ step \in 0..4
         /\ floor[f] <= tables[f] /\ tables[f] <= published[f]
         /\ published[f] >= 1 /\ published[f] <= Len(Edition[f])
         /\ registry <=> floor[f] > 0
         /\ step > 0 => began[f] >= 1 /\ began[f] <= published[f] /\ tables[f] <= began[f]
<1>1. step \in 0..4 /\ got \in Editions /\ began \in Editions /\ tables \in Editions
      /\ floor \in Editions /\ published \in Editions
  BY Zenon DEF RegistryInv, TypeOK, RegistryTypeOK
<1>2. Within(f)
  BY Zenon DEF RegistryInv
<1> QED BY <1>1, <1>2, Editions1 DEF Editions, Within

\* main opens the data source, and perhaps begins the first refresh.
LEMMA ConnectKeeps ==
  ASSUME RegistryInv, Connect
  PROVE  RegistryInv'
<1>1. /\ main = "datasource" /\ code' = code /\ cancelled' = cancelled /\ enabled' = enabled
      /\ registry' = registry /\ loop' = loop /\ tick' = tick /\ pc' = pc /\ want' = want /\ answer' = answer
      /\ tables' = tables /\ floor' = floor /\ published' = published
      /\ \/ main' = "bootstrap" /\ listener' = listener /\ step' = 1 /\ got' = Zero /\ began' = published
         \/ main' = "serving" /\ listener' = "starting" /\ step' = step /\ got' = got /\ began' = began
  BY Zenon DEF Connect, BeginRefresh, reqVars
<1>2. ProcessTypeOK'
  BY <1>1, Zenon DEF RegistryInv, TypeOK, ProcessTypeOK
<1>3. RegistryTypeOK'
  BY <1>1 DEF RegistryInv, TypeOK, RegistryTypeOK, Editions, Zero
<1>4. RequestTypeOK'
  BY <1>1, Zenon DEF RegistryInv, TypeOK, RequestTypeOK
<1>5. step = 0 /\ ~registry /\ loop = "none"
  BY <1>1 DEF RegistryInv, TypeOK, RegistryTypeOK, OneRefresh, Alive
<1>6. OneRefresh'
  BY <1>1, <1>5 DEF OneRefresh, Alive
<1>7. ASSUME NEW f \in Files PROVE Within(f)'
  <2>1. floor[f] <= tables[f] /\ tables[f] <= published[f] /\ published[f] \in 1..Len(Edition[f])
        /\ (registry <=> floor[f] > 0) /\ tables[f] \in Nat /\ published[f] \in Nat
    BY AtFile, Editions1
  <2>2. began'[f] = published[f] \/ step' = 0
    BY <1>1, <1>5, Zenon
  <2> QED BY <1>1, <2>1, <2>2 DEF Within
<1>8. Fetched'
  BY <1>1, <1>5 DEF Fetched
<1> QED BY <1>2, <1>3, <1>4, <1>6, <1>7, <1>8, Zenon DEF RegistryInv, TypeOK, Files

\* A file arrives.
LEMMA FetchKeeps ==
  ASSUME RegistryInv, Fetch
  PROVE  RegistryInv'
<1> DEFINE g == File[step]
<1>1. /\ main' = main /\ code' = code /\ cancelled' = cancelled /\ enabled' = enabled /\ listener' = listener
      /\ registry' = registry /\ loop' = loop /\ tick' = tick /\ pc' = pc /\ want' = want /\ answer' = answer
      /\ tables' = tables /\ floor' = floor /\ published' = published /\ began' = began
      /\ step \in 1..3 /\ step' = step + 1 /\ got' = [got EXCEPT ![g] = published[g]] /\ Alive
  BY Zenon DEF Fetch, reqVars, procVars
<1>2. ProcessTypeOK'
  BY <1>1, Zenon DEF RegistryInv, TypeOK, ProcessTypeOK
<1>a. g \in Files
  BY <1>1, FileFact, Zenon
<1> HIDE DEF g
<1>3. RegistryTypeOK'
  <2>1. got \in [Files -> Nat] /\ published[g] \in Nat
    BY <1>a, AtFile, Zenon DEF RegistryInv, TypeOK, RegistryTypeOK, Editions
  <2>2. got' \in [Files -> Nat] /\ step' \in 0..4
    <3>1. got' = [got EXCEPT ![g] = published[g]]
      BY <1>1, Zenon
    <3>2. got' \in [Files -> Nat]
      BY <2>1, <3>1, Zenon
    <3>3. step' \in 0..4
      BY <1>1
    <3> QED BY <3>2, <3>3, Zenon
  <2> QED BY <1>1, <2>2, Zenon DEF RegistryInv, TypeOK, RegistryTypeOK, Editions
<1>4. RequestTypeOK'
  BY <1>1 DEF RegistryInv, TypeOK, RequestTypeOK
<1>6. OneRefresh'
  BY <1>1 DEF RegistryInv, OneRefresh, Alive
<1>7. ASSUME NEW f \in Files PROVE Within(f)'
  BY <1>1, AtFile DEF RegistryInv, Within
<1>8. Fetched'
  <2> SUFFICES ASSUME NEW i \in 1..3, i < step + 1
               PROVE  got'[File[i]] \in began[File[i]]..published[File[i]]
    BY <1>1, Zenon DEF Fetched
  <2>1. got \in [Files -> Nat] /\ File[i] \in Files
    BY FileFact, Zenon DEF RegistryInv, TypeOK, RegistryTypeOK, Editions
  <2>2. CASE i = step
    <3>1. began[g] \in Nat /\ published[g] \in Nat /\ began[g] <= published[g] /\ got'[g] = published[g]
      BY <1>1, <1>a, <2>1, AtFile
    <3> QED BY <2>2, <3>1 DEF g
  <2>3. CASE i < step
    <3>1. File[i] # g
      BY <1>1, <2>3, FileFact DEF g
    <3> QED BY <1>1, <2>1, <2>3, <3>1, Zenon DEF RegistryInv, Fetched
  <2> QED BY <1>1, <2>2, <2>3
<1> QED BY <1>2, <1>3, <1>4, <1>6, <1>7, <1>8, Zenon DEF RegistryInv, TypeOK, Files

\* Whoever waits for the refresh that ends: main, before the registry is used, or the loop.
LEMMA Waiting ==
  ASSUME RegistryInv, Alive, step > 0
  PROVE  \/ main = "bootstrap" /\ ~registry /\ loop = "none"
         \/ main # "bootstrap" /\ registry /\ loop = "refreshing" /\ main \notin {"config", "datasource"}
BY Zenon DEF RegistryInv, TypeOK, RegistryTypeOK, ProcessTypeOK, OneRefresh, Alive

\* A refresh ends without replacing the tables.
LEMMA FetchFailsKeeps ==
  ASSUME RegistryInv, FetchFails
  PROVE  RegistryInv'
<1>1. /\ code' = code /\ cancelled' = cancelled /\ enabled' = enabled
      /\ tick' = tick /\ pc' = pc /\ want' = want /\ answer' = answer
      /\ tables' = tables /\ floor' = floor /\ published' = published /\ began' = began /\ got' = got
      /\ Alive /\ step \in 1..3 /\ step' = 0 /\ Resume(FALSE)
  BY Zenon DEF FetchFails, reqVars
<1>2. \/ main = "bootstrap" /\ ~registry /\ main' = "serving" /\ listener' = "starting"
         /\ registry' = FALSE /\ loop' = "none"
      \/ main # "bootstrap" /\ registry /\ main' = main /\ listener' = listener
         /\ registry' = registry /\ loop' = "waiting" /\ main \notin {"config", "datasource"}
  BY <1>1, Waiting DEF Resume
<1>3. ProcessTypeOK'
  BY <1>1, <1>2, Zenon DEF RegistryInv, TypeOK, ProcessTypeOK
<1>a. registry' = registry
  BY <1>2, Zenon DEF RegistryInv, TypeOK, RegistryTypeOK
<1>4. RegistryTypeOK'
  BY <1>1, <1>2, <1>a DEF RegistryInv, TypeOK, RegistryTypeOK, Editions
<1>5. RequestTypeOK'
  BY <1>1, Zenon DEF RegistryInv, TypeOK, RequestTypeOK
<1>6. OneRefresh'
  BY <1>1, <1>2 DEF OneRefresh, Alive
<1>7. ASSUME NEW f \in Files PROVE Within(f)'
  <2>1. Within(f)
    BY Zenon DEF RegistryInv
  <2> QED BY <1>1, <1>a, <2>1 DEF Within
<1>8. Fetched'
  BY <1>1 DEF Fetched
<1> QED BY <1>3, <1>4, <1>5, <1>6, <1>7, <1>8, Zenon DEF RegistryInv, TypeOK, Files

\* When all files have arrived, what was fetched lies between what was published
\* when the refresh began and what is published now.
LEMMA AllFetched ==
  ASSUME RegistryInv, step = 4, NEW f \in Files
  PROVE  began[f] <= got[f] /\ got[f] <= published[f]
<1>1. PICK i \in 1..3 : f = File[i]
  BY FileFact, Zenon
<1>2. got[f] \in began[f]..published[f]
  BY <1>1 DEF RegistryInv, Fetched
<1> QED BY <1>2, AtFile

\* The tables are replaced.
LEMMA SwapKeeps ==
  ASSUME RegistryInv, Swap
  PROVE  RegistryInv'
<1>1. /\ code' = code /\ cancelled' = cancelled /\ enabled' = enabled
      /\ tick' = tick /\ pc' = pc /\ want' = want /\ answer' = answer
      /\ tables' = got /\ floor' = began /\ published' = published /\ began' = began /\ got' = got
      /\ Alive /\ step = 4 /\ step' = 0 /\ Resume(TRUE)
  BY Zenon DEF Swap, reqVars
<1>2. \/ main = "bootstrap" /\ main' = "serving" /\ listener' = "starting"
         /\ registry' = TRUE /\ loop' = "waiting"
      \/ main # "bootstrap" /\ registry /\ main' = main /\ listener' = listener
         /\ registry' = registry /\ loop' = "waiting" /\ main \notin {"config", "datasource"}
  BY <1>1, Waiting DEF Resume
<1>3. ProcessTypeOK'
  BY <1>1, <1>2, Zenon DEF RegistryInv, TypeOK, ProcessTypeOK
<1>a. registry' = TRUE
  BY <1>2, Zenon DEF RegistryInv, TypeOK, RegistryTypeOK
<1>4. RegistryTypeOK'
  <2>1. registry' \in BOOLEAN
    BY <1>a, Zenon
  <2> QED BY <1>1, <1>2, <2>1 DEF RegistryInv, TypeOK, RegistryTypeOK, Editions
<1>5. RequestTypeOK'
  BY <1>1, Zenon DEF RegistryInv, TypeOK, RequestTypeOK
<1>6. OneRefresh'
  BY <1>1, <1>2 DEF OneRefresh, Alive
<1>7. ASSUME NEW f \in Files PROVE Within(f)'
  <2>1. began[f] \in Nat /\ began[f] >= 1 /\ began[f] <= got[f] /\ got[f] <= published[f]
        /\ published[f] \in 1..Len(Edition[f])
    BY <1>1, AtFile, AllFetched, Editions1
  <2> QED BY <1>1, <1>a, <2>1 DEF Within
<1>8. Fetched'
  BY <1>1 DEF Fetched
<1> QED BY <1>3, <1>4, <1>5, <1>6, <1>7, <1>8, Zenon DEF RegistryInv, TypeOK, Files

\* The refresh loop.
LEMMA LoopKeeps ==
  ASSUME RegistryInv, Tick \/ LoopRefreshes \/ LoopStops
  PROVE  RegistryInv'
<1>1. /\ main' = main /\ code' = code /\ cancelled' = cancelled /\ enabled' = enabled /\ listener' = listener
      /\ registry' = registry /\ pc' = pc /\ want' = want /\ answer' = answer
      /\ tables' = tables /\ floor' = floor /\ published' = published /\ Alive
      /\ tick' \in {tick, TRUE, FALSE}
      /\ \/ loop' = loop /\ step' = step /\ got' = got /\ began' = began
         \/ loop = "waiting" /\ loop' = "refreshing" /\ step' = 1 /\ got' = Zero /\ began' = published
         \/ loop = "waiting" /\ loop' = "stopped" /\ step' = step /\ got' = got /\ began' = began
  BY Zenon DEF Tick, LoopRefreshes, LoopStops, BeginRefresh, procVars, reqVars
<1>2. ProcessTypeOK'
  BY <1>1, Zenon DEF RegistryInv, TypeOK, ProcessTypeOK
<1>3. RegistryTypeOK'
  <2>1. tick' \in BOOLEAN
    BY <1>1, Zenon DEF RegistryInv, TypeOK, RegistryTypeOK
  <2> QED BY <1>1, <2>1 DEF RegistryInv, TypeOK, RegistryTypeOK, Editions, Zero
<1>4. RequestTypeOK'
  BY <1>1 DEF RegistryInv, TypeOK, RequestTypeOK
<1>5. loop = "waiting" => step = 0 /\ registry
  BY <1>1 DEF RegistryInv, TypeOK, RegistryTypeOK, OneRefresh, Alive
<1>6. OneRefresh'
  BY <1>1, <1>5 DEF RegistryInv, OneRefresh, Alive
<1>7. ASSUME NEW f \in Files PROVE Within(f)'
  <2>1. Within(f) /\ published[f] \in Nat
    BY AtFile, Zenon DEF RegistryInv
  <2>2. (step' = step /\ began' = began) \/ began' = published
    BY <1>1, Zenon
  <2> QED BY <1>1, <2>1, <2>2 DEF Within
<1>8. Fetched'
  <2>1. CASE step' = 1
    <3>1. CASE began' = published
      BY <1>1, <2>1 DEF Fetched
    <3>2. CASE began' = began /\ got' = got /\ step' = step
      BY <1>1, <2>1, <3>2, Zenon DEF RegistryInv, Fetched
    <3> QED BY <1>1, <3>1, <3>2, ZenonT(30)
  <2>2. CASE step' = step /\ got' = got /\ began' = began
    BY <1>1, <2>2, Zenon DEF RegistryInv, Fetched
  <2> QED BY <1>1, <2>1, <2>2, Zenon
<1> QED BY <1>2, <1>3, <1>4, <1>6, <1>7, <1>8, Zenon DEF RegistryInv, TypeOK, Files

\* A publication.
LEMMA PublishKeeps ==
  ASSUME RegistryInv, NEW g \in Files, Publish(g)
  PROVE  RegistryInv'
<1>1. /\ main' = main /\ code' = code /\ cancelled' = cancelled /\ enabled' = enabled /\ listener' = listener
      /\ registry' = registry /\ loop' = loop /\ tick' = tick /\ pc' = pc /\ want' = want /\ answer' = answer
      /\ tables' = tables /\ floor' = floor /\ step' = step /\ got' = got /\ began' = began
      /\ published[g] < Len(Edition[g])
  BY Zenon DEF Publish, procVars, reqVars
<1>2. published' \in [Files -> Nat] /\ \A f \in Files : published'[f] = IF f = g THEN published[f] + 1 ELSE published[f]
  <2>1. published \in [Files -> Nat]
    BY Zenon DEF RegistryInv, TypeOK, RegistryTypeOK, Editions
  <2>2. published' = [published EXCEPT ![g] = published[g] + 1]
    BY Zenon DEF Publish
  <2>3. published[g] + 1 \in Nat
    BY <2>1
  <2> QED BY <2>1, <2>2, <2>3, Zenon
<1>3. ProcessTypeOK'
  BY <1>1, Zenon DEF RegistryInv, TypeOK, ProcessTypeOK
<1>4. RegistryTypeOK'
  BY <1>1, <1>2, Zenon DEF RegistryInv, TypeOK, RegistryTypeOK, Editions
<1>5. RequestTypeOK'
  BY <1>1, ZenonT(30) DEF RegistryInv, TypeOK, RequestTypeOK
<1>6. OneRefresh'
  BY <1>1, Zenon DEF RegistryInv, OneRefresh, Alive
<1>a. ASSUME NEW f \in Files
      PROVE  published[f] <= published'[f] /\ published'[f] \in 1..Len(Edition[f])
  BY <1>1, <1>2, AtFile, Editions1
<1>7. ASSUME NEW f \in Files PROVE Within(f)'
  <2>1. published'[f] \in Nat /\ published[f] <= published'[f] /\ published'[f] \in 1..Len(Edition[f])
    BY <1>2, <1>a, ZenonT(30)
  <2> QED BY <1>1, <2>1, AtFile DEF Within
<1>8. Fetched'
  <2> SUFFICES ASSUME NEW i \in 1..3, i < step
               PROVE  got[File[i]] \in began[File[i]]..published'[File[i]]
    BY <1>1, Zenon DEF Fetched
  <2>1. File[i] \in Files
    BY FileFact, Zenon
  <2>2. got[File[i]] \in began[File[i]]..published[File[i]]
    BY Zenon DEF RegistryInv, Fetched
  <2>3. published[File[i]] <= published'[File[i]] /\ published'[File[i]] \in Nat
    BY <1>2, <1>a, <2>1, Zenon
  <2> QED BY <2>1, <2>2, <2>3, AtFile
<1> QED BY <1>3, <1>4, <1>5, <1>6, <1>7, <1>8, Zenon DEF RegistryInv, TypeOK, Files

\* Every step keeps the registry's invariant.
LEMMA RegistryStep == RegistryInv /\ [Next]_vars => RegistryInv'
<1> SUFFICES ASSUME RegistryInv, [Next]_vars PROVE RegistryInv'
  BY Zenon
<1>1. CASE ConfigFails \/ DatasourceFails \/ ShutdownReturns \/ ShutdownTimesOut
  BY <1>1, ExitKeeps DEF ConfigFails, DatasourceFails, ShutdownReturns, ShutdownTimesOut
<1>2. CASE Configure \/ Signal \/ Listen \/ ListenFails \/ BeginShutdown
  BY <1>2, ProcessKeeps, Zenon
<1>3. CASE Connect
  BY <1>3, ConnectKeeps, Zenon
<1>4. CASE Fetch \/ FetchFails \/ Swap
  BY <1>4, FetchKeeps, FetchFailsKeeps, SwapKeeps, Zenon
<1>5. CASE Tick \/ LoopRefreshes \/ LoopStops
  BY <1>5, LoopKeeps, Zenon
<1>6. CASE \E q \in Request : Accept(q) \/ Answer(q)
  BY <1>6, RequestsKeep, Zenon
<1>7. CASE \E f \in Files : Publish(f)
  BY <1>7, PublishKeeps, Zenon
<1>8. CASE UNCHANGED vars
  <2>1. UNCHANGED bootVars /\ UNCHANGED procVars /\ UNCHANGED reqVars
    BY <1>8, Zenon DEF vars
  <2>2. ProcessTypeOK' /\ RequestTypeOK' /\ OneRefresh'
    BY <2>1 DEF RegistryInv, TypeOK, ProcessTypeOK, RequestTypeOK, OneRefresh, Alive, procVars, reqVars, bootVars
  <2> QED BY <2>1, <2>2, OutsideRegistry, Zenon
<1> QED BY <1>1, <1>2, <1>3, <1>4, <1>5, <1>6, <1>7, <1>8, Zenon DEF Next, StartUp, Refreshing, ShuttingDown

\* main and Refresh (main.go:132, bootstrap.go:59), for any number of requests,
\* editions and refreshes: one refresh at a time, a registry in use has been
\* filled, and its tables lie between what was published when their refresh
\* began and what is published now.
THEOREM RegistryInvariance == Spec => []RegistryInv
<1>1. Init => RegistryInv
  BY InitRegistry, Zenon
<1>2. RegistryInv /\ [Next]_vars => RegistryInv'
  BY RegistryStep, Zenon
<1> QED BY <1>1, <1>2, PTL DEF Spec

\* Refresh (bootstrap.go:59): no step replaces a table by an older one.
THEOREM TablesTheorem == Spec => TablesNeverOlder
<1>1. RegistryInv /\ [Next]_vars => [\A f \in Files : tables[f] <= tables'[f]]_vars
  <2> SUFFICES ASSUME RegistryInv, Next, NEW f \in Files PROVE tables[f] <= tables'[f]
    BY Zenon
  <2>1. tables[f] \in Nat
    BY AtFile, Zenon
  <2>2. CASE Swap
    <3>1. tables'[f] = got[f] /\ step = 4
      BY <2>2, Zenon DEF Swap
    <3>2. tables[f] <= began[f] /\ began[f] <= got[f] /\ began[f] \in Nat /\ got[f] \in Nat
      BY <3>1, AtFile, AllFetched
    <3> QED BY <2>1, <3>1, <3>2
  <2>3. CASE tables' = tables
    BY <2>1, <2>3
  <2>4. Swap \/ tables' = tables
    BY Zenon DEF Next, StartUp, Refreshing, ShuttingDown, ConfigFails, Configure, DatasourceFails, Connect,
           Fetch, FetchFails, LoopRefreshes, BeginRefresh, BeginShutdown, ShutdownReturns, ShutdownTimesOut,
           Exit, Tick, LoopStops, Signal, Listen, ListenFails, Accept, Answer, Publish, bootVars
  <2> QED BY <2>2, <2>3, <2>4, Zenon
<1> QED BY <1>1, RegistryInvariance, PTL DEF Spec, TablesNeverOlder

----------------------------------------------------------------------------
\* What a step does to requests: all may be cut at once, one may be accepted or
\* answered, or nothing happens to them.
LEMMA RequestSteps ==
  ASSUME [Next]_vars
  PROVE  \/ pc' = pc /\ want' = want /\ answer' = answer
         \/ main' = "exited" /\ Cut /\ want' = want /\ answer' = answer
            /\ (code' = 0 => Active = {} /\ main = "shutdown")
         \/ \E q \in Request : Accept(q) \/ Answer(q)
<1>1. CASE UNCHANGED vars
  BY <1>1, Zenon DEF vars, reqVars
<1>2. CASE \E q \in Request : Accept(q) \/ Answer(q)
  BY <1>2, Zenon
<1>3. CASE ConfigFails \/ DatasourceFails \/ ShutdownReturns \/ ShutdownTimesOut
  BY <1>3 DEF ConfigFails, DatasourceFails, ShutdownReturns, ShutdownTimesOut, Exit
<1>4. CASE \/ Configure \/ Connect \/ Refreshing \/ BeginShutdown \/ Tick \/ LoopStops
           \/ Signal \/ Listen \/ ListenFails \/ \E f \in Files : Publish(f)
  BY <1>4, Zenon DEF Configure, Connect, Refreshing, Fetch, FetchFails, Swap, LoopRefreshes, BeginShutdown, Tick,
              LoopStops, Signal, Listen, ListenFails, Publish, reqVars
<1> QED BY <1>1, <1>2, <1>3, <1>4, Zenon DEF Next, StartUp, ShuttingDown

\* No request is cut while the process runs; what makes GracefulExit inductive.
ExitInv == GracefulExit /\ (Alive => \A q \in Request : pc[q] # "cut")

\* srv.Shutdown (main.go:221), for any number of requests: a process that exits
\* with status 0 has answered every request it accepted.
THEOREM ExitTheorem == Spec => []GracefulExit
<1>1. Init => ExitInv
  BY Zenon DEF Init, ExitInv, GracefulExit
<1>2. RegistryInv /\ ExitInv /\ [Next]_vars => ExitInv'
  <2> SUFFICES ASSUME RegistryInv, ExitInv, [Next]_vars PROVE ExitInv'
    BY Zenon
  <2>1. pc \in [Request -> {"none", "active", "answered", "cut"}]
    BY Zenon DEF RegistryInv, TypeOK, RequestTypeOK
  <2>2. main = "exited" => main' = main /\ code' = code /\ pc' = pc
    BY Zenon DEF Next, StartUp, Refreshing, ShuttingDown, ConfigFails, Configure, DatasourceFails, Connect,
           Fetch, FetchFails, Swap, LoopRefreshes, BeginShutdown, ShutdownReturns, ShutdownTimesOut,
           Tick, LoopStops, Signal, Listen, ListenFails, Accept, Answer, Publish, Alive,
           vars, procVars, reqVars
  <2>3. CASE main = "exited"
    BY <2>2, <2>3, Zenon DEF ExitInv, GracefulExit, Alive
  <2>4. CASE main # "exited"
    <3>1. \A q \in Request : pc[q] # "cut"
      BY <2>4, Zenon DEF ExitInv, Alive
    <3>2. CASE pc' = pc
      BY <3>1, <3>2, Zenon DEF ExitInv, GracefulExit, Alive
    <3>3. CASE main' = "exited" /\ Cut /\ (code' = 0 => Active = {})
      BY <3>1, <3>3, Zenon DEF ExitInv, GracefulExit, Alive, Cut, Active
    <3>4. CASE \E q \in Request : Accept(q) \/ Answer(q)
      <4>1. PICK q \in Request : pc' = [pc EXCEPT ![q] = "active"] \/ pc' = [pc EXCEPT ![q] = "answered"]
        BY <3>4 DEF Accept, Answer
      <4>2. \A p \in Request : pc'[p] # "cut"
        BY <2>1, <3>1, <4>1, Zenon
      <4> QED BY <4>2, Zenon DEF ExitInv, GracefulExit, Alive
    <3> QED BY <3>2, <3>3, <3>4, RequestSteps, Zenon
  <2> QED BY <2>3, <2>4, Zenon
<1>3. ExitInv => GracefulExit
  BY Zenon DEF ExitInv
<1> QED BY <1>1, <1>2, <1>3, RegistryInvariance, PTL DEF Spec

----------------------------------------------------------------------------
\* What a lookup returns is what the edition in the tables says.
LEMMA LookupFollows ==
  ASSUME RegistryInv, registry, NEW o \in Objects, NEW a,
         a.urls = Servers(o), a.status = IF Servers(o) # <<>> THEN 302 ELSE 404
  PROVE  Follows(a, o, tables[o.file]) /\ tables[o.file] \in floor[o.file]..published[o.file]
<1> DEFINE e == tables[o.file]
           file == Edition[o.file][e]
<1>1. o \in Object /\ o.file \in Files
  BY ServerAssumption DEF Object, Files
<1>2. /\ e \in Nat /\ e >= 1 /\ e <= Len(Edition[o.file])
      /\ e \in floor[o.file]..published[o.file] /\ FileOf(o.file) = file
  <2>1. e \in Nat /\ floor[o.file] \in Nat /\ published[o.file] \in Nat /\ floor[o.file] > 0
        /\ floor[o.file] <= e /\ e <= published[o.file] /\ published[o.file] <= Len(Edition[o.file])
    BY <1>1, AtFile
  <2>2. Len(Edition[o.file]) \in Nat
    BY <1>1, Editions1
  <2> QED BY <2>1, <2>2 DEF FileOf
<1> HIDE DEF e
<1>3. \/ \E i \in DOMAIN file : /\ Responsible(o, e, i) /\ Servers(o) = file[i].urls
                              /\ \A j \in DOMAIN file : Responsible(o, e, j) => j = i
      \/ Servers(o) = <<>> /\ \A i \in DOMAIN file : ~Responsible(o, e, i)
  <2>1. CASE o.file = "dns"
    <3>1. file \in ZoneFile /\ o.name \in Name
      BY <1>1, <1>2, <2>1, Editions1 DEF Object
    <3>2. Servers(o) = DomainServers(file, o.name)
          /\ \A i : Responsible(o, e, i) <=> ResponsibleForName(file, o.name, i)
      BY <1>2, <2>1, ZenonT(30) DEF Servers, Responsible
    <3> HIDE DEF file
    <3> QED BY <3>1, <3>2, DomainLookup, DomainUnique
  <2>2. CASE o.file # "dns"
    <3>1. file \in RangeFile
      BY <1>1, <1>2, <2>2, Editions1 DEF Files
    <3>2. Servers(o) = IPServers(file, o.name)
          /\ \A i : Responsible(o, e, i) <=> ResponsibleForAddress(file, o.name, i)
      BY <1>2, <2>2, ZenonT(30) DEF Servers, Responsible
    <3> HIDE DEF file
    <3> QED BY <3>1, <3>2, AddressLookup, AddressUnique
  <2> QED BY <2>1, <2>2, ZenonT(30)
<1>4. Follows(a, o, e)
  <2> HIDE DEF file
  <2>1. CASE Servers(o) = <<>>
    <3>1. a.status # 302
      BY <2>1
    <3>2. \A i \in DOMAIN file : Responsible(o, e, i) => file[i].urls = <<>>
      BY <1>3, <2>1, Zenon
    <3> QED BY <3>1, <3>2, Zenon DEF Follows, file
  <2>2. CASE Servers(o) # <<>>
    <3>1. a.status = 302
      BY <2>2, Zenon
    <3>2. \E i \in DOMAIN file : Responsible(o, e, i) /\ a.urls = file[i].urls
      BY <1>3, <2>2
    <3> QED BY <3>1, <3>2, Zenon DEF Follows, file
  <2> QED BY <2>1, <2>2, Zenon
<1> QED BY <1>2, <1>4, Zenon DEF e

Redirected(a, o) ==
  \/ a.floor = 0 /\ a.status = 404
  \/ \E e \in a.floor..a.top : Follows(a, o, e)

\* The answer to a request follows the tables, which lie within the editions that count.
LEMMA AnswerRedirected ==
  ASSUME RegistryInv, NEW q \in Request, Answer(q)
  PROVE  Redirected(answer'[q], want'[q])
<1> DEFINE o == want[q]
           a == answer'[q]
<1>1. want \in [Request -> Objects] /\ DOMAIN answer = Request
  BY Zenon DEF RegistryInv, TypeOK, RequestTypeOK
<1>2. o \in Objects /\ o.file \in Files
  BY <1>1, ServerAssumption DEF Object, Files
<1>3. want'[q] = o
  BY Zenon DEF Answer
<1>4. a = [status |-> IF (IF registry THEN Servers(o) ELSE <<>>) # <<>> THEN 302 ELSE 404,
           urls |-> IF registry THEN Servers(o) ELSE <<>>,
           floor |-> floor[o.file], top |-> published[o.file]]
  BY <1>1, Zenon DEF Answer
<1> HIDE DEF o, a
<1>5. CASE registry
  <2>1. a.urls = Servers(o) /\ a.status = IF Servers(o) # <<>> THEN 302 ELSE 404
    BY <1>4, <1>5
  <2>2. a.floor = floor[o.file] /\ a.top = published[o.file]
    BY <1>4, ZenonT(30)
  <2>3. Follows(a, o, tables[o.file]) /\ tables[o.file] \in floor[o.file]..published[o.file]
    BY <1>2, <1>5, <2>1, LookupFollows
  <2>4. Redirected(a, o)
    BY <2>2, <2>3, ZenonT(30) DEF Redirected
  <2> QED BY <1>3, <2>4, ZenonT(30) DEF a
<1>6. CASE ~registry
  <2>1. a.floor = 0 /\ a.status = 404
    BY <1>2, <1>4, <1>6, AtFile
  <2>2. Redirected(a, o)
    BY <2>1, Zenon DEF Redirected
  <2> QED BY <1>3, <2>2, Zenon DEF a
<1> QED BY <1>5, <1>6, Zenon

\* Lookups during refreshes (bootstrap.go:127, bootstrap.go:140), for any files,
\* requests and refreshes: an answer is what some edition says that was current
\* at some time since the last successful refresh began.
THEOREM RedirectsTheorem == Spec => []RedirectsCurrent
<1> DEFINE AllRedirected == \A q \in Request : pc[q] = "answered" => Redirected(answer[q], want[q])
<1>0. RedirectsCurrent <=> AllRedirected
  BY Zenon DEF RedirectsCurrent, Redirected
<1>1. Init => AllRedirected
  BY Zenon DEF Init
<1>2. RegistryInv /\ AllRedirected /\ [Next]_vars => AllRedirected'
  <2> SUFFICES ASSUME RegistryInv, AllRedirected, [Next]_vars, NEW q \in Request, pc'[q] = "answered"
               PROVE  Redirected(answer'[q], want'[q])
    BY Zenon
  <2>1. RequestTypeOK
    BY Zenon DEF RegistryInv, TypeOK
  <2>2. CASE pc[q] = "answered" /\ answer'[q] = answer[q] /\ want'[q] = want[q]
    BY <2>2, Zenon
  <2>3. CASE Answer(q)
    BY <2>3, AnswerRedirected, Zenon
  <2>4. Answer(q) \/ (pc[q] = "answered" /\ answer'[q] = answer[q] /\ want'[q] = want[q])
    <3>1. CASE pc' = pc /\ want' = want /\ answer' = answer
      BY <3>1, Zenon
    <3>2. CASE Cut /\ want' = want /\ answer' = answer
      BY <3>2, ZenonT(30) DEF Cut
    <3>3. ASSUME NEW p \in Request, Accept(p) \/ Answer(p), p # q
          PROVE  pc[q] = "answered" /\ answer'[q] = answer[q] /\ want'[q] = want[q]
      <4>1. CASE Accept(p)
        BY <2>1, <3>3, <4>1, ZenonT(30) DEF Accept, RequestTypeOK
      <4>2. CASE Answer(p)
        BY <2>1, <3>3, <4>2, ZenonT(30) DEF Answer, RequestTypeOK
      <4> QED BY <3>3, <4>1, <4>2, Zenon
    <3>4. ~Accept(q)
      BY <2>1 DEF Accept, RequestTypeOK
    <3> QED BY <3>1, <3>2, <3>3, <3>4, RequestSteps, Zenon
  <2> QED BY <2>2, <2>3, <2>4, Zenon
<1> QED BY <1>0, <1>1, <1>2, RegistryInvariance, PTL DEF Spec
============================================================================
