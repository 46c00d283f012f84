------------------------------ MODULE Verifier -----------------------------
(***************************************************************************)
(* The OIDC token verifier (pkg/rdap/auth/jwks): the cache of the          *)
(* provider's public keys with its double-checked lock, the checks of a    *)
(* token's claims, and the table of token identifiers already seen.        *)
(*                                                                         *)
(* A token is what the checks tell apart.  A key is its kid; the provider  *)
(* publishes and withdraws keys as it likes.  The fast path of keyFor is   *)
(* one critical section under the read lock; the slow path holds the write *)
(* lock during the whole fetch.                                            *)
(***************************************************************************)
EXTENDS Integers, FiniteSets, Functions

CONSTANTS
  Caller,         \* goroutines that verify a token
  Kid,            \* key identifiers
  Usable,         \* those whose keys publicKey() understands
  Jti,            \* token identifiers
  Tokens,         \* the tokens that are presented
  Publications,   \* the key sets the provider may publish
  RefreshEvery, ClockSkew,
  PruneEvery,     \* one minute
  MaxFetch,       \* longest time from the provider's answer to its decoding
  MaxTime,        \* bound on the clock
  None

\* exp = 0 stands for no expiry, jti = None for no identifier; parses says whether
\* header and algorithm are understood, ok whether signature, issuer and audience
\* are right.
Token == [kid : Kid, parses : BOOLEAN, ok : BOOLEAN, exp : Nat, nbf : Nat, jti : Jti \cup {None}]

ASSUME VerifierAssumption ==
  /\ None \notin Jti /\ None \notin Tokens /\ None \notin Caller
  /\ Tokens \subseteq Token /\ Publications \subseteq SUBSET Kid
  /\ \A t, u \in Tokens : t.jti = u.jti /\ t.jti # None => t.exp = u.exp
  /\ RefreshEvery \in Nat \ {0} /\ PruneEvery \in Nat \ {0}
  /\ ClockSkew \in Nat /\ MaxFetch \in Nat /\ MaxTime \in Nat

VARIABLES
  now,
  issued,      \* the provider's keys
  withdrawn,   \* when each key was last withdrawn
  keys,        \* Verifier.keys
  nextFetch,   \* Verifier.nextFetch
  lock,        \* the goroutine that holds Verifier.mu for writing
  seen,        \* replayCache.seen: jti |-> exp
  prune,       \* replayCache.prune
  stage,       \* where each goroutine is
  token,       \* the token each verifies
  doc,         \* the key document each has fetched, and when the provider sent it
  lasting,     \* history: callers whose key was published during the whole call
  honoured     \* history: how often the replay check let each jti pass

keyVars == <<issued, withdrawn, keys, nextFetch, lock, doc>>
replayVars == <<seen, prune, honoured>>
verifierVars == <<now, keyVars, replayVars, stage, token, lasting>>

Places == {"idle", "fast", "wait", "fetch", "decode", "claims", "replay",
           "accepted", "rejected", "unknown"}

Documents == [keys : SUBSET Kid, at : Nat]

NoDocument == [keys |-> {}, at |-> 0]

VerifierTypeOK ==
  /\ now \in Nat /\ issued \subseteq Kid /\ withdrawn \in [Kid -> Nat]
  /\ keys \subseteq Kid /\ nextFetch \in Nat /\ lock \in Caller \cup {None}
  /\ DOMAIN seen \subseteq Jti /\ seen \in [DOMAIN seen -> Nat] /\ prune \in Nat
  /\ stage \in [Caller -> Places]
  /\ token \in [Caller -> Tokens \cup {None}]
  /\ doc \in [Caller -> Documents]
  /\ lasting \subseteq Caller
  /\ honoured \in [Jti -> Nat]

VerifierInit ==
  /\ now = 0
  /\ issued \in Publications /\ withdrawn = [k \in Kid |-> 0]
  /\ keys = {} /\ nextFetch = 0 /\ lock = None
  /\ seen = <<>> /\ prune = 0
  /\ stage = [c \in Caller |-> "idle"]
  /\ token = [c \in Caller |-> None]
  /\ doc = [c \in Caller |-> NoDocument]
  /\ lasting = {}
  /\ honoured = [j \in Jti |-> 0]

----------------------------------------------------------------------------
Goto(c, place) == stage' = [stage EXCEPT ![c] = place]

\* auth.Middleware hands a bearer token to Verify, which parses the header.
Present(c, t) ==
  /\ stage[c] = "idle"
  /\ token' = [token EXCEPT ![c] = t]
  /\ lasting' = IF t.kid \in issued \cap Usable THEN lasting \cup {c} ELSE lasting
  /\ Goto(c, IF t.parses THEN "fast" ELSE "rejected")
  /\ UNCHANGED <<now, keyVars, replayVars>>

HasKey(c) == now < nextFetch /\ token[c].kid \in keys

\* keyFor under the read lock.
FastHit(c) ==
  /\ stage[c] = "fast" /\ lock = None /\ HasKey(c)
  /\ Goto(c, "claims")
  /\ UNCHANGED <<now, keyVars, replayVars, token, lasting>>

FastMiss(c) ==
  /\ stage[c] = "fast" /\ lock = None /\ ~HasKey(c)
  /\ Goto(c, "wait")
  /\ UNCHANGED <<now, keyVars, replayVars, token, lasting>>

\* keyFor under the write lock: the second check, and the fetch it starts.
RecheckHit(c) ==
  /\ stage[c] = "wait" /\ lock = None /\ HasKey(c)
  /\ Goto(c, "claims")
  /\ UNCHANGED <<now, keyVars, replayVars, token, lasting>>

\* Mutant: the keys of a fetch that is still fresh are not fetched again.
FetchWhenStale(c) ==
  /\ stage[c] = "wait" /\ lock = None /\ ~HasKey(c)
  /\ IF now < nextFetch
     THEN Goto(c, "unknown") /\ lock' = lock
     ELSE Goto(c, "fetch") /\ lock' = c
  /\ UNCHANGED <<now, issued, withdrawn, keys, nextFetch, doc, replayVars, token, lasting>>

BeginFetch(c) ==
  /\ stage[c] = "wait" /\ lock = None /\ ~HasKey(c)
  /\ lock' = c
  /\ Goto(c, "fetch")
  /\ UNCHANGED <<now, issued, withdrawn, keys, nextFetch, doc, replayVars, token, lasting>>

\* The provider answers fetchLocked's request.
Receive(c) ==
  /\ stage[c] = "fetch"
  /\ doc' = [doc EXCEPT ![c] = [keys |-> issued, at |-> now]]
  /\ Goto(c, "decode")
  /\ UNCHANGED <<now, issued, withdrawn, keys, nextFetch, lock, replayVars, token, lasting>>

\* Mutant: the lock is not released on the error path.
ReceiveFailsLocked(c) ==
  /\ stage[c] \in {"fetch", "decode"}
  /\ Goto(c, "rejected")
  /\ UNCHANGED <<now, keyVars, replayVars, token, lasting>>

\* No answer, another status than 200, or no JSON: the old keys stay.
ReceiveFails(c) ==
  /\ stage[c] \in {"fetch", "decode"}
  /\ lock' = None
  /\ doc' = [doc EXCEPT ![c] = NoDocument]
  /\ Goto(c, "rejected")
  /\ UNCHANGED <<now, issued, withdrawn, keys, nextFetch, replayVars, token, lasting>>

\* Keys that publicKey() does not understand are skipped.
UsableKeys(d) == d.keys \cap Usable

\* Mutant: the new keys are added to the old ones.
StoreAdds(c) ==
  /\ stage[c] = "decode"
  /\ keys' = keys \cup (UsableKeys(doc[c]))
  /\ nextFetch' = now + RefreshEvery
  /\ lock' = None
  /\ Goto(c, IF token[c].kid \in keys' THEN "claims" ELSE "unknown")
  /\ doc' = [doc EXCEPT ![c] = NoDocument]
  /\ UNCHANGED <<now, issued, withdrawn, replayVars, token, lasting>>

\* fetchLocked replaces the keys, and keyFor looks its key up in them.
Store(c) ==
  /\ stage[c] = "decode"
  /\ keys' = UsableKeys(doc[c])
  /\ nextFetch' = now + RefreshEvery
  /\ lock' = None
  /\ Goto(c, IF token[c].kid \in keys' THEN "claims" ELSE "unknown")
  /\ doc' = [doc EXCEPT ![c] = NoDocument]
  /\ UNCHANGED <<now, issued, withdrawn, replayVars, token, lasting>>

----------------------------------------------------------------------------
IsValid(t) == /\ t.ok
              /\ t.exp > 0 => now <= t.exp + ClockSkew
              /\ t.nbf > 0 => now + ClockSkew >= t.nbf

IsChecked(t) == t.jti # None /\ t.exp > 0

\* Verify's checks of signature and claims.
Claims(c) ==
  /\ stage[c] = "claims"
  /\ Goto(c, IF ~IsValid(token[c]) THEN "rejected"
             ELSE IF IsChecked(token[c]) THEN "replay" ELSE "accepted")
  /\ UNCHANGED <<now, keyVars, replayVars, token, lasting>>

\* Mutant: the prune drops every entry.
PrunedAll == IF prune = 0 \/ now > prune THEN <<>> ELSE seen

\* check's wholesale prune.
Pruned ==
  IF prune = 0 \/ now > prune
  THEN Restrict(seen, {j \in DOMAIN seen : now <= seen[j]}) ELSE seen

IsReplay(t) == t.jti \in DOMAIN Pruned /\ now < Pruned[t.jti]

\* replayCache.check, one critical section.
Check(c) ==
  /\ stage[c] = "replay"
  /\ prune' = IF prune = 0 \/ now > prune THEN now + PruneEvery ELSE prune
  /\ LET t == token[c] IN
     IF IsReplay(t)
     THEN seen' = Pruned /\ Goto(c, "rejected") /\ UNCHANGED honoured
     ELSE /\ seen' = [j \in DOMAIN Pruned \cup {t.jti} |-> IF j = t.jti THEN t.exp ELSE Pruned[j]]
          /\ honoured' = [honoured EXCEPT ![t.jti] = @ + 1]
          /\ Goto(c, "accepted")
  /\ UNCHANGED <<now, keyVars, token, lasting>>

----------------------------------------------------------------------------
\* The provider publishes another set of keys.
Rotate(S) ==
  /\ issued' = S
  /\ withdrawn' = [k \in Kid |-> IF k \in issued \ S THEN now ELSE withdrawn[k]]
  /\ lasting' = {c \in lasting : token[c].kid \in S}
  /\ UNCHANGED <<now, keys, nextFetch, lock, doc, replayVars, stage, token>>

Pass ==
  /\ now < MaxTime
  /\ \A c \in Caller : stage[c] = "decode" => now < doc[c].at + MaxFetch
  /\ now' = now + 1
  /\ UNCHANGED <<keyVars, replayVars, stage, token, lasting>>

Step(c) ==
  \/ FastHit(c) \/ FastMiss(c) \/ RecheckHit(c) \/ BeginFetch(c)
  \/ Receive(c) \/ ReceiveFails(c) \/ Store(c) \/ Claims(c) \/ Check(c)

VerifierNext ==
  \/ \E c \in Caller : Step(c) \/ \E t \in Tokens : Present(c, t)
  \/ \E S \in Publications : Rotate(S)
  \/ Pass

VerifierSpec == VerifierInit /\ [][VerifierNext]_verifierVars

\* The goroutines run, and the HTTP client's timeout ends every fetch.
LiveSpec == VerifierSpec /\ \A c \in Caller : WF_verifierVars(Step(c))

----------------------------------------------------------------------------
\* keyFor (jwks.go:213): a key is used no longer than RefreshEvery, and the time
\* of a fetch, after the provider withdrew it.
WithdrawnKeysExpire ==
  [][\A c \in Caller : stage[c] # "claims" /\ stage'[c] = "claims" =>
       \/ token[c].kid \in issued
       \/ now < withdrawn[token[c].kid] + MaxFetch + RefreshEvery]_verifierVars

\* keyFor (jwks.go:236): a token whose key the provider published during the
\* whole call is never refused for an unknown kid, however old the cached keys
\* are and whatever fetches other callers have made.
PublishedKeysAreFound == \A c \in Caller : stage[c] = "unknown" => c \notin lasting

\* replayCache.check (replay.go:38): among concurrent and later callers an identifier
\* that was accepted before is not accepted again until its token expires, prunes in
\* between included.
NoReplayBeforeExpiry ==
  [][\A c \in Caller :
       stage[c] = "replay" /\ stage'[c] = "accepted" /\ honoured[token[c].jti] > 0
         => now >= token[c].exp]_verifierVars

\* replayCache (replay.go:8, 12): a token with an identifier is of no use after its
\* first successful verification.  The code does not keep this in the leeway: Verify
\* accepts until exp + ClockSkew (jwks.go:157), check forgets at exp (replay.go:48, 55).
AcceptedOnce == \A t \in Tokens : IsChecked(t) => honoured[t.jti] <= 1

\* keyFor's lock (jwks.go:222): every verification comes to an end, also when
\* fetches fail while others wait for the lock.
VerifyReturns ==
  \A c \in Caller : stage[c] = "fast" ~> stage[c] \in {"accepted", "rejected", "unknown"}

(* The inductive invariant behind the safety properties.                   *)

\* The write lock is held exactly by the goroutine that fetches.
LockInv == \A c \in Caller : (stage[c] \in {"fetch", "decode"}) = (lock = c)

KeysInv ==
  /\ nextFetch <= now + RefreshEvery
  /\ \A k \in keys : k \in issued \/ nextFetch <= withdrawn[k] + MaxFetch + RefreshEvery
  /\ \A c \in Caller :
       /\ stage[c] # "idle" => token[c] \in Tokens
       /\ stage[c] = "idle" => c \notin lasting
       /\ c \in lasting => token[c].kid \in issued \cap Usable
       /\ stage[c] = "decode" => /\ doc[c].at <= now /\ now <= doc[c].at + MaxFetch
                                 /\ \A k \in doc[c].keys : k \in issued \/ doc[c].at <= withdrawn[k]
                                 /\ c \in lasting => token[c].kid \in doc[c].keys
       /\ stage[c] = "unknown" => c \notin lasting
       /\ stage[c] = "replay" => IsChecked(token[c])

SeenInv ==
  \A t \in Tokens : IsChecked(t) =>
    /\ t.jti \in DOMAIN seen => seen[t.jti] = t.exp
    /\ honoured[t.jti] > 0 => t.jti \in DOMAIN seen \/ now >= t.exp

\* Types, lock, keys and the replay table together (jwks.go:213, replay.go:38).
VerifierInv == VerifierTypeOK /\ LockInv /\ KeysInv /\ SeenInv
============================================================================
