--------------------------- MODULE TokenAccounts ---------------------------
(***************************************************************************)
(* What the rate limiter promises: every client has a token account for    *)
(* ever.  An access at clock reading t credits Rate per unit of time since *)
(* the last access, up to Burst, and takes Cost if the account holds it.   *)
(* An account that was left alone for longer than Idle may be filled up.   *)
(***************************************************************************)
EXTENDS Integers

CONSTANTS Client, Time, Rate, Burst, Cost, Idle

VARIABLES
  account,   \* the account of each client
  granted    \* how many accesses each client was granted

vars == <<account, granted>>

Smaller(a, b) == IF a < b THEN a ELSE b

Credited(b, t) ==
  IF t > b.lastSeen THEN Smaller(Burst, b.tokens + (t - b.lastSeen) * Rate) ELSE b.tokens

Init ==
  /\ account = [k \in Client |-> [tokens |-> Burst, lastSeen |-> 0]]
  /\ granted = [k \in Client |-> 0]

\* What an access at time t may find in account b.
Found(b, t) == {Credited(b, t)} \cup {n \in {Burst} : t > b.lastSeen + Idle}

Access(k, t, tokens) ==
  \/ /\ tokens >= Cost
     /\ account' = [account EXCEPT ![k] = [tokens |-> tokens - Cost, lastSeen |-> t]]
     /\ granted' = [granted EXCEPT ![k] = @ + 1]
  \/ /\ tokens < Cost
     /\ account' = [account EXCEPT ![k] = [tokens |-> tokens, lastSeen |-> t]]
     /\ UNCHANGED granted

Next == \E k \in Client, t \in Time : \E n \in Found(account[k], t) : Access(k, t, n)

Spec == Init /\ [][Next]_vars
============================================================================
