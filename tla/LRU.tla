-------------------------------- MODULE LRU --------------------------------
(***************************************************************************)
(* The least-recently-used list of package cache: a map `items` from keys  *)
(* to list elements and a doubly linked list `order`, most recently used   *)
(* element first.  The record cache (type lru) and the response cache      *)
(* (type ResponseCache) use the same pair of structures with the same      *)
(* operations, each done under one mutex, so each is one operator here.    *)
(*                                                                         *)
(* A list element is its key; the map sends a key straight to the value    *)
(* its element holds.                                                      *)
(***************************************************************************)
EXTENDS Integers, Sequences, FiniteSets, Functions

\* A Go map is a function on the keys it holds.
IsLRU(l, K, V) ==
  /\ l = [items |-> l.items, order |-> l.order]
  /\ DOMAIN l.items \subseteq K /\ l.items \in [DOMAIN l.items -> V]
  /\ l.order \in Seq(K)

EmptyLRU == [items |-> <<>>, order |-> <<>>]

Holds(l, k) == k \in DOMAIN l.items

\* The place of key k in a list: what the element pointer items[k] gives.
Position(order, k) == CHOOSE i \in 1..Len(order) : order[i] = k

\* list.Remove of k's element.
Unlink(order, k) ==
  LET i == Position(order, k)
  IN  SubSeq(order, 1, i - 1) \o SubSeq(order, i + 1, Len(order))

\* list.MoveToFront of k's element.
MoveToFront(order, k) == <<k>> \o Unlink(order, k)

\* A lookup that finds k makes it the most recently used key.
Touch(l, k) == IF Holds(l, k) THEN [l EXCEPT !.order = MoveToFront(@, k)] ELSE l

\* Mutant: eviction leaves the evicted key in the map.
PutEntryLeavesKey(l, k, v, capacity) ==
  IF Holds(l, k)
  THEN [items |-> [l.items EXCEPT ![k] = v], order |-> MoveToFront(l.order, k)]
  ELSE LET pushed == <<k>> \o l.order
       IN  [items |-> [x \in DOMAIN l.items \cup {k} |-> IF x = k THEN v ELSE l.items[x]],
            order |-> SubSeq(pushed, 1, IF Len(pushed) > capacity
                                        THEN capacity ELSE Len(pushed))]

\* Insert or overwrite k and make it the most recently used key; on an insert,
\* every element past the capacity leaves the list and its key leaves the map.
PutEntry(l, k, v, capacity) ==
  IF Holds(l, k)
  THEN [items |-> [l.items EXCEPT ![k] = v], order |-> MoveToFront(l.order, k)]
  ELSE LET pushed  == <<k>> \o l.order
           evicted == {pushed[i] : i \in capacity + 1 .. Len(pushed)}
       IN  [items |-> [x \in (DOMAIN l.items \cup {k}) \ evicted |->
                         IF x = k THEN v ELSE l.items[x]],
            order |-> SubSeq(pushed, 1, IF Len(pushed) > capacity
                                        THEN capacity ELSE Len(pushed))]

RemoveEntry(l, k) ==
  IF Holds(l, k)
  THEN [items |-> Restrict(l.items, DOMAIN l.items \ {k}),
        order |-> Unlink(l.order, k)]
  ELSE l

----------------------------------------------------------------------------
Listed(order) == {order[i] : i \in 1..Len(order)}

NoRepeats(order) == \A i, j \in 1..Len(order) : order[i] = order[j] => i = j

\* The list mentions exactly the keys of the map, each of them once: a key
\* that only one of the two structures knows would never be evicted, or would
\* be evicted twice.
Consistent(l) == Listed(l.order) = DOMAIN l.items /\ NoRepeats(l.order)
============================================================================
