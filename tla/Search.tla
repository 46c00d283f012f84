------------------------------- MODULE Search ------------------------------
(***************************************************************************)
(* Searches (pkg/rdap/handlers/search.go) over the in-memory index         *)
(* (storage/memory/search.go) or PostgreSQL (storage/postgres/search.go):  *)
(* a client asks for the first page and follows the cursors it is given    *)
(* while rows come and go.                                                 *)
(*                                                                         *)
(* Rows are numbered in the order of the key by which pages are sorted.    *)
(* A page of the sorted matches is the set of those whose rank, the number *)
(* of matches before them, is in the page's window.                        *)
(***************************************************************************)
EXTENDS Patterns, FiniteSets, Functions

CONSTANTS
  Row,          \* a set of numbers
  Data,         \* class |-> row |-> field |-> the sequence of its values; of a
                \* name the LDH form comes first, of fn the full name, then the
                \* organization
  Asks,         \* the searches: class, accepts, params (field |-> pattern), count
  Backends,     \* subset of {"none", "null", "memory", "postgres"}
  DefaultLimit, MaxLimit,
  MaxChanges    \* bound on the changes of the data

Class == {"domains", "entities", "nameservers"}

Fields == [domains     |-> {"name", "nsLdhName", "nsIp"},
           entities    |-> {"fn", "handle", "email", "countryCode"},
           nameservers |-> {"name", "ip"}]

ASSUME SearchAssumption ==
  /\ Row \subseteq Nat /\ IsFiniteSet(Row)
  /\ DefaultLimit \in Nat \ {0} /\ MaxLimit \in Nat \ {0} /\ MaxChanges \in Nat
  /\ \A a \in Asks : /\ a.class \in Class /\ a.count \in Int
                     /\ \A f \in DOMAIN a.params : a.params[f] \in Seq(STRING)
  /\ \A c \in Class, r \in Row : \A f \in Fields[c] : Data[c][r][f] \in Seq(Seq(STRING))

VARIABLES
  backend,    \* Server.Search: which index, if any
  rows,       \* the rows stored
  ask,        \* the client's search
  pc,         \* where its current request is
  status,     \* the status of the last response
  offset,     \* Query.Offset
  total,      \* Result.Total
  page,       \* Result.Items
  delivered,  \* the rows of the pages so far
  changes,    \* how often the data has changed
  stable,     \* history, since the walk began: the rows that were always there,
  repeated,   \* those delivered twice,
  removed,    \* those that were removed and
  inserted,   \* inserted, and
  slipped     \* whether rows were inserted between a count and its select

vars == <<backend, rows, ask, pc, status, offset, total, page, delivered, changes,
          stable, repeated, removed, inserted, slipped>>

----------------------------------------------------------------------------
\* buildQuery keeps the fields of the class that are not empty.
Terms(a) == Restrict(a.params, {f \in DOMAIN a.params \cap Fields[a.class] : a.params[f] # <<>>})

\* Mutant: a count of zero is taken at its word.
ClampLimitUnchecked(requested) == IF requested > MaxLimit THEN MaxLimit ELSE requested

ClampLimit(requested) ==
  IF requested <= 0 THEN DefaultLimit
  ELSE IF requested > MaxLimit THEN MaxLimit ELSE requested

\* domainMatches, entityMatches, nameserverMatches.
Indexed == [domains     |-> {"name", "nsLdhName"},
            entities    |-> {"fn", "handle", "email", "countryCode"},
            nameservers |-> {"name", "ip"}]

MemoryMatches(a, r) ==
  \A f \in DOMAIN Terms(a) :
    /\ f \in Indexed[a.class]
    /\ LET values == Data[a.class][r][f]
           looked == IF f = "fn" THEN {IF values[1] # <<>> THEN values[1] ELSE values[2]}
                                 ELSE Range(values)
       IN \E v \in looked :
            IF f = "ip" THEN v = Terms(a)[f] ELSE MatchPattern(v, Terms(a)[f])

\* The predicates of the SQL statements.
Columns == [domains     |-> {"name"},
            entities    |-> {"fn", "handle", "email", "countryCode"},
            nameservers |-> {"name"}]

PostgresMatches(a, r) ==
  \A f \in DOMAIN Terms(a) \cap Columns[a.class] :
    LET values == Data[a.class][r][f] IN
    IF f = "countryCode" THEN values # <<>> /\ values[1] = Terms(a)[f]
    ELSE \E i \in DOMAIN values :
           (f = "name" => i = 1) /\ Like(values[i], IlikePattern(Terms(a)[f]))

\* The null index answers no search, PostgreSQL those it has a predicate for.
Implemented(a) ==
  \/ backend = "memory"
  \/ backend = "postgres" /\ DOMAIN Terms(a) \cap Columns[a.class] # {}

Matches(r) == IF backend = "memory" THEN MemoryMatches(ask, r) ELSE PostgresMatches(ask, r)

Found == {r \in rows : Matches(r)}

Rank(r) == Cardinality({s \in Found : s < r})

Limit == ClampLimit(ask.count)

\* Mutant: the last row of a window is the first of the next.
WindowOverlaps == {r \in Found : offset <= Rank(r) /\ Rank(r) <= offset + Limit}

\* ORDER BY ... LIMIT ... OFFSET, and sort, filter, paginate.
Window == {r \in Found : offset <= Rank(r) /\ Rank(r) < offset + Limit}

Total == Cardinality(Found)

----------------------------------------------------------------------------
Init ==
  /\ backend \in Backends
  /\ rows \in SUBSET Row
  /\ ask \in Asks
  /\ pc = "request"
  /\ status = 0
  /\ offset = 0
  /\ total = 0
  /\ page = {}
  /\ delivered = {}
  /\ changes = 0
  /\ stable = rows
  /\ repeated = {}
  /\ removed = {}
  /\ inserted = {}
  /\ slipped = FALSE

history == <<stable, removed, inserted, slipped>>
data == <<backend, rows, ask, changes>>

\* The checks of the handlers, in their order.
Verdict ==
  IF backend = "none" THEN 501
  ELSE IF ~ask.accepts THEN 406
  ELSE IF Terms(ask) = <<>> THEN 400
  ELSE IF ~Implemented(ask) THEN 501
  ELSE 200

\* An answer without a page: the client has nothing to follow.
GiveUp(code) ==
  /\ status' = code
  /\ pc' = "refused"
  /\ UNCHANGED <<data, offset, total, page, delivered, repeated, history>>

Refuse == pc = "request" /\ Verdict # 200 /\ GiveUp(Verdict)

Admitted == pc = "request" /\ Verdict = 200

\* The in-memory index copies the rows under its lock, and sorts, filters and
\* slices the copy.
Scan ==
  /\ Admitted /\ backend = "memory"
  /\ total' = Total
  /\ page' = Window
  /\ pc' = "respond"
  /\ UNCHANGED <<data, status, offset, delivered, repeated, history>>

\* Domains in PostgreSQL: a statement that counts ...
CountDomains ==
  /\ Admitted /\ backend = "postgres" /\ ask.class = "domains"
  /\ total' = Total
  /\ pc' = "select"
  /\ UNCHANGED <<data, status, offset, page, delivered, repeated, history>>

\* ... and one that selects the page.
SelectDomains ==
  /\ pc = "select"
  /\ page' = Window
  /\ pc' = "respond"
  /\ UNCHANGED <<data, status, offset, total, delivered, repeated, history>>

\* Entities and nameservers: one statement, whose rows carry the count.
SelectCounting ==
  /\ Admitted /\ backend = "postgres" /\ ask.class # "domains"
  /\ page' = Window
  /\ total' = IF Window = {} THEN 0 ELSE Total
  /\ pc' = "respond"
  /\ UNCHANGED <<data, status, offset, delivered, repeated, history>>

QueryFails ==
  /\ backend = "postgres"
  /\ Admitted \/ pc = "select"
  /\ GiveUp(500)

\* Mutant: the last page is thought to be reached one row early.
NextOffsetEarly ==
  IF offset = 0 /\ total <= Limit THEN {}
  ELSE IF offset + Limit + 1 < total THEN {offset + Limit} ELSE {}

\* pagingMeta: the offset in the next cursor, if there is one.
NextOffset ==
  IF offset = 0 /\ total <= Limit THEN {}
  ELSE IF offset + Limit < total THEN {offset + Limit} ELSE {}

\* The response, and the client that follows its cursor.
Respond ==
  /\ pc = "respond"
  /\ status' = 200
  /\ delivered' = delivered \cup page
  /\ repeated' = repeated \cup (delivered \cap page)
  /\ \/ \E next \in NextOffset : offset' = next /\ pc' = "request"
     \/ NextOffset = {} /\ offset' = offset /\ pc' = "done"
  /\ UNCHANGED <<data, total, page, history>>

----------------------------------------------------------------------------
\* The registry's own work on its data, while the client walks.
Insert(r) ==
  /\ pc \in {"request", "select", "respond"}
  /\ changes < MaxChanges
  /\ r \in Row \ rows
  /\ rows' = rows \cup {r}
  /\ inserted' = inserted \cup {r}
  /\ slipped' = (slipped \/ pc = "select")
  /\ changes' = changes + 1
  /\ UNCHANGED <<backend, ask, pc, status, offset, total, page, delivered, stable, repeated, removed>>

\* The in-memory store has no operation that removes a row.
Remove(r) ==
  /\ pc \in {"request", "select", "respond"}
  /\ backend = "postgres"
  /\ changes < MaxChanges
  /\ r \in rows
  /\ rows' = rows \ {r}
  /\ removed' = removed \cup {r}
  /\ stable' = stable \ {r}
  /\ changes' = changes + 1
  /\ UNCHANGED <<backend, ask, pc, status, offset, total, page, delivered, repeated, inserted, slipped>>

Serve == Refuse \/ Scan \/ CountDomains \/ SelectDomains \/ SelectCounting \/ QueryFails \/ Respond

Next == Serve \/ \E r \in Row : Insert(r) \/ Remove(r)

Spec == Init /\ [][Next]_vars

\* A request that has arrived is served; nothing makes the data change.
FairSpec == Spec /\ WF_vars(Serve)

----------------------------------------------------------------------------
\* Types: a response has one of the statuses of the search handlers, and the
\* rows of a page are rows of the index.
TypeOK ==
  /\ backend \in Backends /\ ask \in Asks
  /\ rows \subseteq Row /\ stable \subseteq rows
  /\ pc \in {"request", "select", "respond", "done", "refused"}
  /\ status \in {0, 200, 400, 406, 500, 501}
  /\ offset \in Nat /\ total \in Nat /\ changes \in 0..MaxChanges
  /\ page \subseteq Row /\ delivered \subseteq Row /\ repeated \subseteq Row
  /\ removed \subseteq Row /\ inserted \subseteq Row
  /\ slipped \in BOOLEAN

RemovedBefore(x) == \E r \in removed : r < x /\ Matches(r)

InsertedBefore(x) == \E r \in inserted : r < x /\ Matches(r)

\* A client that follows the cursors to the end (pagingMeta) has been given
\* every match that was stored all the while, unless a match that sorts before
\* it was removed during the walk, or rows were inserted between the statement
\* of SearchDomains that counts and the one that selects.
WalkComplete ==
  pc = "done" => \A x \in stable :
    Matches(x) /\ ~RemovedBefore(x) /\ ~slipped => x \in delivered

\* No row is on two pages of a walk unless a match that sorts before it was
\* inserted during the walk (OFFSET paging of SearchDomains, paginate).
RepeatedOnlyAfterInsertion == \A x \in repeated : InsertedBefore(x)

\* The two indexes agree on a search by name alone whose wildcards are at the
\* edges, about rows with one form of the name (MatchPattern, ilikePattern).
IndexesAgree ==
  /\ ask.class \in {"domains", "nameservers"}
  /\ DOMAIN Terms(ask) = {"name"}
  /\ IsEdged(Terms(ask)["name"])
  => \A r \in Row :
       Len(Data[ask.class][r]["name"]) = 1 => (MemoryMatches(ask, r) <=> PostgresMatches(ask, r))

\* A walk comes to an end: every cursor is beyond the last (pagingMeta).
WalkEnds == <>(pc \in {"done", "refused"})

----------------------------------------------------------------------------
Owed(x) == Matches(x) /\ ~RemovedBefore(x) /\ ~slipped /\ x \notin delivered

\* A stable match still to be delivered is not before the offset.
StillAhead == pc \in {"request", "select"} => \A x \in stable : Owed(x) => offset <= Rank(x)

\* A row delivered is before the offset.
AlreadyBehind ==
  pc \in {"request", "select", "respond"} =>
    \A x \in delivered : ~InsertedBefore(x) => Rank(x) < offset

\* The count stays an upper bound until the page is selected.
CountCovers == pc = "select" /\ ~slipped => Total <= total

\* The page about to be delivered is new and before the next offset, and what is
\* owed beyond it has a cursor that leads to it.
PageFits ==
  pc = "respond" =>
    /\ \A x \in page : ~InsertedBefore(x) => Rank(x) < offset + Limit /\ x \notin delivered
    /\ \A x \in stable : Owed(x) /\ x \notin page =>
         offset + Limit <= Rank(x) /\ offset + Limit < total

\* The inductive invariant of a walk.
WalkInv ==
  /\ TypeOK
  /\ WalkComplete
  /\ RepeatedOnlyAfterInsertion
  /\ StillAhead
  /\ AlreadyBehind
  /\ CountCovers
  /\ PageFits
============================================================================
