------------------------------- MODULE Server ------------------------------
(***************************************************************************)
(* The life of the server process (cmd/gordap/main.go): start-up with the  *)
(* first bootstrap refresh, the refresh loop, the listener, and the        *)
(* shutdown; and the requests that meet it, those for objects the data     *)
(* source does not have, which the registry may redirect.                  *)
(*                                                                         *)
(* Refresh fetches the three files one after the other and replaces the    *)
(* three tables in one critical section; lookups are critical sections     *)
(* under the read lock.  A table is the edition of the file it was made    *)
(* from, 0 before the first; editions are published independently.         *)
(***************************************************************************)
EXTENDS Bootstrap

CONSTANTS
  Request,
  Objects,     \* what requests ask for: [file : File, name : ...]
  Edition      \* file |-> the sequence of its editions

\* In the order in which Refresh fetches them.
File == <<"dns", "ipv4", "ipv6">>

Files == {"dns", "ipv4", "ipv6"}

Object == [file : {"dns"}, name : Name] \cup [file : {"ipv4", "ipv6"}, name : Address]

ASSUME ServerAssumption ==
  /\ Objects \subseteq Object
  /\ Edition = [f \in Files |-> Edition[f]]
  /\ Edition["dns"] \in Seq(ZoneFile)
  /\ Edition["ipv4"] \in Seq(RangeFile) /\ Edition["ipv6"] \in Seq(RangeFile)
  /\ \A f \in Files : Edition[f] # <<>>

VARIABLES
  main,       \* where main is
  code,       \* the exit status
  cancelled,  \* the context of signal.NotifyContext
  listener,   \* the goroutine of ListenAndServe
  enabled,    \* the -bootstrap flag
  registry,   \* whether server.Bootstrap is set
  loop,       \* where refreshLoop is
  tick,       \* its ticker's channel, which holds one tick
  step,       \* the file the refresh under way fetches next; 0 if there is none
  got,        \* the editions it has fetched
  began,      \* the editions that were published when it began
  tables,     \* the registry's tables
  floor,      \* history: began, of the refresh that made the tables
  published,  \* the current edition of each file
  pc,         \* where each request is
  want,       \* what it asks for
  answer      \* its answer, and the editions it may be based on

procVars == <<main, code, cancelled, listener, enabled>>
bootVars == <<registry, loop, tick, step, got, began, tables, floor, published>>
reqVars == <<pc, want, answer>>
vars == <<procVars, bootVars, reqVars>>

Editions == [Files -> Nat]

Zero == [f \in Files |-> 0]

NoAnswer == [status |-> 0, urls |-> <<>>, floor |-> 0, top |-> 0]

ProcessTypeOK ==
  /\ main \in {"config", "datasource", "bootstrap", "serving", "shutdown", "exited"}
  /\ code \in 0..2 /\ cancelled \in BOOLEAN /\ enabled \in BOOLEAN
  /\ listener \in {"none", "starting", "open", "failed", "closed"}

RegistryTypeOK ==
  /\ registry \in BOOLEAN /\ tick \in BOOLEAN
  /\ loop \in {"none", "waiting", "refreshing", "stopped"}
  /\ step \in 0..4
  /\ got \in Editions /\ began \in Editions /\ tables \in Editions
  /\ floor \in Editions /\ published \in Editions

RequestTypeOK ==
  /\ pc \in [Request -> {"none", "active", "answered", "cut"}]
  /\ want \in [Request -> Objects]
  /\ answer \in [Request -> [status : {0, 302, 404}, urls : Seq(Url), floor : Nat, top : Nat]]

TypeOK == ProcessTypeOK /\ RegistryTypeOK /\ RequestTypeOK

Init ==
  /\ main = "config" /\ code = 0 /\ cancelled = FALSE /\ listener = "none"
  /\ enabled \in BOOLEAN /\ registry = FALSE /\ loop = "none" /\ tick = FALSE
  /\ step = 0 /\ got = Zero /\ began = Zero /\ tables = Zero /\ floor = Zero
  /\ published = [f \in Files |-> 1]
  /\ pc = [q \in Request |-> "none"]
  /\ want \in [Request -> Objects]
  /\ answer = [q \in Request |-> NoAnswer]

----------------------------------------------------------------------------
\* The requests that a process takes with it.
Cut == pc' = [q \in Request |-> IF pc[q] = "active" THEN "cut" ELSE pc[q]]

Exit(status) ==
  /\ main' = "exited" /\ code' = status
  /\ Cut
  /\ UNCHANGED <<cancelled, listener, enabled, bootVars, want, answer>>

ConfigFails == main = "config" /\ Exit(2)

Configure ==
  /\ main = "config"
  /\ main' = "datasource"
  /\ UNCHANGED <<code, cancelled, listener, enabled, bootVars, reqVars>>

DatasourceFails == main = "datasource" /\ Exit(1)

BeginRefresh ==
  /\ step' = 1 /\ got' = Zero /\ began' = published
  /\ UNCHANGED <<tables, floor, published>>

\* main opens the data source and goes on to the registry or to the listener.
Connect ==
  /\ main = "datasource"
  /\ IF enabled
     THEN BeginRefresh /\ main' = "bootstrap" /\ UNCHANGED listener
     ELSE /\ main' = "serving" /\ listener' = "starting"
          /\ UNCHANGED <<step, got, began, tables, floor, published>>
  /\ UNCHANGED <<code, cancelled, enabled, registry, loop, tick, reqVars>>

----------------------------------------------------------------------------
Alive == main # "exited"

\* Refresh, for main or for the loop: the next file arrives.
Fetch ==
  /\ Alive /\ step \in 1..3
  /\ got' = [got EXCEPT ![File[step]] = published[File[step]]]
  /\ step' = step + 1
  /\ UNCHANGED <<procVars, registry, loop, tick, began, tables, floor, published, reqVars>>

\* Mutant: the loop ends with its first error.
ResumeStops(ok) ==
  IF main = "bootstrap"
  THEN /\ main' = "serving" /\ listener' = "starting"
       /\ registry' = ok /\ loop' = (IF ok THEN "waiting" ELSE "none")
  ELSE loop' = (IF ok THEN "waiting" ELSE "stopped") /\ UNCHANGED <<main, listener, registry>>

\* What main does after its own refresh, and the loop after each of its.
Resume(ok) ==
  IF main = "bootstrap"
  THEN /\ main' = "serving" /\ listener' = "starting"
       /\ registry' = ok /\ loop' = (IF ok THEN "waiting" ELSE "none")
  ELSE loop' = "waiting" /\ UNCHANGED <<main, listener, registry>>

\* No answer, another status than 200, no JSON, or a cancelled context.
FetchFails ==
  /\ Alive /\ step \in 1..3
  /\ step' = 0
  /\ Resume(FALSE)
  /\ UNCHANGED <<code, cancelled, enabled, tick, got, began, tables, floor, published, reqVars>>

\* Mutant: each file replaces all tables.
SwapCleared ==
  /\ Alive /\ step \in 2..4
  /\ step' = 0
  /\ tables' = got /\ floor' = began
  /\ Resume(TRUE)
  /\ UNCHANGED <<code, cancelled, enabled, tick, got, began, published, reqVars>>

\* The critical section at the end of Refresh.
Swap ==
  /\ Alive /\ step = 4
  /\ step' = 0
  /\ tables' = got /\ floor' = began
  /\ Resume(TRUE)
  /\ UNCHANGED <<code, cancelled, enabled, tick, got, began, published, reqVars>>

Tick ==
  /\ Alive /\ loop \in {"waiting", "refreshing"}
  /\ tick' = TRUE
  /\ UNCHANGED <<procVars, registry, loop, step, got, began, tables, floor, published, reqVars>>

LoopRefreshes ==
  /\ Alive /\ loop = "waiting" /\ tick
  /\ tick' = FALSE /\ loop' = "refreshing"
  /\ BeginRefresh
  /\ UNCHANGED <<procVars, registry, reqVars>>

LoopStops ==
  /\ Alive /\ loop = "waiting" /\ cancelled
  /\ loop' = "stopped"
  /\ UNCHANGED <<procVars, registry, tick, step, got, began, tables, floor, published, reqVars>>

----------------------------------------------------------------------------
Signal ==
  /\ Alive /\ main # "config" /\ ~cancelled
  /\ cancelled' = TRUE
  /\ UNCHANGED <<main, code, listener, enabled, bootVars, reqVars>>

Listen ==
  /\ Alive /\ listener = "starting"
  /\ listener' = "open"
  /\ UNCHANGED <<main, code, cancelled, enabled, bootVars, reqVars>>

ListenFails ==
  /\ Alive /\ listener \in {"starting", "open"}
  /\ listener' = "failed" /\ cancelled' = TRUE
  /\ UNCHANGED <<main, code, enabled, bootVars, reqVars>>

\* srv.Shutdown closes the listener, also one that has not been opened yet.
BeginShutdown ==
  /\ main = "serving" /\ cancelled
  /\ main' = "shutdown" /\ listener' = "closed"
  /\ UNCHANGED <<code, cancelled, enabled, bootVars, reqVars>>

Active == {q \in Request : pc[q] = "active"}

\* Mutant: does not wait for the requests.
ShutdownReturnsAtOnce == main = "shutdown" /\ Exit(0)

\* Shutdown returns when every request has been answered, ...
ShutdownReturns == main = "shutdown" /\ Active = {} /\ Exit(0)

\* Mutant: the timeout waits for the requests.
ShutdownTimesOutNever == main = "shutdown" /\ Active = {} /\ Exit(1)

\* ... or with an error after -shutdown-timeout.
ShutdownTimesOut == main = "shutdown" /\ Active # {} /\ Exit(1)

----------------------------------------------------------------------------
Accept(q) ==
  /\ Alive /\ listener = "open" /\ pc[q] = "none"
  /\ pc' = [pc EXCEPT ![q] = "active"]
  /\ UNCHANGED <<procVars, bootVars, want, answer>>

FileOf(f) == IF tables[f] = 0 THEN <<>> ELSE Edition[f][tables[f]]

Servers(o) == IF o.file = "dns" THEN DomainServers(FileOf(o.file), o.name)
                                ELSE IPServers(FileOf(o.file), o.name)

\* The handler of a domain or network that the data source does not have.
Answer(q) ==
  /\ Alive /\ pc[q] = "active"
  /\ pc' = [pc EXCEPT ![q] = "answered"]
  /\ LET o == want[q]
         urls == IF registry THEN Servers(o) ELSE <<>>
     IN answer' = [answer EXCEPT ![q] =
          [status |-> IF urls # <<>> THEN 302 ELSE 404, urls |-> urls,
           floor |-> floor[o.file], top |-> published[o.file]]]
  /\ UNCHANGED <<procVars, bootVars, want>>

\* IANA publishes a new edition of a file.
Publish(f) ==
  /\ published[f] < Len(Edition[f])
  /\ published' = [published EXCEPT ![f] = @ + 1]
  /\ UNCHANGED <<procVars, registry, loop, tick, step, got, began, tables, floor, reqVars>>

StartUp == ConfigFails \/ Configure \/ DatasourceFails \/ Connect

Refreshing == Fetch \/ FetchFails \/ Swap \/ LoopRefreshes

ShuttingDown == BeginShutdown \/ ShutdownReturns \/ ShutdownTimesOut

Next ==
  \/ StartUp \/ Refreshing \/ ShuttingDown
  \/ Tick \/ LoopStops \/ Signal \/ Listen \/ ListenFails
  \/ \E q \in Request : Accept(q) \/ Answer(q)
  \/ \E f \in Files : Publish(f)

Spec == Init /\ [][Next]_vars

\* The goroutines run, every fetch and every wait of Shutdown ends (each has a
\* timeout), the ticker ticks, and IANA does not fail for ever.
FairSpec ==
  /\ Spec
  /\ WF_vars(StartUp) /\ WF_vars(Refreshing) /\ WF_vars(ShuttingDown) /\ WF_vars(Tick)
  /\ \A s \in 1..3 : SF_vars(step = s /\ Fetch)

----------------------------------------------------------------------------
Responsible(o, e, i) ==
  IF o.file = "dns" THEN ResponsibleForName(Edition[o.file][e], o.name, i)
                    ELSE ResponsibleForAddress(Edition[o.file][e], o.name, i)

\* Whether an answer is what an edition says.
Follows(a, o, e) ==
  LET file == Edition[o.file][e] IN
  IF a.status = 302
  THEN \E i \in DOMAIN file : Responsible(o, e, i) /\ a.urls = file[i].urls
  ELSE \A i \in DOMAIN file : Responsible(o, e, i) => file[i].urls = <<>>

\* Lookups during refreshes (bootstrap.go:127, bootstrap.go:140): whatever
\* refreshes are under way, have failed or have succeeded, an answer is what some
\* edition says that was current at some time since the last successful refresh
\* began: the servers of the service responsible, or that there is none.
RedirectsCurrent ==
  \A q \in Request : pc[q] = "answered" =>
    LET a == answer[q] IN
    \/ a.floor = 0 /\ a.status = 404
    \/ \E e \in a.floor..a.top : Follows(a, want[q], e)

\* Refresh (bootstrap.go:59): failed refreshes and refreshes that are overtaken
\* by a publication never replace a table by an older one, or by none.
TablesNeverOlder == [][\A f \in Files : tables[f] <= tables'[f]]_vars

\* srv.Shutdown (main.go:221): an exit status of 0 means that every request that
\* was accepted has been answered.
GracefulExit == main = "exited" /\ code = 0 => \A q \in Request : pc[q] # "cut"

\* A refresh is under way exactly while main or the loop waits for it.
OneRefresh ==
  /\ step > 0 /\ Alive <=> main = "bootstrap" \/ (loop = "refreshing" /\ Alive)
  /\ registry <=> loop # "none"
  /\ registry => main \notin {"config", "datasource", "bootstrap"}

Within(f) ==
  /\ floor[f] <= tables[f] /\ tables[f] <= published[f]
  /\ published[f] \in 1..Len(Edition[f])
  /\ registry <=> floor[f] > 0
  /\ step > 0 => began[f] \in 1..published[f] /\ tables[f] <= began[f]

\* What a refresh has fetched is no older than its beginning.
Fetched == \A i \in 1..3 : i < step => got[File[i]] \in began[File[i]]..published[File[i]]

\* main and Refresh together (main.go:132, bootstrap.go:59): one refresh at a
\* time, the registry is used only when it has been filled, and its tables lie
\* between what was published when their refresh began and what is now.
RegistryInv == TypeOK /\ OneRefresh /\ (\A f \in Files : Within(f)) /\ Fetched

\* main (main.go:217): once the context is cancelled, by a signal or by the
\* listener, the process exits, also during the first refresh.
CancelEndsProcess == cancelled ~> main = "exited"

\* refreshLoop (main.go:367): as long as the server runs, a registry that has
\* been filled once catches up with what is published.
TablesCatchUp ==
  <>[](registry /\ ~cancelled /\ Alive) => <>[](tables = published)
============================================================================
