-------------------------- MODULE RecordContract ---------------------------
(***************************************************************************)
(* What the record cache promises its callers, without LRU, singleflight   *)
(* or goroutines: the cache knows some results of reads of the data        *)
(* source, may forget any of them at any time, and answers a request with  *)
(* one it knows, about the object that was asked for, that is younger than *)
(* MaxAge.  A request may fail without an answer, and never hears twice.   *)
(***************************************************************************)
EXTENDS Integers

CONSTANTS Request, Object, Error, MaxAge, None

VARIABLES
  now,      \* the clock
  known,    \* the results the cache holds anywhere
  phase,    \* "idle", "asked", "answered" or "failed"
  want,     \* the object asked for
  began,    \* when it was asked for
  answer    \* the result given

vars == <<now, known, phase, want, began, answer>>

Init ==
  /\ now = 0 /\ known = {}
  /\ phase = [q \in Request |-> "idle"]
  /\ want = [q \in Request |-> None]
  /\ began = [q \in Request |-> 0]
  /\ answer = [q \in Request |-> None]

Ask(q, o) ==
  /\ phase[q] = "idle"
  /\ phase' = [phase EXCEPT ![q] = "asked"]
  /\ want' = [want EXCEPT ![q] = o]
  /\ began' = [began EXCEPT ![q] = now]
  /\ UNCHANGED <<now, known, answer>>

\* The data source is read, now.
Read(o, e) ==
  /\ known' = known \cup {[of |-> o, err |-> e, at |-> now]}
  /\ UNCHANGED <<now, phase, want, began, answer>>

Forget ==
  /\ known' \in SUBSET known
  /\ UNCHANGED <<now, phase, want, began, answer>>

Answer(q) ==
  /\ phase[q] = "asked"
  /\ \E r \in known : /\ r.of = want[q] /\ began[q] < r.at + MaxAge[r.err]
                      /\ answer' = [answer EXCEPT ![q] = r]
  /\ phase' = [phase EXCEPT ![q] = "answered"]
  /\ known' \in SUBSET known
  /\ UNCHANGED <<now, want, began>>

\* Some of the requests under way fail: one, or all of them when the process
\* ends.
Fail ==
  /\ phase' \in [Request -> {"idle", "asked", "answered", "failed"}]
  /\ \A q \in Request : phase'[q] = phase[q] \/ (phase[q] = "asked" /\ phase'[q] = "failed")
  /\ known' \in SUBSET known
  /\ UNCHANGED <<now, want, began, answer>>

Tick ==
  /\ now' = now + 1
  /\ UNCHANGED <<known, phase, want, began, answer>>

Next ==
  \/ \E q \in Request : Answer(q) \/ \E o \in Object : Ask(q, o)
  \/ \E o \in Object, e \in Error : Read(o, e)
  \/ Forget \/ Fail \/ Tick

Spec == Init /\ [][Next]_vars
============================================================================
