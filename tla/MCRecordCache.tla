--------------------------- MODULE MCRecordCache ---------------------------
(* Instances of RecordCache for TLC.                                       *)
EXTENDS RecordCache, TLC

\* The requests of the runs: any object, ...
AskAll == Object

\* ... or both classes under the first key and one under the others.
CONSTANTS domain, k1

AskSome == {o \in Object : o.class = domain \/ o.key = k1}

\* The first key exists and the others do not.
OutcomeByKey == [k \in Key |-> {IF k = k1 THEN "nil" ELSE "notfound"}]

\* Requests are never compared with anything except for equality.
Symmetry == Permutations(Request)
============================================================================
