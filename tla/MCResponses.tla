---------------------------- MODULE MCResponses ----------------------------
(* The response cache, and the contacts that responses show, for TLC.      *)
(* The two share no state, so that a behaviour is one of either.           *)
EXTENDS MCResponseCache, Contacts

VARIABLE subject   \* "responses" or "contacts"

allVars == <<vars, contactVars, subject>>

\* Persons and organisations, with all fields or with some.
MCShape ==
  {[kind |-> k, has |-> f] : k \in {"org", "individual"}, f \in {Field, {"title", "postal", "emails"}}}
  \cup {[kind |-> "individual", has |-> {"country", "phones"}], [kind |-> "org", has |-> {}]}

\* A registry without contacts, which nobody asks.
NoContacts ==
  /\ versions = [h \in Handle |-> <<Gone>>]
  /\ storage = "memory" /\ route = "search" /\ level = "anonymous"
  /\ handle = CHOOSE h \in Handle : TRUE

EitherInit ==
  /\ Init /\ ContactsInit
  /\ \/ subject = "contacts"
     \/ subject = "responses" /\ NoContacts

EitherNext ==
  \/ subject = "responses" /\ Next /\ UNCHANGED <<contactVars, subject>>
  \/ subject = "contacts" /\ ContactsNext /\ UNCHANGED <<vars, subject>>

EitherSpec == EitherInit /\ [][EitherNext]_allVars

EitherSymmetry == Permutations(Request) \cup Permutations(Handle)
============================================================================
