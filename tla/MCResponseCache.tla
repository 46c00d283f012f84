-------------------------- MODULE MCResponseCache --------------------------
(* Instances of ResponseCache for TLC.                                     *)
EXTENDS ResponseCache, TLC

Ids == {"", "a", "A", "a/b", "-"}

\* Two spellings of one name, an identifier that is none, and two that the
\* router does not match.
MCKeyOf ==
  [c \in Class |-> [i \in Ids |-> CASE i \in {"a", "A"} -> "a"
                                    [] i = "-"          -> "malformed"
                                    [] OTHER            -> "unrouted"]]

Get(class, id, tier, form) ==
  [method |-> "GET", class |-> class, id |-> id, accepts |-> TRUE, form |-> form, tier |-> tier]

Base == Get("domain", "a", "anonymous", "default")

\* Two classes with one name, two tiers, and every way not to reach the data
\* source.
MixedQueries ==
  {Base, Get("nameserver", "a", "anonymous", "default"), Get("help", "", "anonymous", "default"),
   [Base EXCEPT !.tier = "privileged"], [Base EXCEPT !.id = "-"], [Base EXCEPT !.id = "a/b"],
   [Base EXCEPT !.method = "HEAD"], [Base EXCEPT !.method = "POST"], [Base EXCEPT !.accepts = FALSE]}

\* One object in two forms.
FormQueries == {Get("domain", "a", "anonymous", f) : f \in {"default", "jcard"}}

MCMaxAge == [e \in Error |-> IF e = "nil" THEN 2 ELSE 1]

Symmetry == Permutations(Request)
============================================================================
