------------------------------ MODULE MCSearch -----------------------------
(* Small registries and searches for TLC. *)
EXTENDS Search

a == <<"a">>

b == <<"b">>

ab == <<"a", "b">>

MCData ==
  [domains |->
     <<[name |-> <<a>>,     nsLdhName |-> <<a>>,   nsIp |-> <<>>],
       [name |-> <<ab>>,    nsLdhName |-> <<b>>,   nsIp |-> <<>>],
       [name |-> <<<<"a", "b", "a">>>>, nsLdhName |-> <<a, b>>, nsIp |-> <<>>],
       [name |-> <<b, a>>,  nsLdhName |-> <<>>,    nsIp |-> <<>>]>>,
   entities |->
     <<[fn |-> <<a, b>>,    handle |-> <<a>>, email |-> <<a, b>>, countryCode |-> <<>>],
       [fn |-> <<<<>>, a>>, handle |-> <<b>>, email |-> <<>>,     countryCode |-> <<a>>],
       [fn |-> <<ab, a>>,   handle |-> <<b>>, email |-> <<a>>,    countryCode |-> <<a>>],
       [fn |-> <<a, <<>>>>, handle |-> <<b>>, email |-> <<ab>>,   countryCode |-> <<b>>]>>,
   nameservers |->
     [r \in 1..4 |-> [name |-> <<IF r = 1 THEN b ELSE ab>>, ip |-> <<IF r < 3 THEN a ELSE b>>]]]

AskFor(class, params, count) == [class |-> class, accepts |-> TRUE, params |-> params, count |-> count]

\* Every pattern of up to two characters, and one of each form of three.
SomePatterns ==
  UNION {[1..n -> {"a", "b", "*"}] : n \in 1..2}
  \cup {<<"*", "a", "*">>, <<"a", "b", "*">>, <<"*", "b", "a">>, <<"a", "*", "b">>, <<"a", "b", "a">>}

All == <<"*">>

\* Walks over all the rows and over some, in pages of the sizes ClampLimit
\* distinguishes; searches that are refused; searches by several terms.
MCAsks ==
  {AskFor("domains", [name |-> p], n) : p \in {All, <<"a", "*">>}, n \in {0, 1, 5}}
  \cup {AskFor("domains", [name |-> p], 1) : p \in SomePatterns}
  \cup {AskFor(c, p, 1) : c \in Class, p \in
          {[name |-> All, ip |-> a], [nsLdhName |-> a], [name |-> All, nsIp |-> a], [fn |-> <<"a", "*">>],
           [handle |-> b, countryCode |-> a], [email |-> <<"*", "a">>], [name |-> <<>>], [ip |-> b]}}
  \cup {[AskFor("entities", [fn |-> All], 1) EXCEPT !.accepts = FALSE]}
============================================================================
