------------------------------ MODULE Patterns -----------------------------
(***************************************************************************)
(* Partial-match patterns of RDAP searches: MatchPattern of                *)
(* pkg/rdap/search/search.go, used by the in-memory index, and             *)
(* ilikePattern of pkg/rdap/storage/postgres/search.go, whose result       *)
(* PostgreSQL's LIKE interprets.                                           *)
(*                                                                         *)
(* A string is a sequence of characters, lowered already, as the names of  *)
(* domains and nameservers are: their columns hold lower case, and both    *)
(* indexes lower the pattern.  Case is thus left out, and with it where    *)
(* the indexes differ on the entities' names, handles and addresses.       *)
(***************************************************************************)
EXTENDS Integers, Sequences

IsPrefixOf(s, t) == Len(s) <= Len(t) /\ SubSeq(t, 1, Len(s)) = s

IsSuffixOf(s, t) == Len(s) <= Len(t) /\ SubSeq(t, Len(t) - Len(s) + 1, Len(t)) = s

IsInfixOf(s, t) == \E i \in 0..Len(t) : IsPrefixOf(s, SubSeq(t, i + 1, Len(t)))

\* Mutant: the edge that has no wildcard is not compared.
MatchPatternLoosely(haystack, pattern) ==
  LET core == SelectSeq(pattern, LAMBDA c : c # "*") IN IsInfixOf(core, haystack)

\* The literal core between the wildcards at the edges.
MatchPattern(haystack, pattern) ==
  LET starts == pattern[1] = "*"
      ends   == pattern[Len(pattern)] = "*"
      tail   == IF starts THEN Tail(pattern) ELSE pattern
      core   == IF ends /\ tail # <<>> THEN SubSeq(tail, 1, Len(tail) - 1) ELSE tail
  IN IF pattern = <<>> THEN haystack = <<>>
     ELSE IF starts /\ ends THEN IsInfixOf(core, haystack)
     ELSE IF starts THEN IsSuffixOf(core, haystack)
     ELSE IF ends THEN IsPrefixOf(core, haystack)
     ELSE haystack = pattern

----------------------------------------------------------------------------
\* Every wildcard becomes LIKE's, every other character stands for itself.
IlikePattern(pattern) ==
  [i \in DOMAIN pattern |-> IF pattern[i] = "*" THEN [any |-> TRUE, char |-> ""]
                                                ELSE [any |-> FALSE, char |-> pattern[i]]]

\* The lengths of the prefixes of the string that an element of the pattern leads to,
\* from those that the elements before it lead to.
Advance(haystack, element, lengths) ==
  IF element.any THEN {n \in 0..Len(haystack) : \E k \in lengths : k <= n}
  ELSE {n \in 1..Len(haystack) : n - 1 \in lengths /\ haystack[n] = element.char}

\* LIKE: all the elements lead to the whole string.
Like(haystack, like) ==
  LET matched[m \in 0..Len(like)] == IF m = 0 THEN {0} ELSE Advance(haystack, like[m], matched[m - 1])
  IN  Len(haystack) \in matched[Len(like)]

\* Wildcards at the edges only.
IsEdged(pattern) == \A i \in 2..(Len(pattern) - 1) : pattern[i] # "*"
============================================================================
