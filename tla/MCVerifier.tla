---------------------------- MODULE MCVerifier -----------------------------
(* Instances of Verifier for TLC.                                          *)
EXTENDS Verifier

\* One identifier in two tokens with different keys, one valid for a
\* moment and the leeway around it, one that is signed wrongly and one that is none.
MCTokens ==
  {[kid |-> k, parses |-> TRUE, ok |-> TRUE, exp |-> 3, nbf |-> 0, jti |-> "j1"] : k \in Kid}
    \cup {[kid |-> "k1", parses |-> TRUE, ok |-> TRUE, exp |-> 2, nbf |-> 2, jti |-> "j2"],
          [kid |-> "k1", parses |-> TRUE, ok |-> FALSE, exp |-> 0, nbf |-> 0, jti |-> None],
          [kid |-> "k1", parses |-> FALSE, ok |-> TRUE, exp |-> 0, nbf |-> 0, jti |-> None]}

\* The provider publishes one key or both.
SomeKeys == SUBSET Kid \ {{}}
============================================================================
