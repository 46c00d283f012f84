------------------------------ MODULE MCChain ------------------------------
EXTENDS Chain, TLC

\* A preflight, a request too large, one for a page that is never kept, and two for the
\* page that is, from a client that takes gzip and from one that does not.
SomeQueries ==
  {[method |-> "OPTIONS", large |-> FALSE, gzip |-> FALSE, cacheable |-> FALSE],
   [method |-> "GET", large |-> TRUE, gzip |-> TRUE, cacheable |-> FALSE]}
  \cup {q \in [method : {"GET"}, large : {FALSE}, gzip : BOOLEAN, cacheable : BOOLEAN] :
          q.gzip => q.cacheable}

\* A page whose second write crosses the threshold, one of a type that is not
\* compressed, and an error too small to compress.
SomeAnswers ==
  {[status |-> 200, writes |-> <<1, 1, 1>>, type |-> {"json"}],
   [status |-> 200, writes |-> <<2>>, type |-> {"image"}],
   [status |-> 404, writes |-> <<1>>, type |-> {"json"}]}

Symmetry == Permutations(Request) \cup Permutations(Compressor)
=============================================================================
