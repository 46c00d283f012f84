----------------------------- MODULE MCLoadTest -----------------------------
EXTENDS LoadTest

\* A generator that sent its requests to endpoints of one kind each, with so many failures.
Endpoint(count, failures, p50, p99) ==
  [count |-> count, failures |-> failures, latency |-> [p50 |-> p50, p95 |-> p99, p99 |-> p99]]
Generator(endpoints, total, failures, p50, p99, max) ==
  [total |-> total, failures |-> failures, transErr |-> 0,
   latency |-> [p50 |-> p50, p90 |-> p99, p95 |-> p99, p99 |-> p99, p999 |-> p99, max |-> max],
   cache |-> [hits |-> 0, misses |-> total], endpoints |-> endpoints,
   codes |-> IF total = 0 THEN <<>> ELSE [c \in {200} |-> total], mismatches |-> failures]

Quiet == Generator(<<>>, 0, 0, 0, 0, 0)
Slow == Generator([nameserver |-> Endpoint(1, 0, 5, 5)], 1, 0, 5, 5, 9)
Mixed == Generator([help |-> Endpoint(3, 1, 2, 3), nameserver |-> Endpoint(1, 1, 1, 1)], 4, 2, 2, 3, 3)

\* No other generator, one that was stopped at once, or one of two kinds and a slow one.
SomeOthers == {<<>>, <<Quiet>>, <<Mixed, Slow>>}

=============================================================================
