--------------------------- MODULE MCRateLimiter ---------------------------
(* The rate limiter for TLC.  Which request is of which client matters only *)
(* up to renaming: k1 has at least as many as k2, and the first ones.       *)
EXTENDS RateLimiter

CONSTANTS q1, q2, q3, q4, k1, k2

Assignments == {[q \in Call |-> IF q \in mine THEN k1 ELSE k2] : mine \in {{q1, q2}, {q1, q2, q3}, Call}}

MCInit == LimiterInit /\ client \in Assignments
MCFairSpec == MCInit /\ [][LimiterNext]_limiterVars /\ LimiterFairness
============================================================================
