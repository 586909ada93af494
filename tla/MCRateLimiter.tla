---------------------------- MODULE MCRateLimiter ----------------------------
(* Small instances of RateLimiter for TLC.                                 *)
EXTENDS RateLimiter, TLC

\* The sets are interchangeable; sound because no run checks liveness.
Interchangeable ==
    Permutations(User) \cup Permutations(Limiter) \cup Permutations(Call)

\* Without the tokens of limiters that nothing points to: they are set anew
\* when the limiter is next used.
LimiterView ==
    <<now, limiters, [l \in Limiter |-> IF Unused(l) THEN NewLimiter ELSE heap[l]],
      calls, evict, since, spent>>

=============================================================================
