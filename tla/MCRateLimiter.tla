---------------------------- MODULE MCRateLimiter ----------------------------
(* A small instance of RateLimiter: calls, and keys, are interchangeable. *)
EXTENDS RateLimiter, TLC

Symmetry == Permutations(Calls) \cup Permutations(Keys)
=============================================================================
