---------------------------- MODULE MCRateLimiter ----------------------------
(* The limiter under one client's concurrent calls: buckets share nothing. *)
EXTENDS RateLimiter, TLC
CONSTANTS ip1, c1, c2
Symmetry == Permutations(Call)
=============================================================================
