---------------------------- MODULE MCRateLimiter ----------------------------
(***************************************************************************)
(* A small RateLimiter for TLC: interchangeable tasks, a bucket of two     *)
(* tokens, and a rate that refills two thirds of a token per tick.         *)
(***************************************************************************)
EXTENDS RateLimiter, TLC

Symmetry == Permutations(Requests)

=============================================================================
