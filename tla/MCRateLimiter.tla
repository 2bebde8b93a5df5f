---------------------------- MODULE MCRateLimiter ----------------------------
(* Instances of RateLimiter for TLC. *)
EXTENDS RateLimiter

CONSTANTS a, b  \* command names

\* Name a has one slot; every other name is unlimited until SetLimit.
OneForA == [n \in Name |-> IF n = a THEN 1 ELSE 0]
=============================================================================
