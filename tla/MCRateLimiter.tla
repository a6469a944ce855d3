--------------------------- MODULE MCRateLimiter ---------------------------
(* Instances of RateLimiter for TLC. *)
EXTENDS RateLimiterProperties, TLC

CONSTANTS a, b, c, k1, s1, s2

(* Tasks are told apart only by what they do, keys by who uses them. *)
LimiterSymmetry == Permutations(Tasks) \cup Permutations(Keys)
=============================================================================
