------------------------- MODULE MCRequestWithRetry -------------------------
(* Instances of RequestWithRetry for TLC. *)
EXTENDS RequestWithRetryProperties

CONSTANTS a, b, c, k1, s1, s2
=============================================================================
