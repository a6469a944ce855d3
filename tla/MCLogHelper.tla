---------------------------- MODULE MCLogHelper ----------------------------
(* Instances of LogHelper for TLC. *)
EXTENDS LogHelperProperties

CONSTANTS w1, w2
=============================================================================
