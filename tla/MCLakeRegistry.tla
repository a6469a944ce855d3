--------------------------- MODULE MCLakeRegistry ---------------------------
(* Instances of LakeRegistry for TLC. *)
EXTENDS LakeRegistryProperties

CONSTANTS x, a1, a2, d1, p1
=============================================================================
