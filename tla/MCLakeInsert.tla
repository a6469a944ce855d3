---------------------------- MODULE MCLakeInsert ----------------------------
(* Instances of LakeInsert for TLC. *)
EXTENDS LakeInsertProperties, LakeRegistryProperties, TLC

CONSTANTS x, y, a1, a2, d1, p1, w1, k1, v1, v2

LakeSymmetry == Permutations(Aliases) \cup Permutations(Values)
=============================================================================
