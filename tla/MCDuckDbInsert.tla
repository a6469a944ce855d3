--------------------------- MODULE MCDuckDbInsert ---------------------------
(* Instances of DuckDbInsert for TLC. *)
EXTENDS DuckDbInsertProperties, TLC

CONSTANTS n1, t1, t2, k1, k2, v1, v2

DbSymmetry == Permutations(Writers) \cup Permutations(Keys) \cup Permutations(Values)
=============================================================================
