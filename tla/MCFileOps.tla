----------------------------- MODULE MCFileOps -----------------------------
(* Instances of FileOps for TLC. *)
EXTENDS FileOpsProperties, TLC

CONSTANTS p1, p2, v1, v2

FileSymmetry == Permutations(Procs) \cup Permutations(Versions)
=============================================================================
