----------------------------- MODULE MCIOHelper -----------------------------
(* Instances of IOHelper for TLC. *)
EXTENDS IOHelperProperties, TLC

CONSTANTS h1, h2, d1, d2

HelperSymmetry == Permutations(Helpers) \cup Permutations(Targets)
=============================================================================
