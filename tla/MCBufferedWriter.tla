-------------------------- MODULE MCBufferedWriter --------------------------
(* Instances of the buffered writer for TLC. *)
EXTENDS BufferedWriterProperties, TLC

CONSTANTS t1, t2, r1, r2, r3, c1, c2, w1, w2

(* Three rows in three calls, or two of them in one. *)
SingleRows == {<<r1>>, <<r2>>, <<r3>>}
MixedRows == {<<r1>>, <<r2, r3>>}
OneRow == {<<r1>>}
TwoRows == {<<r1>>, <<r2>>}

CallerSymmetry == Permutations(Callers)
Symmetry == Permutations(Callers) \cup Permutations(Workers)
FullSymmetry == Symmetry \cup Permutations(Tables) \cup Permutations(Rows)
=============================================================================
