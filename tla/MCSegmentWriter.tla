--------------------------- MODULE MCSegmentWriter ---------------------------
(* The write path with two segments sharing the gate. *)
EXTENDS SegmentWriter, TLC

CONSTANTS w1, w2

MCWorkers == {w1, w2}
Symmetry == Permutations(MCWorkers)
=============================================================================
