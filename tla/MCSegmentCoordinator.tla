------------------------ MODULE MCSegmentCoordinator ------------------------
(***************************************************************************)
(* The coordinator with two or three workers on a file of two to four      *)
(* units.  The configurations ask one question each; README.md lists them. *)
(***************************************************************************)
EXTENDS SegmentCoordinator

\* The size was found by a probe that saw a range served.
ProbedOnly == {[hint |-> FALSE, faults |-> 0]}

\* Or it is a hint of the page, with one fault fewer to come.
ProbedOrHint == {[hint |-> FALSE, faults |-> 0], [hint |-> TRUE, faults |-> 1]}
=============================================================================
