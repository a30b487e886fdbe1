---------------------------- MODULE MCLinkPairing ----------------------------
(* Two devices and two codes, each to be shown by either of them. *)
EXTENDS LinkPairing, TLC

CONSTANTS a, b, c1, c2

MCDevices == {a, b}
MCCodes == {c1, c2}
Symmetry == Permutations(MCDevices) \cup Permutations(MCCodes)
=============================================================================
