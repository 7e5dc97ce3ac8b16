------------------------------ MODULE MCCdpDriver ------------------------------
(* A small instance of CdpDriver. *)
EXTENDS CdpDriver, TLC

CONSTANTS c1, c2, k1, k2

Symmetry == Permutations(Calls) \cup Permutations(Sessions)
===============================================================================
