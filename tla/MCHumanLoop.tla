------------------------------- MODULE MCHumanLoop -------------------------------
(* A small instance of HumanLoop: a window with two tabs. *)
EXTENDS HumanLoop, TLC

CONSTANTS t1, t2

Symmetry == Permutations(Tabs)
===============================================================================
