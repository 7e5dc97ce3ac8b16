------------------------------- MODULE MCRecording -------------------------------
(* A small instance of Recording: a window with two tabs. *)
EXTENDS Recording, TLC

CONSTANTS t1, t2

Symmetry == Permutations(Tabs)
===============================================================================
