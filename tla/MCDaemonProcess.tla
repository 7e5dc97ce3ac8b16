---------------------------- MODULE MCDaemonProcess ----------------------------
(* A small instance of DaemonProcess: two terminals. *)
EXTENDS DaemonProcess, TLC

CONSTANTS c1, c2

Symmetry == Permutations(Clients)
===============================================================================
