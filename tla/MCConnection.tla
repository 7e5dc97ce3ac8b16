------------------------------ MODULE MCConnection ------------------------------
(* A small instance of Connection: three sockets, so that two may be closing. *)
EXTENDS Connection

CONSTANTS g1, g2, g3
===============================================================================
