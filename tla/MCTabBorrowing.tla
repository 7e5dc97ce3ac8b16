----------------------------- MODULE MCTabBorrowing -----------------------------
(* Small instances of TabBorrowing: b2 is a request of session s2, the others *)
(* are of s1, and with two tabs b3 is for the second.                         *)
EXTENDS TabBorrowing

CONSTANTS s1, s2, t1, t2, w1, w2, b1, b2, b3, r1, k1
MCSessionOf == [x \in Requests |-> IF x = b2 THEN s2 ELSE s1]
MCOneTab    == [x \in Borrows \cup Returns |-> t1]
MCTwoTabs   == [x \in Borrows \cup Returns |-> IF x = b3 THEN t2 ELSE t1]
===============================================================================
