------------------------------ MODULE MCDelivery ------------------------------
(* Small instances of Delivery. *)
EXTENDS Delivery, TLC
CONSTANTS reserved, released, m1, m2, p1, p2

\* A reservation of one piece and a release of another one.
MCChange == [r \in Events |-> IF r = reserved THEN -1 ELSE 1]
MCTopics == {Stock, Notification}
=============================================================================
