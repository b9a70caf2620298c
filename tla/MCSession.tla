------------------------------- MODULE MCSession -------------------------------
(* A small instance of Session. *)
EXTENDS Session
CONSTANTS tab1, tab2, r1, r2, r3

MCTabOf == [r \in Requests |-> IF r = r3 THEN tab2 ELSE tab1]
=============================================================================
