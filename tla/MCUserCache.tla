------------------------------ MODULE MCUserCache ------------------------------
(* A small instance of UserCache. *)
EXTENDS UserCache
=============================================================================
