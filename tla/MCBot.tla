------------------------------ MODULE MCBot ------------------------------
EXTENDS Bot

(* Three turns of one conversation, any of them at once; one of another. *)
MCOf == [t \in Turn |-> IF t = 4 THEN 2 ELSE 1]
=============================================================================
