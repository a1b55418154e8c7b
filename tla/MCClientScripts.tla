---------------------------- MODULE MCClientScripts ----------------------------
(* A small instance of ClientScripts for TLC: two transfers, and one for the   *)
(* reverse test, which keeps nothing from one to the next but their results.       *)
EXTENDS ClientScripts

Starts == [s \in Script |-> IF s = "reverse" THEN 1 ELSE 2]
=============================================================================
