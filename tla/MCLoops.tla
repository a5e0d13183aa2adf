------------------------------ MODULE MCLoops ------------------------------
(* An int that holds -8 to 7 and sizes on both sides of its limits. *)
EXTENDS Loops
=============================================================================
