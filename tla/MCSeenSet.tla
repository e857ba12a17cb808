------------------------------ MODULE MCSeenSet ------------------------------
(* Model-checking instance of SeenSetMachine. *)
EXTENDS SeenSetMachine, TLC

Symmetry == Permutations(Urls)
===============================================================================
