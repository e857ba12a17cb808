---------------------------- MODULE MCSearchCache ----------------------------
(* Model-checking instance of SearchCache. *)
EXTENDS SearchCache, TLC

Symmetry == Permutations(Keys)
===============================================================================
