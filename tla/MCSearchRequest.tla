--------------------------- MODULE MCSearchRequest ---------------------------
(* Model-checking instance of SearchRequest. *)
EXTENDS SearchRequest, TLC

Symmetry == Permutations(Requests)
===============================================================================
