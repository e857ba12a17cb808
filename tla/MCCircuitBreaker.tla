--------------------------- MODULE MCCircuitBreaker ---------------------------
(* Model-checking instance of CircuitBreaker, with the constants of the code. *)
EXTENDS CircuitBreaker
===============================================================================
