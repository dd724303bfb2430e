-------------------------- MODULE MCCircuitBreaker --------------------------
(* The small instance of CircuitBreaker that TLC explores.                  *)
EXTENDS CircuitBreaker
=============================================================================
