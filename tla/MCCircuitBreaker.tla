-------------------------- MODULE MCCircuitBreaker --------------------------
(* Names for the clients of the circuits that TLC checks.                   *)
EXTENDS CircuitBreaker

CONSTANTS c1, c2, c3, c4, v1
=============================================================================
