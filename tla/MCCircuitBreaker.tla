-------------------------- MODULE MCCircuitBreaker --------------------------
(***************************************************************************)
(* Instances of CircuitBreaker for TLC; the cfg files name the dispatches. *)
(***************************************************************************)
EXTENDS CircuitBreaker
=============================================================================
