-------------------------- MODULE MCCircuitBreaker --------------------------
(* Instances of CircuitBreaker for TLC. *)
EXTENDS CircuitBreaker, TLC

\* Callers are interchangeable; used for the safety runs only.
CallerSymmetry == Permutations(Callers)

=============================================================================
