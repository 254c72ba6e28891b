-------------------------- MODULE MCCircuitBreaker --------------------------
EXTENDS CircuitBreaker, TLC

CONSTANTS a, b, c

Symmetry == Permutations(Tasks)
=============================================================================
