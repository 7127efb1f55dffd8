-------------------------- MODULE MCCircuitBreaker --------------------------
EXTENDS CircuitBreakerSequential, TLC
Symmetry == Permutations(Users)
=============================================================================
