-------------------------- MODULE MCResourceHealth --------------------------
\* ResourceHealth for TLC: the handlers and the failure ids are interchangeable,
\* so the safety runs take them up to permutation.
EXTENDS ResourceHealth, TLC

Symmetry == Permutations(Requests) \cup Permutations(FailureIds)
=============================================================================
