---------------------------- MODULE MCKeyLimits ----------------------------
\* KeyLimits for TLC: the requests are interchangeable.
EXTENDS KeyLimits, TLC

Symmetry == Permutations(Requests)
=============================================================================
