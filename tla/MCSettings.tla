------------------------------ MODULE MCSettings ------------------------------
\* Settings for TLC: the callers are interchangeable.
EXTENDS Settings, TLC

Symmetry == Permutations(Callers)
=============================================================================
