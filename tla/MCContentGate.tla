-------------------------- MODULE MCContentGate --------------------------
EXTENDS ContentGate, TLC

Symmetry == Permutations(Editors)
===========================================================================
