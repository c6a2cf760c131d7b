---------------------------- MODULE MCComments ----------------------------
(* Instances of Comments for TLC. *)
EXTENDS Comments, TLC

\* Posts, row keys and processes are interchangeable.
Symmetry == Permutations(Posts) \cup Permutations(Rows) \cup Permutations(Processes)
=============================================================================
