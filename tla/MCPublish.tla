----------------------------- MODULE MCPublish -----------------------------
(* Instances of Publish for TLC. *)
EXTENDS Publish, TLC

\* Row ids, requests and workers are interchangeable.
Symmetry == Permutations(Posts) \cup Permutations(Requests) \cup Permutations(Workers)
=============================================================================
