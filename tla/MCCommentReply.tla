-------------------------- MODULE MCCommentReply --------------------------
(* Instances of CommentReply for TLC. *)
EXTENDS CommentReply, TLC

\* Row keys, processes and reply requests are interchangeable.
Symmetry == Permutations(Rows) \cup Permutations(Processes) \cup Permutations(Requests)
=============================================================================
