-------------------------- MODULE MCCommentThread --------------------------
(* Values for checking CommentThread. *)
EXTENDS CommentThread, TLC

Calls == Permutations(Call)
=============================================================================
