-------------------------- MODULE MCCommentReplies --------------------------
(* Comments and replies on a small instance.                                *)
EXTENDS CommentReplies, TLC

CONSTANTS c1, c2, d1, d2, d3, t1, t2, q1, q2

MCSymmetry == Permutations({d1, d2}) \cup Permutations({t1, t2}) \cup Permutations({q1, q2})
=============================================================================
