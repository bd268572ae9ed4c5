--------------------------- MODULE MCCommentWalk ---------------------------
(***************************************************************************)
(* Instances of CommentWalk for TLC.                                       *)
(***************************************************************************)
EXTENDS CommentWalk

Distinct == [c \in Comments |-> c]
Ties == [c \in Comments |-> (c + 1) \div 2]
=============================================================================
