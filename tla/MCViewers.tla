----------------------------- MODULE MCViewers -----------------------------
(* Small instances of Reactions and Comments, side by side, for TLC. *)
EXTENDS Reactions, Comments, TLC

VARIABLE part

(* Comments run twice: all of them without likes, one fewer with likes.    *)
NoLikes == \A q \in Calls : calls'[q].op \notin {"like", "unlike"}

OneFewer == comments'[MaxComments] = Absent

MCInit == part \in {"reactions", "threads", "likes"} /\ ReactInit /\ CommentInit

MCNext ==
    \/ part = "reactions" /\ ReactNext /\ UNCHANGED <<part, commentVars>>
    \/ part = "threads" /\ CommentNext /\ NoLikes /\ UNCHANGED <<part, reactVars>>
    \/ part = "likes" /\ CommentNext /\ OneFewer /\ UNCHANGED <<part, reactVars>>

MCSpec == MCInit /\ [][MCNext]_<<part, reactVars, commentVars>>

Symmetry == Permutations(Calls)

=============================================================================
