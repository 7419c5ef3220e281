------------------------------ MODULE MCComments ------------------------------
(***************************************************************************)
(* A finite instance of accounts and comments for TLC.                     *)
(***************************************************************************)
EXTENDS Comments

CONSTANT u1

AllOps == AccountOps \cup CommentOps

\* A reply; the comment that it answers is left out.
Reply == <<[author |-> u1, parent |-> 0, deleted |-> FALSE, text |-> None]>>

\* Bounds: two posts are stored, and the run ends with the answer to the second; answers
\* to posts of one draft get lost.
TwoPosts ==
    /\ Len(comment) <= 2 \/ (Len(comment) = 3 /\ \E w \in Writers : At(w, "post", "answer"))
    /\ \A t, u \in Texts : t # u => lost[t] + lost[u] <= 1
=============================================================================
