---------------------------- MODULE MCModeration ----------------------------
(***************************************************************************)
(* Finite instances of reports and moderation actions for TLC.             *)
(***************************************************************************)
EXTENDS Moderation, TLC

CONSTANT MaxActions    \* moderation actions recorded, if all of them write accounts

NoParts == [p \in Parts |-> CHOOSE i \in Items : TRUE]
AtOne   == [p \in Parts |-> 1]

\* One action less if one of them is about something else.
WithinBound ==
    Len(audit) + (IF \A k \in 1..Len(audit) : OnAccount(audit[k]) THEN 0 ELSE 1) <= MaxActions

BoundedExclusiveSpec == ModerationInit /\ [][ModerationNext /\ Exclusive /\ WithinBound']_allVars

ModeratorSymmetry == Permutations(Moderators)
=============================================================================
