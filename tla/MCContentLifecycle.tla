------------------------- MODULE MCContentLifecycle -------------------------
(***************************************************************************)
(* Finite instances of the content lifecycle for TLC.                      *)
(***************************************************************************)
EXTENDS ContentLifecycle, TLC

CONSTANTS i1, i2, p1, p2

InOrder == [p \in Parts |-> IF p = p1 THEN 1 ELSE 2]

OfItem(ops, i) == {[op |-> op, item |-> i, part |-> NoPart] : op \in ops}

\* An article i1 with its part p1, and a story i2 with a chapter p2.
EachItem    == [p \in Parts |-> IF p = p1 THEN i1 ELSE i2]
AllRequests ==
    OfItem({"publish", "unpublish", "delete", "hide", "fill", "clear"}, i1)
      \cup OfItem({"publish", "clear", "add"}, i2)
      \cup {[op |-> op, item |-> i2, part |-> p2] : op \in {"publish", "delete"}}

HandlerSymmetry == Permutations(Handlers)
=============================================================================
