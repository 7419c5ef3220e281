-------------------------- MODULE MCRevisionHistory --------------------------
(***************************************************************************)
(* Finite instances of slugs, redirects and versions for TLC.              *)
(***************************************************************************)
EXTENDS RevisionHistory

CONSTANTS
    i1, i2, i3, p1, p2, p3,    \* an article with p1, a story with p2 and p3, an article
    A, AA, B, a, a2, b,        \* titles and slugs; AA is A in capitals
    k1, x, y,                  \* a category, two bodies
    MaxWrites,                 \* versions and redirects
    MaxChoices                 \* choices of an item's categories, its first included

MCItemOf     == [p \in Parts |-> IF p = p1 THEN i1 ELSE i2]
MCCandidates == [t \in Titles |-> IF t = B THEN <<b>> ELSE <<a, a2>>]

MCRequests ==
    {[op |-> "create", item |-> i, part |-> None, title |-> A,
      body |-> IF i \in Articles THEN x ELSE None,
      cats |-> IF i \in Articles THEN Categories ELSE None] : i \in Items}
    \cup {[op |-> "rename", item |-> i1, part |-> None, title |-> t,
           body |-> IF t = A THEN y ELSE None,
           cats |-> CASE t = A -> None [] t = AA -> Categories [] t = B -> {}] : t \in Titles}
    \cup {[op |-> "rename", item |-> i1, part |-> None, title |-> None, body |-> None,
           cats |-> c] : c \in {None, {}}}
    \cup {[op |-> "rename", item |-> i2, part |-> None, title |-> B, body |-> None, cats |-> None]}
    \cup {[op |-> "add", item |-> i2, part |-> p, title |-> A, body |-> x, cats |-> None]
            : p \in Parts \ {p1}}
    \cup {[op |-> "save", item |-> i2, part |-> p2, title |-> None, body |-> y, cats |-> None]}

\* Bound: versions and redirects written or under way, over all items, so that
\* three renames, or three saves, or some of both occur.
InFlight(h) == IF stage[h] = "idle" \/ request[h].op = "create" THEN 0
               ELSE (IF request[h].title # None THEN 1 ELSE 0)
                    + (IF request[h].op # "add" /\ request[h].body # None THEN 1 ELSE 0)
WithinBound ==
    FoldFunctionOnSet(+, 0, [p \in Parts |-> Len(versions[p])], Parts)
      + Cardinality({p \in Paths : redirect[p] # None})
      + FoldFunctionOnSet(+, 0, [h \in Handlers |-> InFlight(h)], Handlers) <= MaxWrites

\* Bound: choices of categories committed or under way, so that two of them, which
\* may overlap, follow the first.
Choosing(i) == {h \in Handlers : stage[h] # "idle" /\ request[h].item = i /\ request[h].cats # None}
FewChoices == \A i \in Items : Len(asked[i]) + Cardinality(Choosing(i)) <= MaxChoices

BoundedSpec == Init /\ [][Next /\ (WithinBound /\ FewChoices)']_vars /\ \A h \in Handlers : Fairness(h)
=============================================================================
