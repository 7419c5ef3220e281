------------------------------ MODULE MCPayouts ------------------------------
(***************************************************************************)
(* Finite instances of the payout requests for TLC.                        *)
(***************************************************************************)
EXTENDS Payouts, TLC

CONSTANTS
    c1, p1, p2,
    MaxEntries       \* entries a creator's ledger may grow to

OneCreator == [p \in Payouts |-> c1]
\* Both payouts fit the wallet alone, not together.
Amounts    == [p \in Payouts |-> IF p = p1 THEN 1 ELSE 2]

\* A grant, and an admin's correction that may overdraw the wallet by itself.
Corrections == {2, -1}

MCCalls == {PayoutCall(p) : p \in Payouts} \cup {ReversalCall(p) : p \in Payouts}
             \cup {AdjustCall(c, a) : c \in Creators, a \in Adjustments}

\* Bound: entries written, on their way or about to be.
WithinBound ==
    \A c \in Creators :
        Len(ledger[c])
          + Cardinality({h \in Handlers : Concerns(h, c) /\ pc[h] \notin {"ok", "error"}})
        <= MaxEntries

\* Anything the code allows.
RaceSpec == AdminInit /\ [][AdminNext /\ WithinBound']_allVars

\* One request per creator at a time, by processes that stay up and admins who
\* leave paid payouts alone.
CarefulSpec ==
    /\ AdminInit /\ [][CarefulStep /\ WithinBound']_allVars
    /\ \A h \in Handlers : AdminFairness(h)

HandlerSymmetry == Permutations(Handlers)
=============================================================================
