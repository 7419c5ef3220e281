--------------------------- MODULE MCWalletLedger ---------------------------
(***************************************************************************)
(* Finite instances of the wallet ledger for TLC.                          *)
(***************************************************************************)
EXTENDS WalletLedger, FiniteSets

CONSTANT MaxEntries    \* entries a creator's ledger may grow to

ACall(c, type, amount) ==
    [creator |-> c, type |-> type, amount |-> amount, payout |-> NoPayout]

\* A credit of pending revenue, a payout, a correction and two releases, so
\* that every branch of the balance arithmetic and both ends of a release's
\* check occur.
AppendCalls  == {ACall(c, a[1], a[2]) :
                    c \in Creators,
                    a \in {<<"VIEW_REVENUE", 2>>, <<"PAYOUT", -1>>, <<"ADJUSTMENT", 1>>}}
ReleaseCalls == {ACall(c, Release, n) : c \in Creators, n \in {1, 2}}
FewCalls     == {ACall(c, a[1], a[2]) :
                    c \in Creators,
                    a \in {<<"VIEW_REVENUE", 2>>, <<"PAYOUT", -1>>, <<Release, 1>>}}
AllCalls     == AppendCalls \cup ReleaseCalls

\* Bound: entries written or on their way.
WithinBound ==
    \A c \in Creators :
        Len(ledger[c])
          + Cardinality({h \in Handlers : IsOpen(h) /\ Creator(h) = c /\ ~IsRelease(h)})
        <= MaxEntries

BoundedSpec ==
    /\ Init /\ [][Next /\ WithinBound']_vars
    /\ \A h \in Handlers : Fairness(h)

BoundedSerialSpec == Init /\ [][Next /\ NoOverlap' /\ WithinBound']_vars
=============================================================================
