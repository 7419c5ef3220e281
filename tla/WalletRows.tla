----------------------------- MODULE WalletRows -----------------------------
(***************************************************************************)
(* The rows of the creator wallet and the arithmetic that appendEntry and  *)
(* releasePendingToAvailable apply to them (packages/revenue/src/          *)
(* ledger.ts).  Pure: the atomic and the transactional ledger share it.    *)
(***************************************************************************)
EXTENDS Integers, Sequences

CONSTANTS
    Creators,    \* creator profiles; each owns at most one wallet
    Payouts,     \* payout requests an entry may be related to
    NoPayout,    \* relatedPayoutId left undefined
    NoWallet     \* the creator has no wallet row yet

\* WalletTransactionType, plus the one ledger operation that writes no entry.
EntryTypes   == {"VIEW_REVENUE", "AD_REVENUE", "TIP", "SUBSCRIPTION", "PAYOUT",
                 "REFUND", "ADJUSTMENT", "FRAUD_REVERSAL"}
PendingTypes == {"VIEW_REVENUE", "AD_REVENUE"}
Release      == "RELEASE"

\* A wallet row, in cents; the creator id is the key of the table.
WalletRow == [available : Int, pending : Int, paid : Int]
ZeroRow   == [available |-> 0, pending |-> 0, paid |-> 0]

ASSUME NoWalletAssumption == NoWallet \notin WalletRow
ASSUME NoPayoutAssumption == NoPayout \notin Payouts

\* A wallet_transactions row.
Entry == [type : EntryTypes, amount : Int, balanceAfter : Int,
          payout : Payouts \cup {NoPayout}]

\* The arguments of one call of the ledger.
Call == [creator : Creators, type : EntryTypes \cup {Release}, amount : Int,
         payout : Payouts \cup {NoPayout}]

\* What balance_after_cents records.  paid is a running statistic, not a balance.
Balance(row) == row.available + row.pending

\* Mutant: a payout is counted as paid but never taken from available.
CreditedPayoutFree(row, q) ==
    [available |-> IF q.type \in PendingTypes \cup {"PAYOUT"} THEN row.available
                                                              ELSE row.available + q.amount,
     pending   |-> IF q.type \in PendingTypes THEN row.pending + q.amount
                                              ELSE row.pending,
     paid      |-> IF q.type = "PAYOUT" THEN row.paid - q.amount ELSE row.paid]

\* The balances a call writes, given the row it read.
Credited(row, q) ==
    [available |-> IF q.type \in PendingTypes THEN row.available
                                              ELSE row.available + q.amount,
     pending   |-> IF q.type \in PendingTypes THEN row.pending + q.amount
                                              ELSE row.pending,
     paid      |-> IF q.type = "PAYOUT" THEN row.paid - q.amount ELSE row.paid]

\* Mutant: the released amount stays pending too.
ReleasedTwice(row, q) ==
    [available |-> row.available + q.amount, pending |-> row.pending,
     paid      |-> row.paid]

Released(row, q) ==
    [available |-> row.available + q.amount, pending |-> row.pending - q.amount,
     paid      |-> row.paid]

Outcome(row, q) == IF q.type = Release THEN Released(row, q) ELSE Credited(row, q)

\* Mutant: the check is made against the whole balance.
ReleasableFromBalance(row, q) == Balance(row) >= q.amount

\* releasePendingToAvailable throws unless this holds of the row it read.
Releasable(row, q) == row.pending >= q.amount

\* Mutant: balance_after_cents forgets the pending part.
EntryForAvailable(row, q) ==
    [type |-> q.type, amount |-> q.amount,
     balanceAfter |-> Credited(row, q).available, payout |-> q.payout]

\* The wallet_transactions row an append writes, given the row it read.
EntryFor(row, q) ==
    [type |-> q.type, amount |-> q.amount,
     balanceAfter |-> Balance(Credited(row, q)), payout |-> q.payout]

\* Balance recorded before the i-th entry of a ledger.
Before(entries, i) == IF i = 1 THEN 0 ELSE entries[i - 1].balanceAfter

\* Balance recorded by the whole ledger.
Recorded(entries) == IF entries = << >> THEN 0 ELSE entries[Len(entries)].balanceAfter
=============================================================================
