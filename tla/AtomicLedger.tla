---------------------------- MODULE AtomicLedger ----------------------------
(***************************************************************************)
(* What the wallet ledger promises: every call of the ledger is one        *)
(* indivisible step that reads the wallet, appends at most one entry and   *)
(* updates the cached balances from the row it read.  This is the program  *)
(* that the comment on class WalletLedger describes.                       *)
(***************************************************************************)
EXTENDS WalletRows

CONSTANT Calls   \* the calls the rest of the program makes

VARIABLES
    wallet,      \* wallet[c]: the wallets row of creator c, or NoWallet
    ledger       \* ledger[c]: the wallet_transactions of c, oldest first

vars == <<wallet, ledger>>

Init ==
    /\ wallet = [c \in Creators |-> NoWallet]
    /\ ledger = [c \in Creators |-> << >>]

\* The row the call works on: the upsert creates a missing one with zeroes.
RowOf(c) == IF wallet[c] = NoWallet THEN ZeroRow ELSE wallet[c]

\* createProfile opens an empty wallet next to the new profile.
Open(c) ==
    /\ wallet[c] = NoWallet
    /\ wallet' = [wallet EXCEPT ![c] = ZeroRow]
    /\ UNCHANGED ledger

AppendEntry(q) ==
    /\ q.type # Release
    /\ wallet' = [wallet EXCEPT ![q.creator] = Outcome(RowOf(q.creator), q)]
    /\ ledger' = [ledger EXCEPT ![q.creator] = Append(@, EntryFor(RowOf(q.creator), q))]

\* Moves money inside the wallet: it leaves no entry.
ReleasePending(q) ==
    /\ q.type = Release
    /\ wallet[q.creator] # NoWallet
    /\ Releasable(wallet[q.creator], q)
    /\ wallet' = [wallet EXCEPT ![q.creator] = Outcome(@, q)]
    /\ UNCHANGED ledger

Next ==
    \/ \E c \in Creators : Open(c)
    \/ \E q \in Calls : AppendEntry(q) \/ ReleasePending(q)

Spec == Init /\ [][Next]_vars
=============================================================================
