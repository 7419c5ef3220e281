---------------------------- MODULE WalletLedger ----------------------------
(***************************************************************************)
(* The wallet ledger as it runs: packages/revenue/src/ledger.ts, class     *)
(* WalletLedger.  A call is an interactive Prisma transaction of several   *)
(* SQL statements at PostgreSQL's default isolation, READ COMMITTED, and   *)
(* the calls of different API requests interleave statement by statement.  *)
(*                                                                         *)
(* What the database does, as the statements of ledger.ts use it:          *)
(*  - a SELECT sees committed rows only and takes no lock;                 *)
(*  - an upsert with an empty update is a SELECT, then an INSERT if no row *)
(*    came back (Prisma 5 emulates it and writes nothing to a found row);  *)
(*  - an INSERT waits for an uncommitted INSERT of the same unique key and *)
(*    fails (P2002, which aborts the transaction) on a committed one;      *)
(*  - an UPDATE waits for the transaction that wrote the row and then      *)
(*    overwrites it: ledger.ts writes absolute balances, not increments;   *)
(*  - inserting an entry only key-share-locks the wallet: it never waits;  *)
(*  - the writes of a transaction become visible together, at its commit.  *)
(***************************************************************************)
EXTENDS WalletRows, SequencesExt

CONSTANTS
    Calls,       \* the calls the rest of the program makes
    Handlers,    \* concurrent API requests, each with at most one open call
    NoCall       \* a handler that is not calling the ledger

ASSUME CallsAssumption  == Calls \subseteq Call
ASSUME NoCallAssumption == NoCall \notin Calls

VARIABLES
    wallet,      \* committed wallets rows
    ledger,      \* committed wallet_transactions, in commit order
    pc,          \* pc[h]: the next statement of h's transaction
    call,        \* call[h]: the arguments of h's call
    row,         \* row[h]: the wallet h's transaction read or inserted
    locked       \* locked[h]: h's transaction has written the wallet row

rowVars == <<wallet, ledger>>
txVars  == <<pc, call, row, locked>>
vars    == <<rowVars, txVars>>

\* An open transaction stands before one of these statements.
OpenAt == {"select", "insert", "entry", "update", "commit"}
PC     == OpenAt \cup {"idle", "ok", "error"}

IsOpen(h)     == pc[h] \in OpenAt
Creator(h)    == call[h].creator
IsRelease(h)  == call[h].type = Release
NextRow(h)    == Outcome(row[h], call[h])

\* Transactions whose uncommitted write makes other writers of c's wallet wait.
Writers(c) == {h \in Handlers : locked[h] /\ Creator(h) = c}

-----------------------------------------------------------------------------

Init ==
    /\ wallet = [c \in Creators |-> NoWallet]
    /\ ledger = [c \in Creators |-> << >>]
    /\ pc     = [h \in Handlers |-> "idle"]
    /\ call   = [h \in Handlers |-> NoCall]
    /\ row    = [h \in Handlers |-> ZeroRow]
    /\ locked = [h \in Handlers |-> FALSE]

Goto(h, label) == pc' = [pc EXCEPT ![h] = label]

\* The transaction rolls back and the call rejects.
Fail(h) ==
    /\ Goto(h, "error")
    /\ locked' = [locked EXCEPT ![h] = FALSE]
    /\ UNCHANGED <<rowVars, call, row>>

\* appendEntry(params) or releasePendingToAvailable(creatorId, amountCents).
Begin(h, q) ==
    /\ pc[h] = "idle"
    /\ q \in Calls
    /\ Goto(h, "select")
    /\ call' = [call EXCEPT ![h] = q]
    /\ UNCHANGED <<rowVars, row, locked>>

\* appendEntry: the SELECT of the upsert.
UpsertFinds(h) ==
    /\ pc[h] = "select" /\ ~IsRelease(h)
    /\ wallet[Creator(h)] # NoWallet
    /\ row' = [row EXCEPT ![h] = wallet[Creator(h)]]
    /\ Goto(h, "entry")
    /\ UNCHANGED <<rowVars, call, locked>>

UpsertMisses(h) ==
    /\ pc[h] = "select" /\ ~IsRelease(h)
    /\ wallet[Creator(h)] = NoWallet
    /\ Goto(h, "insert")
    /\ UNCHANGED <<rowVars, call, row, locked>>

\* appendEntry: the INSERT of the upsert.
UpsertInserts(h) ==
    /\ pc[h] = "insert"
    /\ wallet[Creator(h)] = NoWallet
    /\ Writers(Creator(h)) = {}
    /\ row' = [row EXCEPT ![h] = ZeroRow]
    /\ locked' = [locked EXCEPT ![h] = TRUE]
    /\ Goto(h, "entry")
    /\ UNCHANGED <<rowVars, call>>

UpsertCollides(h) ==
    /\ pc[h] = "insert"
    /\ wallet[Creator(h)] # NoWallet
    /\ Fail(h)

\* releasePendingToAvailable: findUniqueOrThrow and the check of the balance.
ReleaseReads(h) ==
    /\ pc[h] = "select" /\ IsRelease(h)
    /\ wallet[Creator(h)] # NoWallet
    /\ Releasable(wallet[Creator(h)], call[h])
    /\ row' = [row EXCEPT ![h] = wallet[Creator(h)]]
    /\ Goto(h, "update")
    /\ UNCHANGED <<rowVars, call, locked>>

\* Mutant: a missing wallet throws, an insufficient balance does not.
ReleaseThrowsIfMissing(h) ==
    /\ pc[h] = "select" /\ IsRelease(h)
    /\ wallet[Creator(h)] = NoWallet
    /\ Fail(h)

ReleaseThrows(h) ==
    /\ pc[h] = "select" /\ IsRelease(h)
    /\ ~(wallet[Creator(h)] # NoWallet /\ Releasable(wallet[Creator(h)], call[h]))
    /\ Fail(h)

\* Mutant: the entry is written on a connection outside the transaction.
WriteEntryOutside(h) ==
    /\ pc[h] = "entry"
    /\ Goto(h, "update")
    /\ ledger' = [ledger EXCEPT ![Creator(h)] = Append(@, EntryFor(row[h], call[h]))]
    /\ UNCHANGED <<wallet, call, row, locked>>

\* walletTransaction.create: the entry is written, visible to nobody yet.
WriteEntry(h) ==
    /\ pc[h] = "entry"
    /\ Goto(h, "update")
    /\ UNCHANGED <<rowVars, call, row, locked>>

\* wallet.update: waits for another writer of the row, then overwrites it.
UpdateWallet(h) ==
    /\ pc[h] = "update"
    /\ Writers(Creator(h)) \subseteq {h}
    /\ locked' = [locked EXCEPT ![h] = TRUE]
    /\ Goto(h, "commit")
    /\ UNCHANGED <<rowVars, call, row>>

Commit(h) ==
    /\ pc[h] = "commit"
    /\ wallet' = [wallet EXCEPT ![Creator(h)] = NextRow(h)]
    /\ ledger' = IF IsRelease(h) THEN ledger
                 ELSE [ledger EXCEPT ![Creator(h)] =
                           Append(@, EntryFor(row[h], call[h]))]
    /\ locked' = [locked EXCEPT ![h] = FALSE]
    /\ Goto(h, "ok")
    /\ UNCHANGED <<call, row>>

\* The transaction times out (5 s), or its connection or process is lost.
Abort(h) ==
    /\ IsOpen(h)
    /\ Fail(h)

\* The promise settles and the handler goes on.
Return(h) ==
    /\ pc[h] \in {"ok", "error"}
    /\ Goto(h, "idle")
    /\ call' = [call EXCEPT ![h] = NoCall]
    /\ row' = [row EXCEPT ![h] = ZeroRow]
    /\ UNCHANGED <<rowVars, locked>>

\* createProfile: wallet.create, a statement of its own after the profile's
\* transaction.
OpenWallet(c) ==
    /\ wallet[c] = NoWallet
    /\ Writers(c) = {}
    /\ wallet' = [wallet EXCEPT ![c] = ZeroRow]
    /\ UNCHANGED <<ledger, txVars>>

-----------------------------------------------------------------------------

\* One statement of h's transaction.
Statement(h) ==
    \/ UpsertFinds(h) \/ UpsertMisses(h) \/ UpsertInserts(h) \/ UpsertCollides(h)
    \/ ReleaseReads(h) \/ ReleaseThrows(h)
    \/ WriteEntry(h) \/ UpdateWallet(h) \/ Commit(h)

Next ==
    \/ \E h \in Handlers : (\E q \in Calls : Begin(h, q))
                             \/ Statement(h) \/ Abort(h) \/ Return(h)
    \/ \E c \in Creators : OpenWallet(c)

Spec == Init /\ [][Next]_vars

\* The database runs every statement it can.  Statements that wait for a row
\* are served in arrival order, so a wait is not overtaken for ever.
Fairness(h) ==
    /\ WF_vars(Statement(h))
    /\ SF_vars(UpsertInserts(h) \/ UpsertCollides(h))
    /\ SF_vars(UpdateWallet(h))

\* At most one open call per creator: what a caller that serialised its calls
\* (or a SELECT ... FOR UPDATE in ledger.ts) would give.  The code does not.
NoOverlap ==
    \A g, h \in Handlers :
        IsOpen(g) /\ IsOpen(h) /\ Creator(g) = Creator(h) => g = h

SerialSpec == Init /\ [][Next /\ NoOverlap']_vars
-----------------------------------------------------------------------------
(***************************************************************************)
(* Properties of every interleaving                                        *)
(***************************************************************************)

\* Types of the tables and of the open transactions.
TypeOK ==
    /\ wallet \in [Creators -> WalletRow \cup {NoWallet}]
    /\ ledger \in [Creators -> Seq(Entry)]
    /\ pc     \in [Handlers -> PC]
    /\ call   \in [Handlers -> Calls \cup {NoCall}]
    /\ row    \in [Handlers -> WalletRow]
    /\ locked \in [Handlers -> BOOLEAN]

\* Balances recorded by the first k entries, and by the empty wallet.
History(entries, k) == {0} \cup {entries[i].balanceAfter : i \in 1..k}

\* Every entry adds its amount to a balance that was recorded before it.
Descends(entries) ==
    \A i \in 1..Len(entries) :
        entries[i].balanceAfter - entries[i].amount \in History(entries, i - 1)

\* No balance comes from nowhere.  Concurrent calls may overwrite each other,
\* but every entry adds its amount to a balance that an earlier entry (or the
\* empty wallet) recorded, and the cached balance is one of those: a torn or
\* rolled-back transaction (ledger.ts, appendEntry) never leaks into either.
BalancesDescend ==
    \A c \in Creators :
        /\ Descends(ledger[c])
        /\ wallet[c] # NoWallet =>
              Balance(wallet[c]) \in History(ledger[c], Len(ledger[c]))

\* Unconfirmed revenue is never released twice over: however releases and
\* credits race, each writes a pending balance no lower than zero (the check
\* in releasePendingToAvailable is on the row its own transaction overwrites).
PendingNeverNegative ==
    \A c \in Creators : wallet[c] # NoWallet => wallet[c].pending >= 0

\* Every call settles: the transactions never wait for each other in a ring,
\* neither on the unique index of a missing wallet nor on its row.
CallsReturn == \A h \in Handlers : IsOpen(h) ~> pc[h] \in {"ok", "error"}

-----------------------------------------------------------------------------
(***************************************************************************)
(* Properties of calls that never overlap on a creator, and of a ledger    *)
(* that would serialise them.  The last two are what the documentation     *)
(* says of the ledger as it is.                                            *)
(***************************************************************************)

\* Every entry records the running total.
Totals(entries) ==
    \A i \in 1..Len(entries) :
        entries[i].balanceAfter = Before(entries, i) + entries[i].amount

\* balance_after_cents is the running total: each entry adds its amount to the
\* balance its predecessor recorded, and the cache holds the last of them.
Chained ==
    \A c \in Creators :
        /\ Totals(ledger[c])
        /\ wallet[c] # NoWallet => Balance(wallet[c]) = Recorded(ledger[c])
        /\ wallet[c] = NoWallet => ledger[c] = << >>

\* Summing the entries of a creator's ledger, oldest first.
Summed(c) == FoldLeft(Credited, ZeroRow, ledger[c])

\* While calls on a creator do not overlap, the ledger accounts for every cent
\* of the wallet and for all that was paid out, whatever was released between.
TotalsRebuildable ==
    \A c \in Creators :
        wallet[c] # NoWallet =>
            /\ Balance(wallet[c]) = Balance(Summed(c))
            /\ wallet[c].paid = Summed(c).paid

\* A transaction that has read the wallet still holds its current row.
ReadsCurrent ==
    \A h \in Handlers :
        pc[h] \in {"entry", "update", "commit"} =>
            row[h] = IF wallet[Creator(h)] = NoWallet THEN ZeroRow
                                                      ELSE wallet[Creator(h)]

\* The transactional ledger implements the atomic one.
Atomic == INSTANCE AtomicLedger WITH wallet <- wallet, ledger <- ledger
ImplementsAtomic == Atomic!Spec
=============================================================================
