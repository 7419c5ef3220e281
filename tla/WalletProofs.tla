---------------------------- MODULE WalletProofs ----------------------------
(***************************************************************************)
(* What holds of the wallet ledger, and of the payout requests on top of   *)
(* it, for every set of creators, calls, payouts, amounts and concurrent   *)
(* handlers, crashes and timeouts included.                                *)
(***************************************************************************)
EXTENDS Payouts, RevenueProofs

\* A transaction that is not idle has a call.
OpenCalls == \A h \in Handlers : pc[h] # "idle" => call[h] \in Calls

TInv == TypeOK /\ OpenCalls

\* The arithmetic of ledger.ts maps rows to rows and appends write entries.
LEMMA OutcomeType ==
    ASSUME NEW r \in WalletRow, NEW q \in Call
    PROVE  /\ Outcome(r, q) \in WalletRow
           /\ q.type # Release => EntryFor(r, q) \in Entry
  <1>0. r.available \in Int /\ r.pending \in Int /\ r.paid \in Int
    BY DEF WalletRow
  <1>1. /\ q.amount \in Int /\ q.payout \in Payouts \cup {NoPayout}
        /\ q.type \in EntryTypes \cup {Release}
    BY DEF Call
  <1>2. Credited(r, q) \in WalletRow
    BY <1>0, <1>1 DEF Credited, WalletRow
  <1>3. Released(r, q) \in WalletRow
    BY <1>0, <1>1 DEF Released, WalletRow
  <1>4. Outcome(r, q) \in WalletRow
    BY <1>2, <1>3 DEF Outcome
  <1>5. Balance(Credited(r, q)) \in Int
    BY <1>2 DEF Balance, WalletRow
  <1>6. q.type # Release => EntryFor(r, q) \in Entry
    BY <1>1, <1>5 DEF EntryFor, Entry
  <1> QED
    BY <1>4, <1>6

LEMMA ZeroRowType == ZeroRow \in WalletRow
  BY DEF ZeroRow, WalletRow

LEMMA InitTInv == Init => TInv
  <1> SUFFICES ASSUME Init PROVE TInv
    OBVIOUS
  <1>1. ledger \in [Creators -> Seq(Entry)]
    BY DEF Init
  <1> QED
    BY <1>1, ZeroRowType DEF Init, TInv, TypeOK, OpenCalls, PC, OpenAt

\* Every step keeps the tables and the transactions well typed.
LEMMA NextTInv == TInv /\ [Next]_vars => TInv'
  <1> SUFFICES ASSUME TInv, [Next]_vars PROVE TInv'
    OBVIOUS
  <1> USE DEF TInv, OpenCalls, TypeOK, Goto, Fail, rowVars, txVars, PC, OpenAt
  <1>1. ASSUME NEW h \in Handlers, NEW q \in Calls, Begin(h, q) PROVE TInv'
    BY <1>1 DEF Begin
  <1>2. ASSUME NEW h \in Handlers, Statement(h) PROVE TInv'
    <2>1. call[h] \in Calls /\ Creator(h) \in Creators /\ call[h] \in Call
      BY <1>2, CallsAssumption DEF Statement, UpsertFinds, UpsertMisses, UpsertInserts,
         UpsertCollides, ReleaseReads, ReleaseThrows, WriteEntry, UpdateWallet, Commit,
         Creator, Call
    <2>2. CASE UpsertFinds(h)
      BY <2>1, <2>2 DEF UpsertFinds
    <2>3. CASE UpsertMisses(h)
      BY <2>1, <2>3 DEF UpsertMisses
    <2>4. CASE UpsertInserts(h)
      BY <2>1, <2>4, ZeroRowType DEF UpsertInserts
    <2>5. CASE UpsertCollides(h)
      BY <2>1, <2>5 DEF UpsertCollides
    <2>6. CASE ReleaseReads(h)
      BY <2>1, <2>6 DEF ReleaseReads
    <2>7. CASE ReleaseThrows(h)
      BY <2>1, <2>7 DEF ReleaseThrows
    <2>8. CASE WriteEntry(h)
      BY <2>1, <2>8 DEF WriteEntry
    <2>9. CASE UpdateWallet(h)
      BY <2>1, <2>9 DEF UpdateWallet
    <2>10. CASE Commit(h)
      <3>1. NextRow(h) \in WalletRow /\ (~IsRelease(h) => EntryFor(row[h], call[h]) \in Entry)
        BY <2>1, OutcomeType DEF NextRow, IsRelease
      <3>2. wallet' \in [Creators -> WalletRow \cup {NoWallet}]
        BY <2>1, <2>10, <3>1 DEF Commit
      <3>3. ledger' \in [Creators -> Seq(Entry)]
        <4>1. CASE IsRelease(h)
          BY <2>10, <4>1 DEF Commit
        <4>2. CASE ~IsRelease(h)
          <5>1. Append(ledger[Creator(h)], EntryFor(row[h], call[h])) \in Seq(Entry)
            BY <2>1, <3>1, <4>2
          <5> QED
            BY <2>1, <2>10, <4>2, <5>1 DEF Commit
        <4> QED
          BY <4>1, <4>2
      <3> QED
        BY <2>1, <2>10, <3>2, <3>3 DEF Commit
    <2> QED
      BY <1>2, <2>2, <2>3, <2>4, <2>5, <2>6, <2>7, <2>8, <2>9, <2>10 DEF Statement
  <1>3. ASSUME NEW h \in Handlers, Abort(h) PROVE TInv'
    BY <1>3 DEF Abort, IsOpen
  <1>4. ASSUME NEW h \in Handlers, Return(h) PROVE TInv'
    BY <1>4, ZeroRowType DEF Return
  <1>5. ASSUME NEW c \in Creators, OpenWallet(c) PROVE TInv'
    BY <1>5, ZeroRowType DEF OpenWallet
  <1>6. CASE UNCHANGED vars
    BY <1>6 DEF vars
  <1> QED
    BY <1>1, <1>2, <1>3, <1>4, <1>5, <1>6 DEF Next

\* The tables and transactions stay well typed in every interleaving.
THEOREM TypeCorrect == Spec => []TypeOK
  <1>1. Spec => []TInv
    BY InitTInv, NextTInv, PTL DEF Spec
  <1> QED
    BY <1>1, PTL DEF TInv

-----------------------------------------------------------------------------
(***************************************************************************)
(* No balance comes from nowhere                                           *)
(***************************************************************************)

\* An entry adds its amount to the balance of the row it was computed from, and
\* the row written with it holds the balance it records.
LEMMA EntryBalance ==
    ASSUME NEW r \in WalletRow, NEW q \in Call
    PROVE  /\ q.type # Release =>
                /\ EntryFor(r, q).balanceAfter - EntryFor(r, q).amount = Balance(r)
                /\ EntryFor(r, q).balanceAfter = Balance(Outcome(r, q))
           /\ q.type = Release => Balance(Outcome(r, q)) = Balance(r)
  <1>1. r.available \in Int /\ r.pending \in Int /\ r.paid \in Int /\ q.amount \in Int
    BY DEF WalletRow, Call
  <1>2. Balance(Credited(r, q)) = Balance(r) + q.amount
    BY <1>1 DEF Balance, Credited
  <1>3. Balance(Released(r, q)) = Balance(r)
    BY <1>1 DEF Balance, Released
  <1>4. Balance(r) \in Int
    BY <1>1 DEF Balance
  <1> QED
    BY <1>1, <1>2, <1>3, <1>4 DEF EntryFor, Outcome

\* Appending an entry that descends from a recorded balance keeps the ledger
\* descending and forgets no recorded balance.
LEMMA AppendDescends ==
    ASSUME NEW s \in Seq(Entry), NEW e \in Entry, Descends(s),
           e.balanceAfter - e.amount \in History(s, Len(s))
    PROVE  /\ Descends(Append(s, e))
           /\ History(s, Len(s)) \subseteq History(Append(s, e), Len(Append(s, e)))
           /\ e.balanceAfter \in History(Append(s, e), Len(Append(s, e)))
  <1> DEFINE t == Append(s, e)
  <1>1. /\ Len(t) = Len(s) + 1 /\ t[Len(t)] = e /\ Len(s) \in Nat
        /\ \A i \in 1..Len(s) : t[i] = s[i]
    OBVIOUS
  <1>2. \A k \in 0..Len(s) : History(t, k) = History(s, k)
    BY <1>1 DEF History
  <1>3. \A i \in 1..Len(s) : t[i].balanceAfter - t[i].amount \in History(t, i - 1)
    BY <1>1, <1>2 DEF Descends
  <1>4. t[Len(t)].balanceAfter - t[Len(t)].amount \in History(t, Len(t) - 1)
    BY <1>1, <1>2
  <1>5. Descends(t)
    <2> SUFFICES ASSUME NEW i \in 1..Len(t)
                 PROVE  t[i].balanceAfter - t[i].amount \in History(t, i - 1)
      BY DEF Descends
    <2>1. CASE i = Len(t)
      BY <1>4, <2>1
    <2>2. CASE i # Len(t)
      BY <1>1, <1>3, <2>2
    <2> QED
      BY <2>1, <2>2
  <1>6. History(s, Len(s)) \subseteq History(t, Len(t))
    BY <1>1 DEF History
  <1>7. e.balanceAfter \in History(t, Len(t))
    BY <1>1 DEF History
  <1> QED
    BY <1>5, <1>6, <1>7

\* Every row a transaction has read held a recorded balance.
RowsRecorded ==
    \A h \in Handlers :
        pc[h] \in {"entry", "update", "commit"} =>
            Balance(row[h]) \in History(ledger[Creator(h)], Len(ledger[Creator(h)]))

DInv == TInv /\ BalancesDescend /\ RowsRecorded

\* Only Commit and OpenWallet change a committed row; every other step at most
\* reads one.
LEMMA NextDInv == DInv /\ [Next]_vars => DInv'
  <1> SUFFICES ASSUME DInv, [Next]_vars PROVE DInv'
    OBVIOUS
  <1>1. TInv'
    BY NextTInv DEF DInv
  <1> USE DEF DInv, TInv, OpenCalls, TypeOK, Goto, Fail, rowVars, txVars
  <1>2. \A c \in Creators : 0 \in History(ledger[c], Len(ledger[c]))
    BY DEF History
  <1>3. Balance(ZeroRow) = 0
    BY DEF Balance, ZeroRow
  <1>4. ASSUME NEW h \in Handlers, NEW q \in Calls, Begin(h, q) PROVE DInv'
    BY <1>1, <1>4 DEF Begin, BalancesDescend, RowsRecorded, Creator
  <1>5. ASSUME NEW h \in Handlers, Statement(h) PROVE DInv'
    <2>1. call[h] \in Call /\ Creator(h) \in Creators
      BY <1>5, CallsAssumption DEF Statement, UpsertFinds, UpsertMisses, UpsertInserts,
         UpsertCollides, ReleaseReads, ReleaseThrows, WriteEntry, UpdateWallet, Commit,
         Creator, Call
    <2>2. CASE UpsertFinds(h) \/ ReleaseReads(h)
      <3>1. Balance(wallet[Creator(h)]) \in
              History(ledger[Creator(h)], Len(ledger[Creator(h)]))
        BY <2>1, <2>2 DEF UpsertFinds, ReleaseReads, BalancesDescend
      <3> QED
        BY <1>1, <2>2, <3>1
        DEF UpsertFinds, ReleaseReads, BalancesDescend, RowsRecorded, Creator
    <2>3. CASE UpsertInserts(h)
      BY <1>1, <1>2, <1>3, <2>1, <2>3
      DEF UpsertInserts, BalancesDescend, RowsRecorded, Creator
    <2>4. CASE UpsertMisses(h) \/ UpsertCollides(h) \/ ReleaseThrows(h)
      BY <1>1, <2>4
      DEF UpsertMisses, UpsertCollides, ReleaseThrows, BalancesDescend, RowsRecorded, Creator
    <2>5. CASE WriteEntry(h) \/ UpdateWallet(h)
      BY <1>1, <2>5 DEF WriteEntry, UpdateWallet, BalancesDescend, RowsRecorded, Creator
    <2>6. CASE Commit(h)
      <3> DEFINE c == Creator(h)
                 e == EntryFor(row[h], call[h])
      <3>1. Balance(row[h]) \in History(ledger[c], Len(ledger[c]))
        BY <2>6 DEF Commit, RowsRecorded
      <3>2. CASE IsRelease(h)
        <4>1. Balance(wallet'[c]) = Balance(row[h])
          BY <2>1, <2>6, <3>2, EntryBalance DEF Commit, NextRow, IsRelease
        <4>2. ledger' = ledger
          BY <2>6, <3>2 DEF Commit
        <4> QED
          BY <1>1, <2>1, <2>6, <3>1, <4>1, <4>2
          DEF Commit, BalancesDescend, RowsRecorded, Creator
      <3>3. CASE ~IsRelease(h)
        <4>1. /\ e \in Entry
              /\ e.balanceAfter - e.amount = Balance(row[h])
              /\ Balance(NextRow(h)) = e.balanceAfter
          BY <2>1, <3>3, OutcomeType, EntryBalance DEF NextRow, IsRelease
        <4>2. /\ Descends(Append(ledger[c], e))
              /\ History(ledger[c], Len(ledger[c]))
                   \subseteq History(Append(ledger[c], e), Len(Append(ledger[c], e)))
              /\ e.balanceAfter \in History(Append(ledger[c], e), Len(Append(ledger[c], e)))
          <5>1. ledger[c] \in Seq(Entry) /\ Descends(ledger[c])
            BY <2>1 DEF BalancesDescend
          <5>2. e.balanceAfter - e.amount \in History(ledger[c], Len(ledger[c]))
            BY <3>1, <4>1
          <5> QED
            BY <4>1, <5>1, <5>2, AppendDescends
        <4>3. /\ ledger'[c] = Append(ledger[c], e) /\ wallet'[c] = NextRow(h)
              /\ \A d \in Creators \ {c} : ledger'[d] = ledger[d] /\ wallet'[d] = wallet[d]
          BY <2>1, <2>6, <3>3 DEF Commit
        <4>4. BalancesDescend'
          BY <4>1, <4>2, <4>3 DEF BalancesDescend
        <4>5. RowsRecorded'
          <5> SUFFICES ASSUME NEW g \in Handlers, pc'[g] \in {"entry", "update", "commit"}
                       PROVE  Balance(row'[g]) \in
                                History(ledger'[Creator(g)], Len(ledger'[Creator(g)]))
            BY <2>6 DEF RowsRecorded, Commit, Creator
          <5>1. pc[g] = pc'[g] /\ row'[g] = row[g]
            BY <2>6 DEF Commit
          <5>2. Balance(row[g]) \in History(ledger[Creator(g)], Len(ledger[Creator(g)]))
            BY <5>1 DEF RowsRecorded
          <5>3. Creator(g) \in Creators
            BY <5>1, CallsAssumption DEF Creator, Call
          <5>4. CASE Creator(g) = c
            BY <4>2, <4>3, <5>1, <5>2, <5>4
          <5>5. CASE Creator(g) # c
            BY <4>3, <5>1, <5>2, <5>3, <5>5
          <5> QED
            BY <5>4, <5>5
        <4> QED
          BY <1>1, <4>4, <4>5
      <3> QED
        BY <3>2, <3>3
    <2> QED
      BY <1>5, <2>2, <2>3, <2>4, <2>5, <2>6 DEF Statement
  <1>6. ASSUME NEW h \in Handlers, Abort(h) PROVE DInv'
    BY <1>1, <1>6 DEF Abort, BalancesDescend, RowsRecorded, Creator
  <1>7. ASSUME NEW h \in Handlers, Return(h) PROVE DInv'
    BY <1>1, <1>7 DEF Return, BalancesDescend, RowsRecorded, Creator
  <1>8. ASSUME NEW c \in Creators, OpenWallet(c) PROVE DInv'
    BY <1>1, <1>2, <1>3, <1>8 DEF OpenWallet, BalancesDescend, RowsRecorded, Creator
  <1>9. CASE UNCHANGED vars
    BY <1>1, <1>9 DEF vars, BalancesDescend, RowsRecorded, Creator
  <1> QED
    BY <1>4, <1>5, <1>6, <1>7, <1>8, <1>9 DEF Next

LEMMA InitDInv == Init => DInv
  <1> SUFFICES ASSUME Init PROVE DInv
    OBVIOUS
  <1>1. \A c \in Creators : ledger[c] = << >> /\ wallet[c] = NoWallet
    BY DEF Init
  <1>2. Descends(<< >>)
    BY DEF Descends
  <1>3. BalancesDescend
    BY <1>1, <1>2 DEF BalancesDescend
  <1>4. \A h \in Handlers : pc[h] = "idle"
    BY DEF Init
  <1>5. RowsRecorded
    BY <1>4 DEF RowsRecorded
  <1> QED
    BY <1>3, <1>5, InitTInv DEF DInv

\* However calls race, time out or crash, every recorded and every cached balance
\* descends from an earlier one: what a race can lose is a whole update, never a
\* part of one.
THEOREM BalancesDescendAlways == Spec => []BalancesDescend
  <1>1. Spec => []DInv
    BY InitDInv, NextDInv, PTL DEF Spec
  <1> QED
    BY <1>1, PTL DEF DInv

-----------------------------------------------------------------------------
(***************************************************************************)
(* Releases and pending revenue                                            *)
(***************************************************************************)

\* Revenue is never credited in negative amounts (debits are of other types).
CreditsPositive == \A q \in Calls : q.type \in PendingTypes => q.amount >= 0

\* Rows in hand have no negative pending balance, and a release about to write
\* has checked the very row it computes from.
RowsPending ==
    \A h \in Handlers :
        /\ row[h].pending >= 0
        /\ pc[h] \in {"update", "commit"} /\ IsRelease(h) => Releasable(row[h], call[h])
        /\ pc[h] \in {"insert", "entry"} => ~IsRelease(h)

PInv == TInv /\ PendingNeverNegative /\ RowsPending

LEMMA OutcomePending ==
    ASSUME CreditsPositive, NEW r \in WalletRow, NEW q \in Calls, r.pending >= 0,
           q.type = Release => Releasable(r, q)
    PROVE  Outcome(r, q).pending >= 0
  <1>1. r.pending \in Int /\ q.amount \in Int
    BY CallsAssumption DEF WalletRow, Call
  <1>2. CASE q.type = Release
    BY <1>1, <1>2 DEF Outcome, Released, Releasable
  <1>3. CASE q.type # Release
    BY <1>1, <1>3 DEF Outcome, Credited, CreditsPositive
  <1> QED
    BY <1>2, <1>3

LEMMA NextPInv == CreditsPositive /\ PInv /\ [Next]_vars => PInv'
  <1> SUFFICES ASSUME CreditsPositive, PInv, [Next]_vars PROVE PInv'
    OBVIOUS
  <1>1. TInv'
    BY NextTInv DEF PInv
  <1> USE DEF PInv, TInv, OpenCalls, TypeOK, Goto, Fail, rowVars, txVars
  <1>2. ZeroRow.pending = 0
    BY DEF ZeroRow
  <1>3. ASSUME NEW h \in Handlers, NEW q \in Calls, Begin(h, q) PROVE PInv'
    BY <1>1, <1>3 DEF Begin, PendingNeverNegative, RowsPending, IsRelease
  <1>4. ASSUME NEW h \in Handlers, Statement(h) PROVE PInv'
    <2>1. call[h] \in Calls /\ Creator(h) \in Creators
      BY <1>4, CallsAssumption DEF Statement, UpsertFinds, UpsertMisses, UpsertInserts,
         UpsertCollides, ReleaseReads, ReleaseThrows, WriteEntry, UpdateWallet, Commit,
         Creator, Call
    <2>2. CASE UpsertFinds(h)
      BY <1>1, <2>1, <2>2 DEF UpsertFinds, PendingNeverNegative, RowsPending, IsRelease
    <2>3. CASE ReleaseReads(h)
      BY <1>1, <2>1, <2>3 DEF ReleaseReads, PendingNeverNegative, RowsPending, IsRelease
    <2>4. CASE UpsertInserts(h)
      BY <1>1, <1>2, <2>4 DEF UpsertInserts, PendingNeverNegative, RowsPending, IsRelease
    <2>5. CASE UpsertMisses(h) \/ UpsertCollides(h) \/ ReleaseThrows(h)
      BY <1>1, <2>5 DEF UpsertMisses, UpsertCollides, ReleaseThrows, PendingNeverNegative,
         RowsPending, IsRelease
    <2>6. CASE WriteEntry(h) \/ UpdateWallet(h)
      BY <1>1, <2>6 DEF WriteEntry, UpdateWallet, PendingNeverNegative, RowsPending, IsRelease
    <2>7. CASE Commit(h)
      <3>1. NextRow(h).pending >= 0
        BY <2>1, <2>7, OutcomePending DEF Commit, RowsPending, NextRow, IsRelease
      <3>2. PendingNeverNegative'
        BY <2>1, <2>7, <3>1 DEF Commit, PendingNeverNegative
      <3>3. RowsPending'
        BY <2>7 DEF Commit, RowsPending, IsRelease
      <3> QED
        BY <1>1, <3>2, <3>3
    <2> QED
      BY <1>4, <2>2, <2>3, <2>4, <2>5, <2>6, <2>7 DEF Statement
  <1>5. ASSUME NEW h \in Handlers, Abort(h) PROVE PInv'
    BY <1>1, <1>5 DEF Abort, PendingNeverNegative, RowsPending, IsRelease
  <1>6. ASSUME NEW h \in Handlers, Return(h) PROVE PInv'
    BY <1>1, <1>2, <1>6 DEF Return, PendingNeverNegative, RowsPending, IsRelease
  <1>7. ASSUME NEW c \in Creators, OpenWallet(c) PROVE PInv'
    BY <1>1, <1>2, <1>7 DEF OpenWallet, PendingNeverNegative, RowsPending, IsRelease
  <1>8. CASE UNCHANGED vars
    BY <1>1, <1>8 DEF vars, PendingNeverNegative, RowsPending, IsRelease
  <1> QED
    BY <1>3, <1>4, <1>5, <1>6, <1>7, <1>8 DEF Next

\* If revenue is only ever credited in positive amounts, no race of credits and
\* releases drives a pending balance below zero.
THEOREM PendingNeverNegativeAlways ==
    ASSUME CreditsPositive
    PROVE  Spec => []PendingNeverNegative
  <1>1. Init => PInv
    BY InitTInv DEF Init, PInv, PendingNeverNegative, RowsPending, ZeroRow
  <1>2. PInv /\ [Next]_vars => PInv'
    BY NextPInv
  <1>3. Spec => []PInv
    BY <1>1, <1>2, PTL DEF Spec
  <1> QED
    BY <1>3, PTL DEF PInv

-----------------------------------------------------------------------------
(***************************************************************************)
(* What the ledger would guarantee if no two calls on one creator          *)
(* overlapped: its entries are a running total, and it implements the      *)
(* atomic ledger.  NoOverlap is the whole assumption, so these theorems    *)
(* say what a lock on the wallet row would buy.                            *)
(***************************************************************************)

\* A release about to write has found enough in a wallet that is still there.
ReleaseChecked ==
    \A h \in Handlers :
        pc[h] \in {"update", "commit"} /\ IsRelease(h) =>
            wallet[Creator(h)] # NoWallet /\ Releasable(row[h], call[h])

\* Only an append inserts a wallet or writes an entry.
AppendsOnly ==
    \A h \in Handlers : pc[h] \in {"insert", "entry"} => ~IsRelease(h)

SInv == TInv /\ NoOverlap /\ Chained /\ ReadsCurrent /\ ReleaseChecked /\ AppendsOnly

LEMMA AppendTotals ==
    ASSUME NEW s \in Seq(Entry), NEW e \in Entry, Totals(s),
           e.balanceAfter = Recorded(s) + e.amount
    PROVE  Totals(Append(s, e)) /\ Recorded(Append(s, e)) = e.balanceAfter
  <1> DEFINE t == Append(s, e)
  <1>1. /\ t \in Seq(Entry) /\ t # << >>
        /\ Len(t) = Len(s) + 1 /\ t[Len(t)] = e /\ Len(s) \in Nat
        /\ \A i \in 1..Len(s) : t[i] = s[i]
    OBVIOUS
  <1>2. Recorded(t) = e.balanceAfter
    BY <1>1 DEF Recorded
  <1>3. Before(t, Len(t)) = Recorded(s)
    <2>1. CASE s = << >>
      BY <1>1, <2>1 DEF Before, Recorded
    <2>2. CASE s # << >>
      <3>1. Len(s) \in 1..Len(s) /\ Len(t) # 1
        BY <1>1, <2>2
      <3> QED
        BY <1>1, <2>2, <3>1 DEF Before, Recorded
    <2> QED
      BY <2>1, <2>2
  <1>4. \A i \in 1..Len(s) : Before(t, i) = Before(s, i)
    BY <1>1 DEF Before
  <1>5. Totals(t)
    <2> SUFFICES ASSUME NEW i \in 1..Len(t)
                 PROVE  t[i].balanceAfter = Before(t, i) + t[i].amount
      BY DEF Totals
    <2>1. CASE i = Len(t)
      BY <1>1, <1>3, <2>1
    <2>2. CASE i # Len(t)
      BY <1>1, <1>4, <2>2 DEF Totals
    <2> QED
      BY <2>1, <2>2
  <1> QED
    BY <1>2, <1>5

LEMMA InitSInv == Init => SInv
  <1> SUFFICES ASSUME Init PROVE SInv
    OBVIOUS
  <1>1. \A h \in Handlers : pc[h] = "idle"
    BY DEF Init
  <1>2. NoOverlap /\ ReadsCurrent /\ ReleaseChecked /\ AppendsOnly
    BY <1>1 DEF NoOverlap, IsOpen, OpenAt, ReadsCurrent, ReleaseChecked, AppendsOnly
  <1>3. \A c \in Creators : ledger[c] = << >> /\ wallet[c] = NoWallet
    BY DEF Init
  <1>4. Totals(<< >>)
    BY DEF Totals
  <1>5. Chained
    BY <1>3, <1>4 DEF Chained
  <1> QED
    BY <1>2, <1>5, InitTInv DEF SInv

\* The balance of the row a transaction holds is what the ledger records.
LEMMA RowRecorded ==
    ASSUME SInv, NEW h \in Handlers, pc[h] \in {"entry", "update", "commit"}
    PROVE  Balance(row[h]) = Recorded(ledger[Creator(h)])
  <1>1. Creator(h) \in Creators
    BY CallsAssumption DEF SInv, TInv, OpenCalls, Creator, Call
  <1>2. CASE wallet[Creator(h)] = NoWallet
    BY <1>1, <1>2 DEF SInv, Chained, ReadsCurrent, Balance, ZeroRow, Recorded
  <1>3. CASE wallet[Creator(h)] # NoWallet
    BY <1>1, <1>3 DEF SInv, Chained, ReadsCurrent
  <1> QED
    BY <1>2, <1>3

\* A commit extends the running total, or leaves it when it is a release's.
LEMMA CommitChains ==
    ASSUME SInv, NEW h \in Handlers, Commit(h)
    PROVE  Chained'
  <1> USE DEF SInv, TInv, OpenCalls, TypeOK
  <1> DEFINE c == Creator(h)
             e == EntryFor(row[h], call[h])
  <1>1. call[h] \in Call /\ c \in Creators
    BY CallsAssumption DEF Commit, Creator, Call
  <1>2. Balance(row[h]) = Recorded(ledger[c])
    BY RowRecorded DEF Commit
  <1>3. /\ wallet'[c] = NextRow(h) /\ NextRow(h) \in WalletRow
        /\ \A d \in Creators \ {c} : ledger'[d] = ledger[d] /\ wallet'[d] = wallet[d]
    BY <1>1, OutcomeType DEF Commit, NextRow
  <1>4. wallet'[c] # NoWallet
    BY <1>3, NoWalletAssumption
  <1>5. CASE IsRelease(h)
    <2>1. ledger' = ledger
      BY <1>5 DEF Commit
    <2>2. Balance(wallet'[c]) = Recorded(ledger[c])
      BY <1>1, <1>2, <1>3, <1>5, EntryBalance DEF NextRow, IsRelease
    <2> QED
      BY <1>1, <1>3, <1>4, <2>1, <2>2 DEF Chained
  <1>6. CASE ~IsRelease(h)
    <2>1. /\ e \in Entry /\ e.balanceAfter - e.amount = Balance(row[h])
          /\ e.balanceAfter = Balance(wallet'[c])
      BY <1>1, <1>3, <1>6, OutcomeType, EntryBalance DEF NextRow, IsRelease
    <2>2. e.balanceAfter \in Int /\ e.amount \in Int
      BY <2>1 DEF Entry
    <2>3. e.balanceAfter = Recorded(ledger[c]) + e.amount
      BY <1>2, <2>1, <2>2
    <2>4. ledger'[c] = Append(ledger[c], e)
      BY <1>1, <1>6 DEF Commit
    <2>5. ledger[c] \in Seq(Entry) /\ Totals(ledger[c])
      BY <1>1 DEF Chained
    <2>6. Totals(ledger'[c]) /\ Recorded(ledger'[c]) = Balance(wallet'[c])
      BY <2>1, <2>3, <2>4, <2>5, AppendTotals
    <2> QED
      BY <1>3, <1>4, <2>6 DEF Chained
  <1> QED
    BY <1>5, <1>6

LEMMA NextSInv == SInv /\ [Next /\ NoOverlap']_vars => SInv'
  <1> SUFFICES ASSUME SInv, [Next /\ NoOverlap']_vars PROVE SInv'
    OBVIOUS
  <1>1. TInv'
    BY NextTInv DEF SInv
  <1>2. ASSUME Next, NoOverlap' PROVE SInv'
    <2> USE DEF SInv, TInv, OpenCalls, TypeOK, Goto, Fail, rowVars, txVars
    <2>1. ASSUME NEW h \in Handlers, NEW q \in Calls, Begin(h, q) PROVE SInv'
      BY <1>1, <1>2, <2>1
      DEF Begin, Chained, ReadsCurrent, ReleaseChecked, AppendsOnly, Creator, IsRelease
    <2>2. ASSUME NEW h \in Handlers, Statement(h) PROVE SInv'
      <3>1. call[h] \in Call /\ Creator(h) \in Creators
        BY <2>2, CallsAssumption DEF Statement, UpsertFinds, UpsertMisses, UpsertInserts,
           UpsertCollides, ReleaseReads, ReleaseThrows, WriteEntry, UpdateWallet, Commit,
           Creator, Call
      <3>2. CASE UpsertFinds(h) \/ ReleaseReads(h)
        <4>1. /\ wallet' = wallet /\ ledger' = ledger /\ call' = call
              /\ row'[h] = wallet[Creator(h)] /\ wallet[Creator(h)] # NoWallet
              /\ \A g \in Handlers \ {h} : pc'[g] = pc[g] /\ row'[g] = row[g]
          BY <3>2 DEF UpsertFinds, ReleaseReads
        <4>2. Chained' /\ ReadsCurrent'
          BY <4>1 DEF Chained, ReadsCurrent, Creator
        <4>3. ReleaseChecked'
          BY <3>2, <4>1 DEF UpsertFinds, ReleaseReads, ReleaseChecked, Creator, IsRelease
        <4>4. AppendsOnly'
          BY <3>2, <4>1 DEF UpsertFinds, ReleaseReads, AppendsOnly, IsRelease
        <4> QED
          BY <1>1, <1>2, <4>2, <4>3, <4>4
      <3>3. CASE UpsertInserts(h)
        BY <1>1, <1>2, <3>1, <3>3 DEF UpsertInserts, Chained, ReadsCurrent,
           ReleaseChecked, AppendsOnly, Creator, IsRelease
      <3>4. CASE UpsertMisses(h) \/ UpsertCollides(h) \/ ReleaseThrows(h)
        BY <1>1, <1>2, <3>4, ZenonT(60) DEF UpsertMisses, UpsertCollides, ReleaseThrows, Chained,
           ReadsCurrent, ReleaseChecked, AppendsOnly, Creator, IsRelease
      <3>5. CASE WriteEntry(h) \/ UpdateWallet(h)
        BY <1>1, <1>2, <3>5 DEF WriteEntry, UpdateWallet, Chained, ReadsCurrent,
           ReleaseChecked, AppendsOnly, Creator, IsRelease
      <3>6. CASE Commit(h)
        <4>1. \A g \in Handlers \ {h} : IsOpen(g) => Creator(g) # Creator(h)
          BY <3>6 DEF Commit, NoOverlap, IsOpen, OpenAt
        <4>2. \A g \in Handlers \ {h} :
                IsOpen(g) => Creator(g) \in Creators /\ wallet'[Creator(g)] = wallet[Creator(g)]
          BY <3>1, <3>6, <4>1, CallsAssumption DEF Commit, IsOpen, OpenAt, Creator, Call
        <4>3. /\ pc'[h] = "ok" /\ call' = call /\ row' = row
              /\ \A g \in Handlers \ {h} : pc'[g] = pc[g]
          BY <3>6 DEF Commit
        <4>4. ReadsCurrent'
          BY <4>2, <4>3 DEF ReadsCurrent, IsOpen, OpenAt, Creator
        <4>5. ReleaseChecked'
          BY <4>2, <4>3 DEF ReleaseChecked, IsOpen, OpenAt, Creator, IsRelease
        <4>6. AppendsOnly'
          BY <4>3 DEF AppendsOnly, IsRelease
        <4> QED
          BY <1>1, <1>2, <3>6, <4>4, <4>5, <4>6, CommitChains
      <3> QED
        BY <2>2, <3>2, <3>3, <3>4, <3>5, <3>6 DEF Statement
    <2>3. ASSUME NEW h \in Handlers, Abort(h) PROVE SInv'
      BY <1>1, <1>2, <2>3
      DEF Abort, Chained, ReadsCurrent, ReleaseChecked, AppendsOnly, Creator, IsRelease
    <2>4. ASSUME NEW h \in Handlers, Return(h) PROVE SInv'
      BY <1>1, <1>2, <2>4
      DEF Return, Chained, ReadsCurrent, ReleaseChecked, AppendsOnly, Creator, IsRelease
    <2>5. ASSUME NEW c \in Creators, OpenWallet(c) PROVE SInv'
      <3>1. /\ wallet[c] = NoWallet /\ wallet'[c] = ZeroRow /\ ledger' = ledger
            /\ \A d \in Creators \ {c} : wallet'[d] = wallet[d]
        BY <2>5 DEF OpenWallet
      <3>2. Balance(ZeroRow) = 0 /\ Recorded(<< >>) = 0 /\ ZeroRow # NoWallet
        BY ZeroRowType, NoWalletAssumption DEF Balance, ZeroRow, Recorded
      <3>3. Chained'
        BY <3>1, <3>2 DEF Chained
      <3>4. pc' = pc /\ row' = row /\ call' = call
        BY <2>5 DEF OpenWallet
      <3>5. ReadsCurrent'
        <4> SUFFICES ASSUME NEW h \in Handlers, pc[h] \in {"entry", "update", "commit"}
                     PROVE  row[h] = IF wallet'[Creator(h)] = NoWallet THEN ZeroRow
                                                                     ELSE wallet'[Creator(h)]
          BY <3>4 DEF ReadsCurrent, Creator
        <4>1. Creator(h) \in Creators
          BY CallsAssumption DEF Creator, Call
        <4> QED
          BY <3>1, <3>2, <4>1 DEF ReadsCurrent
      <3>6. ReleaseChecked'
        <4> SUFFICES ASSUME NEW h \in Handlers, pc[h] \in {"update", "commit"}, IsRelease(h)
                     PROVE  wallet'[Creator(h)] # NoWallet /\ Releasable(row[h], call[h])
          BY <3>4 DEF ReleaseChecked, Creator, IsRelease
        <4>1. Creator(h) \in Creators
          BY CallsAssumption DEF Creator, Call
        <4> QED
          BY <3>1, <3>2, <4>1 DEF ReleaseChecked
      <3>7. AppendsOnly'
        BY <3>4 DEF AppendsOnly, IsRelease
      <3> QED
        BY <1>1, <1>2, <3>3, <3>5, <3>6, <3>7
    <2> QED
      BY <1>2, <2>1, <2>2, <2>3, <2>4, <2>5 DEF Next
  <1>3. CASE UNCHANGED vars
    BY <1>1, <1>3 DEF vars, rowVars, txVars, SInv, NoOverlap, IsOpen, Chained, ReadsCurrent,
       ReleaseChecked, AppendsOnly, Creator, IsRelease
  <1> QED
    BY <1>2, <1>3

\* Calls on a creator that never overlap keep balance_after_cents a running total
\* that the cached balances agree with.
THEOREM ChainedWhenSerial == SerialSpec => []Chained
  <1>1. SerialSpec => []SInv
    BY InitSInv, NextSInv, PTL DEF SerialSpec
  <1> QED
    BY <1>1, PTL DEF SInv

\* ... and no call computes a balance from a row that has changed since.
THEOREM ReadsCurrentWhenSerial == SerialSpec => []ReadsCurrent
  <1>1. SerialSpec => []SInv
    BY InitSInv, NextSInv, PTL DEF SerialSpec
  <1> QED
    BY <1>1, PTL DEF SInv

-----------------------------------------------------------------------------
(***************************************************************************)
(* The sum of a ledger                                                     *)
(***************************************************************************)

\* What the sum credits stays a row.
LEMMA CreditedType ==
    ASSUME NEW r \in WalletRow, NEW e \in Entry
    PROVE  Credited(r, e) \in WalletRow
  BY DEF WalletRow, Entry, Credited

\* The entry a sum credits last.
LatestOf(s) == [u \in SUBSET DOMAIN s |-> Max(u)]

\* t has what the entries of s credit, for each set of their positions.
CreditsOf(t, s) ==
    \A u \in SUBSET DOMAIN s :
        t[u] = IF u = {} THEN ZeroRow ELSE Credited(t[u \ {Max(u)}], s[Max(u)])

\* A set of positions that is not empty has a last one.
LEMMA LastPosition ==
    ASSUME NEW n \in Nat, NEW u \in SUBSET (1..n), u # {}
    PROVE  Max(u) \in u /\ \A i \in u : i <= Max(u)
  <1> DEFINE left == {n - i : i \in u}
  <1>1. left \in SUBSET Nat /\ left # {}
    OBVIOUS
  <1>2. PICK x \in left : \A y \in left : x <= y
    <2> HIDE DEF left
    <2> QED
      BY <1>1, LeastOne
  <1>3. PICK m \in u : x = n - m
    BY <1>2
  <1>4. \A i \in u : m >= i
    <2> SUFFICES ASSUME NEW i \in u PROVE m >= i
      OBVIOUS
    <2>1. n - i \in left
      OBVIOUS
    <2>2. n - m <= n - i
      BY <1>2, <1>3, <2>1
    <2>3. m \in 1..n /\ i \in 1..n
      OBVIOUS
    <2> QED
      BY <2>2, <2>3
  <1>5. Max(u) \in u /\ \A i \in u : Max(u) >= i
    BY <1>3, <1>4 DEF Max
  <1> QED
    BY <1>5

LEMMA Positions ==
    ASSUME NEW s \in Seq(Entry)
    PROVE  DOMAIN s = 1..Len(s) /\ Len(s) \in Nat /\ IsFiniteSet(DOMAIN s)
  <1>1. DOMAIN s = 1..Len(s) /\ Len(s) \in Nat
    OBVIOUS
  <1> DEFINE a == 1
             b == Len(s)
  <1>2. a \in Int /\ b \in Int
    OBVIOUS
  <1> HIDE DEF a, b
  <1>3. IsFiniteSet(a..b)
    BY <1>2, FS_Interval
  <1> QED
    BY <1>1, <1>3 DEF a, b

\* Two such tables agree wherever the entries do.
LEMMA CreditsAgree ==
    ASSUME NEW s \in Seq(Entry), NEW z \in Seq(Entry), Len(s) <= Len(z),
           \A i \in 1..Len(s) : z[i] = s[i],
           NEW t, CreditsOf(t, s), NEW y, CreditsOf(y, z)
    PROVE  \A u \in SUBSET DOMAIN s : t[u] = y[u]
  <1> DEFINE S == 1..Len(s)
             alike == {n \in Nat : \A u \in SUBSET S : Cardinality(u) = n => t[u] = y[u]}
  <1>1. /\ DOMAIN s = S /\ Len(s) \in Nat /\ IsFiniteSet(S)
        /\ DOMAIN z = 1..Len(z) /\ Len(z) \in Nat
    BY Positions
  <1>2. \A u \in SUBSET S : IsFiniteSet(u) /\ Cardinality(u) \in Nat
    BY <1>1, FS_Subset, FS_CardinalityType
  <1>3. ASSUME NEW n \in Nat, \A k \in Nat : k < n => k \in alike
        PROVE  n \in alike
    <2> SUFFICES ASSUME NEW u \in SUBSET S, Cardinality(u) = n PROVE t[u] = y[u]
      OBVIOUS
    <2>1. u \in SUBSET DOMAIN s /\ u \in SUBSET DOMAIN z
      BY <1>1
    <2>2. CASE u = {}
      BY <2>1, <2>2 DEF CreditsOf
    <2>3. CASE u # {}
      <3> DEFINE m == Max(u)
                 r == u \ {m}
      <3>1. m \in u /\ r \in SUBSET S
        BY <1>1, <2>3, LastPosition
      <3> HIDE DEF m
      <3>2. Cardinality(r) = n - 1
        BY <1>2, <3>1, FS_RemoveElement
      <3>3. n - 1 \in Nat /\ n - 1 < n
        BY <1>2, <3>1, <3>2
      <3>4. n - 1 \in alike
        <4> HIDE DEF alike
        <4> QED
          BY <1>3, <3>3
      <3>5. t[r] = y[r] /\ s[m] = z[m]
        BY <3>1, <3>2, <3>4
      <3>6. t[u] = Credited(t[r], s[m]) /\ y[u] = Credited(y[r], z[m])
        BY <2>1, <2>3 DEF CreditsOf, m
      <3> QED
        BY <3>5, <3>6
    <2> QED
      BY <2>2, <2>3
  <1>4. \A n \in Nat : n \in alike
    <2> HIDE DEF alike
    <2> QED
      BY <1>3, FirstGap
  <1> QED
    BY <1>1, <1>2, <1>4

\* Summing a ledger credits its entries one after the other.
LEMMA SumCredits ==
    ASSUME NEW s \in Seq(Entry)
    PROVE  \E t \in [SUBSET DOMAIN s -> WalletRow] :
              CreditsOf(t, s) /\ FoldLeft(Credited, ZeroRow, s) = t[DOMAIN s]
  <1> DEFINE S == DOMAIN s
             op == [xv \in S \X WalletRow |-> Credited(xv[2], s[xv[1]])]
             table(t) == [u \in SUBSET S |-> IF u = {} THEN ZeroRow
                            ELSE Credited(t[u \ {Max(u)}], s[Max(u)])]
             it == CHOOSE t : t = table(t)
  <1>1. IsFiniteSet(S) /\ ZeroRow \in WalletRow /\ \A i \in S : s[i] \in Entry
    BY Positions DEF ZeroRow, WalletRow
  <1>2. op \in [S \X WalletRow -> WalletRow]
    BY <1>1, CreditedType
  <1>3. \A u \in SUBSET S : u # {} => Max(u) \in u
    BY Positions, LastPosition
  <1>4. Picks(LatestOf(s), S)
    BY <1>3 DEF Picks, LatestOf
  <1>5. PICK g \in [SUBSET S -> WalletRow] : Computed(g, S, ZeroRow, LatestOf(s), op)
    <2> HIDE DEF op, S
    <2> QED
      BY <1>1, <1>2, <1>4, Recursion
  <1>6. CreditsOf(g, s)
    <2> SUFFICES ASSUME NEW u \in SUBSET S
                 PROVE  g[u] = IF u = {} THEN ZeroRow ELSE Credited(g[u \ {Max(u)}], s[Max(u)])
      BY DEF CreditsOf
    <2>1. CASE u = {}
      BY <1>5, <2>1 DEF Computed
    <2>2. CASE u # {}
      <3>1. Max(u) \in S /\ g[u \ {Max(u)}] \in WalletRow
        BY <1>3, <2>2
      <3>2. g[u] = op[<<LatestOf(s)[u], g[u \ {LatestOf(s)[u]}]>>]
        <4> HIDE DEF op
        <4> QED
          BY <1>5, <2>2 DEF Computed
      <3>3. LatestOf(s)[u] = Max(u)
        BY DEF LatestOf
      <3> QED
        BY <2>2, <3>1, <3>2, <3>3
    <2> QED
      BY <2>1, <2>2
  <1>7. g = table(g)
    BY <1>6 DEF CreditsOf
  <1>8. it = table(it)
    <2> HIDE DEF table
    <2> QED
      BY <1>7
  <1>9. CreditsOf(it, s)
    <2> HIDE DEF it
    <2> QED
      BY <1>8 DEF CreditsOf
  <1>10. FoldLeft(Credited, ZeroRow, s) = it[S]
    BY DEF FoldLeft, MapThenFoldSet
  <1> HIDE DEF it
  <1>11. it[S] = g[S]
    <2>1. Len(s) <= Len(s)
      BY Positions
    <2> QED
      BY <1>6, <1>9, <2>1, CreditsAgree
  <1> QED
    BY <1>6, <1>10, <1>11

\* An empty ledger sums to nothing.
LEMMA SumNone == FoldLeft(Credited, ZeroRow, << >>) = ZeroRow
  <1> DEFINE none == << >>
  <1>1. none \in Seq(Entry) /\ DOMAIN none = {}
    OBVIOUS
  <1> HIDE DEF none
  <1>2. PICK x \in [SUBSET DOMAIN none -> WalletRow] :
            CreditsOf(x, none) /\ FoldLeft(Credited, ZeroRow, none) = x[DOMAIN none]
    BY <1>1, SumCredits
  <1>3. FoldLeft(Credited, ZeroRow, none) = ZeroRow
    BY <1>1, <1>2 DEF CreditsOf
  <1> QED
    BY <1>3 DEF none

\* An entry more credits its amount.
LEMMA SumAppend ==
    ASSUME NEW s \in Seq(Entry), NEW e \in Entry
    PROVE  FoldLeft(Credited, ZeroRow, Append(s, e)) = Credited(FoldLeft(Credited, ZeroRow, s), e)
  <1> DEFINE z == Append(s, e)
             n == Len(s)
  <1>1. /\ n \in Nat /\ DOMAIN s = 1..n /\ z \in Seq(Entry) /\ Len(z) = n + 1
        /\ DOMAIN z = 1..(n + 1) /\ z[n + 1] = e /\ \A i \in 1..n : z[i] = s[i]
    OBVIOUS
  <1>2. PICK t \in [SUBSET DOMAIN s -> WalletRow] :
            CreditsOf(t, s) /\ FoldLeft(Credited, ZeroRow, s) = t[DOMAIN s]
    BY SumCredits
  <1> HIDE DEF z
  <1>3. PICK y \in [SUBSET DOMAIN z -> WalletRow] :
            CreditsOf(y, z) /\ FoldLeft(Credited, ZeroRow, z) = y[DOMAIN z]
    BY <1>1, SumCredits
  <1>4. Max(DOMAIN z) = n + 1
    <2>1. Max(DOMAIN z) \in DOMAIN z /\ \A i \in DOMAIN z : i <= Max(DOMAIN z)
      <3>1. n + 1 \in Nat /\ DOMAIN z # {} /\ DOMAIN z \in SUBSET (1..(n + 1))
        BY <1>1
      <3> QED
        BY <3>1, LastPosition
    <2> QED
      BY <1>1, <2>1
  <1>5. y[DOMAIN z] = Credited(y[DOMAIN s], e)
    <2>1. DOMAIN z \ {n + 1} = DOMAIN s /\ DOMAIN z # {}
      BY <1>1
    <2> QED
      BY <1>1, <1>3, <1>4, <2>1 DEF CreditsOf
  <1>6. t[DOMAIN s] = y[DOMAIN s]
    <2>1. Len(s) <= Len(z)
      BY <1>1
    <2> QED
      BY <1>1, <1>2, <1>3, <2>1, CreditsAgree
  <1> QED
    BY <1>2, <1>3, <1>5, <1>6 DEF z

\* A wallet and the sum of its ledger agree, up to what was released between the two
\* balances; a creator without a wallet has the empty one.
Rebuilt ==
    \A c \in Creators :
        LET r == IF wallet[c] = NoWallet THEN ZeroRow ELSE wallet[c]
        IN Balance(r) = Balance(Summed(c)) /\ r.paid = Summed(c).paid

\* Rows that agree still do after the same entry.
LEMMA CreditedAlike ==
    ASSUME NEW r \in WalletRow, NEW s \in WalletRow, NEW q \in Call, NEW e \in Entry,
           Balance(r) = Balance(s), r.paid = s.paid,
           e.type = q.type, e.amount = q.amount
    PROVE  /\ Balance(Credited(r, q)) = Balance(Credited(s, e))
           /\ Credited(r, q).paid = Credited(s, e).paid
  <1>1. /\ r.available \in Int /\ r.pending \in Int /\ r.paid \in Int
        /\ s.available \in Int /\ s.pending \in Int /\ s.paid \in Int /\ q.amount \in Int
    BY DEF WalletRow, Call
  <1> QED
    BY <1>1 DEF Balance, Credited

\* A commit keeps a wallet and the sum of its ledger alike.
LEMMA CommitRebuilds ==
    ASSUME SInv, Rebuilt, NEW h \in Handlers, Commit(h)
    PROVE  Rebuilt'
  <1> USE DEF SInv, TInv, OpenCalls, TypeOK
  <1> DEFINE c == Creator(h)
             e == EntryFor(row[h], call[h])
             sum == Summed(c)
  <1>1. call[h] \in Call /\ c \in Creators /\ row[h] \in WalletRow /\ ledger[c] \in Seq(Entry)
    BY CallsAssumption DEF Commit, Creator, Call
  <1>2. Balance(row[h]) = Balance(sum) /\ row[h].paid = sum.paid
    BY <1>1 DEF Commit, ReadsCurrent, Rebuilt
  <1>3. sum \in WalletRow
    <2> DEFINE s == ledger[c]
    <2>1. s \in Seq(Entry)
      BY <1>1
    <2> HIDE DEF s
    <2>2. FoldLeft(Credited, ZeroRow, s) \in WalletRow
      <3>1. PICK t \in [SUBSET DOMAIN s -> WalletRow] : FoldLeft(Credited, ZeroRow, s) = t[DOMAIN s]
        BY <2>1, SumCredits
      <3> QED
        BY <3>1
    <2> QED
      BY <2>2 DEF s, Summed
  <1>4. /\ wallet'[c] = NextRow(h) /\ NextRow(h) \in WalletRow /\ wallet'[c] # NoWallet
        /\ \A d \in Creators \ {c} : ledger'[d] = ledger[d] /\ wallet'[d] = wallet[d]
    BY <1>1, OutcomeType, NoWalletAssumption DEF Commit, NextRow
  <1>5. \A d \in Creators \ {c} : Summed(d)' = Summed(d)
    BY <1>4 DEF Summed
  <1>6. /\ Balance(wallet'[c]) = Balance(Summed(c)')
        /\ wallet'[c].paid = Summed(c)'.paid
    <2>1. CASE IsRelease(h)
      <3>1. Summed(c)' = sum
        BY <2>1 DEF Commit, Summed, Creator
      <3>2. Balance(NextRow(h)) = Balance(row[h]) /\ NextRow(h).paid = row[h].paid
        <4>1. row[h].available \in Int /\ row[h].pending \in Int /\ call[h].amount \in Int
          BY <1>1 DEF WalletRow, Call
        <4> QED
          BY <2>1, <4>1 DEF NextRow, Outcome, IsRelease, Released, Balance
      <3> QED
        BY <1>2, <1>4, <3>1, <3>2
    <2>2. CASE ~IsRelease(h)
      <3>1. e \in Entry /\ e.type = call[h].type /\ e.amount = call[h].amount
        BY <1>1, <2>2, OutcomeType DEF EntryFor, IsRelease
      <3>2. ledger'[c] = Append(ledger[c], e)
        BY <1>1, <2>2 DEF Commit
      <3>3. Summed(c)' = Credited(sum, e)
        <4> DEFINE s == ledger[c]
        <4>1. FoldLeft(Credited, ZeroRow, Append(s, e)) = Credited(FoldLeft(Credited, ZeroRow, s), e)
          <5>1. s \in Seq(Entry)
            BY <1>1
          <5> HIDE DEF s, e
          <5> QED
            BY <3>1, <5>1, SumAppend
        <4>2. Summed(c)' = FoldLeft(Credited, ZeroRow, ledger'[c])
          BY DEF Summed, Creator, Commit
        <4>3. sum = FoldLeft(Credited, ZeroRow, s)
          BY DEF Summed
        <4> HIDE DEF e, sum
        <4> QED
          BY <3>2, <4>1, <4>2, <4>3
      <3>4. NextRow(h) = Credited(row[h], call[h])
        BY <2>2 DEF NextRow, Outcome, IsRelease
      <3> HIDE DEF e, sum
      <3>5. /\ Balance(Credited(row[h], call[h])) = Balance(Credited(sum, e))
            /\ Credited(row[h], call[h]).paid = Credited(sum, e).paid
        BY <1>1, <1>2, <1>3, <3>1, CreditedAlike
      <3> QED
        BY <1>4, <3>3, <3>4, <3>5
    <2> QED
      BY <2>1, <2>2
  <1> SUFFICES ASSUME NEW d \in Creators
               PROVE  /\ Balance(IF wallet'[d] = NoWallet THEN ZeroRow ELSE wallet'[d])
                           = Balance(Summed(d)')
                      /\ (IF wallet'[d] = NoWallet THEN ZeroRow ELSE wallet'[d]).paid
                           = Summed(d)'.paid
    BY DEF Rebuilt, Summed, Balance
  <1>7. CASE d = c
    <2>1. Summed(d)' = Summed(c)'
      BY <1>7 DEF Summed, Commit, Creator
    <2> QED
      BY <1>4, <1>6, <1>7, <2>1
  <1>8. CASE d # c
    <2>1. wallet'[d] = wallet[d] /\ Summed(d)' = Summed(d)
      BY <1>4, <1>5, <1>8
    <2> QED
      BY <2>1 DEF Rebuilt
  <1> QED
    BY <1>7, <1>8

\* A step that commits nothing keeps every wallet, or opens an empty one.
LEMMA NextRebuilds == SInv /\ Rebuilt /\ [Next /\ NoOverlap']_vars => Rebuilt'
  <1> SUFFICES ASSUME SInv, Rebuilt, [Next /\ NoOverlap']_vars PROVE Rebuilt'
    OBVIOUS
  <1>1. ASSUME UNCHANGED rowVars PROVE Rebuilt'
    BY <1>1 DEF Rebuilt, Summed, rowVars
  <1>2. ASSUME NEW h \in Handlers, NEW q \in Calls, Begin(h, q) PROVE UNCHANGED rowVars
    BY <1>2 DEF Begin
  <1>3. ASSUME NEW h \in Handlers, Statement(h), ~Commit(h) PROVE UNCHANGED rowVars
    BY <1>3 DEF Statement, UpsertFinds, UpsertMisses, UpsertInserts, UpsertCollides,
       ReleaseReads, ReleaseThrows, WriteEntry, UpdateWallet, Fail
  <1>4. ASSUME NEW h \in Handlers, Abort(h) \/ Return(h) PROVE UNCHANGED rowVars
    BY <1>4 DEF Abort, Fail, Return
  <1>5. ASSUME NEW c \in Creators, OpenWallet(c) PROVE Rebuilt'
    <2>1. /\ wallet[c] = NoWallet /\ wallet'[c] = ZeroRow /\ ledger' = ledger
          /\ \A d \in Creators \ {c} : wallet'[d] = wallet[d]
      BY <1>5 DEF OpenWallet, SInv, TInv, TypeOK
    <2>2. \A d \in Creators : Summed(d)' = Summed(d)
      BY <2>1 DEF Summed
    <2> QED
      BY <2>1, <2>2 DEF Rebuilt
  <1>6. CASE UNCHANGED vars
    BY <1>1, <1>6 DEF vars
  <1> QED
    BY <1>1, <1>2, <1>3, <1>4, <1>5, <1>6, CommitRebuilds DEF Next

\* While no two calls on a creator overlap, summing a ledger gives back the balance of
\* its wallet and all that was paid out.
THEOREM RebuildableWhenSerial == SerialSpec => []TotalsRebuildable
  <1>1. Init => Rebuilt
    <2> SUFFICES ASSUME Init, NEW c \in Creators
                 PROVE  wallet[c] = NoWallet /\ Summed(c) = ZeroRow
      BY DEF Rebuilt
    <2>1. wallet[c] = NoWallet /\ ledger[c] = << >>
      BY DEF Init
    <2>2. FoldLeft(Credited, ZeroRow, << >>) = ZeroRow
      BY SumNone
    <2> QED
      BY <2>1, <2>2 DEF Summed
  <1>2. SerialSpec => [](SInv /\ Rebuilt)
    BY <1>1, InitSInv, NextSInv, NextRebuilds, PTL DEF SerialSpec
  <1>3. Rebuilt => TotalsRebuildable
    BY DEF Rebuilt, TotalsRebuildable
  <1> QED
    BY <1>2, <1>3, PTL

-----------------------------------------------------------------------------
(***************************************************************************)
(* Refinement: the whole call takes effect at its commit                   *)
(***************************************************************************)

\* Both ledgers compute with the same rows.
LEMMA SameRows ==
    /\ Atomic!ZeroRow = ZeroRow /\ Atomic!Release = Release
    /\ \A r, q : /\ Atomic!Outcome(r, q) = Outcome(r, q)
                 /\ Atomic!EntryFor(r, q) = EntryFor(r, q)
                 /\ Atomic!Releasable(r, q) = Releasable(r, q)
  <1>1. Atomic!ZeroRow = ZeroRow /\ Atomic!Release = Release
    BY DEF Atomic!ZeroRow, ZeroRow, Atomic!Release, Release
  <1>2. ASSUME NEW r, NEW q
        PROVE  Atomic!Credited(r, q) = Credited(r, q) /\ Atomic!Released(r, q) = Released(r, q)
    BY DEF Atomic!Credited, Credited, Atomic!Released, Released, Atomic!PendingTypes,
       PendingTypes
  <1>3. ASSUME NEW r, NEW q PROVE Atomic!Outcome(r, q) = Outcome(r, q)
    BY <1>1, <1>2 DEF Atomic!Outcome, Outcome
  <1>4. ASSUME NEW r, NEW q PROVE Atomic!EntryFor(r, q) = EntryFor(r, q)
    BY <1>2 DEF Atomic!EntryFor, EntryFor, Atomic!Balance, Balance
  <1>5. ASSUME NEW r, NEW q PROVE Atomic!Releasable(r, q) = Releasable(r, q)
    BY DEF Atomic!Releasable, Releasable
  <1> QED
    BY <1>1, <1>3, <1>4, <1>5

LEMMA CommitImplements ==
    ASSUME SInv, NEW h \in Handlers, Commit(h)
    PROVE  Atomic!Next
  <1> USE DEF SInv, TInv, OpenCalls, TypeOK
  <1> DEFINE q == call[h]
  <1>1. q \in Calls /\ q.creator \in Creators
    BY CallsAssumption DEF Commit, Call
  <1>2. row[h] = IF wallet[q.creator] = NoWallet THEN ZeroRow ELSE wallet[q.creator]
    BY DEF ReadsCurrent, Commit, Creator
  <1>3. CASE IsRelease(h)
    <2>1. wallet[q.creator] # NoWallet /\ Releasable(row[h], q)
      BY <1>3 DEF ReleaseChecked, Commit, Creator
    <2>2. row[h] = wallet[q.creator]
      BY <1>2, <2>1
    <2>3. /\ wallet' = [wallet EXCEPT ![q.creator] = Outcome(row[h], q)]
          /\ ledger' = ledger
      BY <1>3 DEF Commit, NextRow, Creator
    <2>4. Atomic!ReleasePending(q)
      BY <1>3, <2>1, <2>2, <2>3, SameRows DEF Atomic!ReleasePending, IsRelease
    <2> QED
      BY <1>1, <2>4 DEF Atomic!Next
  <1>4. CASE ~IsRelease(h)
    <2>1. row[h] = Atomic!RowOf(q.creator)
      BY <1>2, SameRows DEF Atomic!RowOf
    <2>2. /\ wallet' = [wallet EXCEPT ![q.creator] = Outcome(row[h], q)]
          /\ ledger' = [ledger EXCEPT ![q.creator] = Append(@, EntryFor(row[h], q))]
      BY <1>4 DEF Commit, NextRow, Creator
    <2>3. Atomic!AppendEntry(q)
      BY <1>4, <2>1, <2>2, SameRows DEF Atomic!AppendEntry, IsRelease
    <2> QED
      BY <1>1, <2>3 DEF Atomic!Next
  <1> QED
    BY <1>3, <1>4

LEMMA StepImplements ==
    SInv /\ [Next /\ NoOverlap']_vars => [Atomic!Next]_(Atomic!vars)
  <1> SUFFICES ASSUME SInv, [Next /\ NoOverlap']_vars
               PROVE  [Atomic!Next]_(Atomic!vars)
    OBVIOUS
  <1>1. ASSUME NEW h \in Handlers, NEW q \in Calls, Begin(h, q) PROVE UNCHANGED Atomic!vars
    BY <1>1 DEF Begin, rowVars, Atomic!vars
  <1>2. ASSUME NEW h \in Handlers, Statement(h) PROVE [Atomic!Next]_(Atomic!vars)
    <2>1. CASE Commit(h)
      BY <2>1, CommitImplements
    <2>2. CASE ~Commit(h)
      BY <1>2, <2>2 DEF Statement, UpsertFinds, UpsertMisses, UpsertInserts, UpsertCollides,
         ReleaseReads, ReleaseThrows, WriteEntry, UpdateWallet, Fail, rowVars, Atomic!vars
    <2> QED
      BY <2>1, <2>2
  <1>3. ASSUME NEW h \in Handlers, Abort(h) \/ Return(h) PROVE UNCHANGED Atomic!vars
    BY <1>3 DEF Abort, Return, Fail, rowVars, Atomic!vars
  <1>4. ASSUME NEW c \in Creators, OpenWallet(c) PROVE Atomic!Next
    BY <1>4, SameRows DEF OpenWallet, Atomic!Next, Atomic!Open
  <1>5. CASE UNCHANGED vars
    BY <1>5 DEF vars, rowVars, Atomic!vars
  <1> QED
    BY <1>1, <1>2, <1>3, <1>4, <1>5 DEF Next

\* Calls that never overlap on a creator look like single indivisible steps: the
\* transactional ledger implements the atomic one.
THEOREM SerialImplementsAtomic == SerialSpec => ImplementsAtomic
  <1>1. Init => Atomic!Init
    BY DEF Init, Atomic!Init
  <1>2. SerialSpec => []SInv
    BY InitSInv, NextSInv, PTL DEF SerialSpec
  <1> QED
    BY <1>1, <1>2, StepImplements, PTL DEF SerialSpec, ImplementsAtomic, Atomic!Spec

-----------------------------------------------------------------------------
(***************************************************************************)
(* Payout requests                                                         *)
(***************************************************************************)

\* Every step of the requests is a step of the ledger or leaves it alone.
LEMMA StepsOfLedger == [AdminNext]_allVars => [Next]_vars
  <1> SUFFICES ASSUME [AdminNext]_allVars PROVE [Next]_vars
    OBVIOUS
  <1>1. ASSUME NEW c \in Creators, CreateProfile(c) \/ CreateWallet(c) \/ LoseWallet(c)
        PROVE  [Next]_vars
    BY <1>1 DEF CreateProfile, CreateWallet, LoseWallet, Next
  <1>2. ASSUME NEW p \in Payouts, RequestPayout(p) PROVE [Next]_vars
    BY <1>2 DEF RequestPayout
  <1>3. ASSUME NEW h \in Handlers, NEW p \in Payouts,
               \/ ReadForPaid(h, p)
               \/ Refuse(h, p, "PAID") \/ Refuse(h, p, "REVERSED")
               \/ \E s \in {"FAILED", "PROCESSING"} : SetStatus(h, p, s)
        PROVE  UNCHANGED vars
    BY <1>3 DEF ReadForPaid, Refuse, SetStatus, allVars
  <1>4. ASSUME NEW h \in Handlers, NEW q, Begin(h, q) PROVE Next
    BY <1>4 DEF Begin, Next
  <1>5. ASSUME NEW h \in Handlers, NEW p \in Payouts, BeginReversal(h, p) PROVE Next
    BY <1>4, <1>5 DEF BeginReversal
  <1>6. ASSUME NEW h \in Handlers, NEW c \in Creators, NEW a \in Adjustments,
               BeginAdjust(h, c, a)
        PROVE  Next
    BY <1>4, <1>6 DEF BeginAdjust
  <1>7. ASSUME NEW h \in Handlers, BeginDebit(h) PROVE Next
    BY <1>4, <1>7 DEF BeginDebit
  <1>8. ASSUME NEW h \in Handlers,
               RefuseDebit(h) \/ RunCall(h) \/ Record(h) \/ GiveUp(h) \/ Crash(h)
        PROVE  [Next]_vars
    BY <1>8 DEF RefuseDebit, RunCall, Record, GiveUp, Crash, Next
  <1>9. CASE UNCHANGED allVars
    BY <1>9 DEF allVars
  <1> QED
    BY <1>1, <1>2, <1>3, <1>5, <1>6, <1>7, <1>8, <1>9 DEF AdminNext, AdminStep

\* The requests use the wallet ledger only through its own steps, so all that is
\* proved of every behaviour of WalletLedger holds of them.
THEOREM AdminImplementsLedger == AdminSpec => Spec
  <1>1. AdminInit => Init
    BY DEF AdminInit
  <1> QED
    BY <1>1, StepsOfLedger, PTL DEF AdminSpec, Spec

-----------------------------------------------------------------------------
(***************************************************************************)
(* Types, and the call each request waits for                              *)
(***************************************************************************)

\* A request that has reached the ledger waits for the call it stands for.
RequestOK ==
    \A h \in Handlers :
        /\ step[h] # "idle" =>
             /\ request[h] \in Request
             /\ request[h].goal # "ADJUST" => request[h].payout \in Payouts
        /\ step[h] = "wallet" => request[h].goal = "PAID"
        /\ step[h] = "ledger" =>
             /\ request[h].goal = "PAID" => call[h] = PayoutCall(request[h].payout)
             /\ request[h].goal = "REVERSED" => call[h] = ReversalCall(request[h].payout)
             /\ request[h].goal = "ADJUST" => call[h].payout = NoPayout

AInv == TInv /\ AdminTypeOK /\ RequestOK

LEMMA InitAInv == AdminInit => AInv
  <1> SUFFICES ASSUME AdminInit PROVE AInv
    OBVIOUS
  <1>1. TInv
    BY InitTInv DEF AdminInit
  <1> QED
    BY <1>1 DEF AdminInit, Init, AInv, TInv, AdminTypeOK, RequestOK

\* Statements of the transaction move neither to nor from idle and keep the call.
LEMMA RunKeeps ==
    ASSUME TInv, NEW h \in Handlers, Statement(h) \/ Abort(h)
    PROVE  /\ pc[h] # "idle" /\ pc'[h] # "idle"
           /\ \A g \in Handlers \ {h} : pc'[g] = pc[g]
           /\ call' = call
  BY DEF TInv, TypeOK, Statement, UpsertFinds, UpsertMisses, UpsertInserts, UpsertCollides,
     ReleaseReads, ReleaseThrows, WriteEntry, UpdateWallet, Commit, Abort, IsOpen, OpenAt,
     Fail, Goto

LEMMA NextAInv == AInv /\ [AdminNext]_allVars => AInv'
  <1> SUFFICES ASSUME AInv, [AdminNext]_allVars PROVE AInv'
    OBVIOUS
  <1>1. TInv' /\ TypeOK'
    BY StepsOfLedger, NextTInv DEF AInv, TInv
  <1> USE DEF AInv, AdminTypeOK, RequestOK
  <1>2. /\ pc \in [Handlers -> PC] /\ call \in [Handlers -> Calls \cup {NoCall}]
    BY DEF TInv, TypeOK
  <1>3. ASSUME NEW c \in Creators, CreateProfile(c) \/ CreateWallet(c) \/ LoseWallet(c)
        PROVE  AInv'
    BY <1>1, <1>3, ZenonT(60) DEF CreateProfile, CreateWallet, LoseWallet, OpenWallet, vars, txVars
  <1>4. ASSUME NEW p \in Payouts, RequestPayout(p) PROVE AInv'
    BY <1>1, <1>4 DEF RequestPayout, vars, txVars, Status
  <1>5. ASSUME NEW h \in Handlers, NEW p \in Payouts, ReadForPaid(h, p) PROVE AInv'
    BY <1>1, <1>5 DEF ReadForPaid, Accept, vars, txVars, Request, Goals
  <1>6. ASSUME NEW h \in Handlers, NEW p \in Payouts, BeginReversal(h, p) PROVE AInv'
    BY <1>1, <1>2, <1>6, ZenonT(60) DEF BeginReversal, Accept, Begin, Goto, Request, Goals
  <1>7. ASSUME NEW h \in Handlers, NEW p \in Payouts, NEW s \in {"FAILED", "PROCESSING"},
               SetStatus(h, p, s)
        PROVE  AInv'
    BY <1>1, <1>7 DEF SetStatus, vars, txVars, Status
  <1>8. ASSUME NEW h \in Handlers, NEW c \in Creators, NEW a \in Adjustments,
               BeginAdjust(h, c, a)
        PROVE  AInv'
    BY <1>1, <1>2, <1>8, ZenonT(60)
    DEF BeginAdjust, Accept, Begin, Goto, Request, Goals, AdjustCall
  <1>9. ASSUME NEW h \in Handlers, BeginDebit(h) PROVE AInv'
    BY <1>1, <1>2, <1>9 DEF BeginDebit, Begin, Goto
  <1>10. ASSUME NEW h \in Handlers, RunCall(h) PROVE AInv'
    BY <1>1, <1>10, RunKeeps, ZenonT(60) DEF RunCall, adminVars
  <1>11. ASSUME NEW h \in Handlers, Record(h) PROVE AInv'
    <2>1. payout' \in [Payouts -> Status \cup {"NONE"}]
      <3>1. request[h] \in Request
        BY <1>11 DEF Record
      <3>2. request[h].goal # "ADJUST" => request[h].goal \in Status
        BY <3>1 DEF Request, Goals, Status
      <3> QED
        BY <1>11, <3>2 DEF Record
    <2> QED
      BY <1>1, <1>2, <1>11, <2>1, ZenonT(60) DEF Record, Return, Goto, Finish
  <1>12. ASSUME NEW h \in Handlers, GiveUp(h) \/ RefuseDebit(h) \/ Crash(h) PROVE AInv'
    <2>1. /\ profile' = profile /\ payout' = payout /\ step'[h] = "idle" /\ pc'[h] = "idle"
          /\ request' \in [Handlers -> Request \cup {NoRequest}]
          /\ step' \in [Handlers -> {"idle", "wallet", "ledger"}]
      BY <1>2, <1>12 DEF GiveUp, RefuseDebit, Crash, Return, Goto, Finish, vars, txVars
    <2>2. \A g \in Handlers \ {h} : /\ step'[g] = step[g] /\ request'[g] = request[g]
                                    /\ pc'[g] = pc[g] /\ call'[g] = call[g]
      BY <1>2, <1>12, ZenonT(60) DEF GiveUp, RefuseDebit, Crash, Return, Goto, Finish, vars, txVars
    <2>3. ASSUME NEW g \in Handlers PROVE step'[g] = "ledger" <=> pc'[g] # "idle"
      BY <2>1, <2>2
    <2>4. RequestOK'
      <3> SUFFICES ASSUME NEW g \in Handlers, g # h PROVE RequestOK!(g)'
        BY <2>1
      <3> QED
        BY <2>1, <2>2, ZenonT(60)
    <2> QED
      BY <1>1, <2>1, <2>3, <2>4
  <1>13. ASSUME NEW h \in Handlers, NEW p \in Payouts,
                Refuse(h, p, "PAID") \/ Refuse(h, p, "REVERSED")
         PROVE  AInv'
    BY <1>1, <1>13, ZenonT(60) DEF Refuse, allVars, adminVars, vars, txVars
  <1>14. CASE UNCHANGED allVars
    BY <1>1, <1>14 DEF allVars, adminVars, vars, txVars
  <1> QED
    BY <1>3, <1>4, <1>5, <1>6, <1>7, <1>8, <1>9, <1>10, <1>11, <1>12, <1>13, <1>14
    DEF AdminNext, AdminStep

\* Tables and handlers stay well typed, and a handler stands at the ledger exactly
\* while its transaction is under way.
THEOREM AdminTypeCorrect == AdminSpec => []AdminTypeOK
  <1>1. AdminSpec => []AInv
    BY InitAInv, NextAInv, PTL DEF AdminSpec
  <1> QED
    BY <1>1, PTL DEF AInv

-----------------------------------------------------------------------------
(***************************************************************************)
(* The status of a payout never runs ahead of the ledger                   *)
(***************************************************************************)

\* What a request knows of the ledger: a reversal has found its payout debited,
\* and a call that returned has left its entry.
CallsLedgered ==
    \A h \in Handlers : step[h] = "ledger" =>
        /\ request[h].goal = "REVERSED" => Paid(request[h].payout) # {}
        /\ pc[h] = "ok" /\ request[h].goal = "PAID" => Paid(request[h].payout) # {}
        /\ pc[h] = "ok" /\ request[h].goal = "REVERSED" => Refunded(request[h].payout) # {}

LInv == AInv /\ StatusIsLedgered /\ ReversalFollowsDebit /\ CallsLedgered

\* Appending an entry adds its position to those of its payout and moves none.
LEMMA AppendPositions ==
    ASSUME NEW s \in Seq(Entry), NEW e \in Entry, NEW p
    PROVE  /\ Debits(s, p) \subseteq Debits(Append(s, e), p)
           /\ Reversals(s, p) \subseteq Reversals(Append(s, e), p)
           /\ Reversals(Append(s, e), p) \subseteq Reversals(s, p) \cup {Len(s) + 1}
           /\ e.payout = p /\ e.type = "PAYOUT" => Len(s) + 1 \in Debits(Append(s, e), p)
           /\ e.payout = p /\ e.type = "ADJUSTMENT" => Len(s) + 1 \in Reversals(Append(s, e), p)
           /\ Len(s) + 1 \in Reversals(Append(s, e), p) => e.payout = p /\ e.type = "ADJUSTMENT"
           /\ \A j \in Debits(s, p) : j < Len(s) + 1
  <1>1. /\ Len(Append(s, e)) = Len(s) + 1 /\ Append(s, e)[Len(s) + 1] = e /\ Len(s) \in Nat
        /\ \A i \in 1..Len(s) : Append(s, e)[i] = s[i]
    OBVIOUS
  <1> QED
    BY <1>1 DEF Debits, Reversals

\* The ledger only changes at the commit of an append, which adds the entry of the
\* call a request waits for.
LEMMA CommitPositions ==
    ASSUME AInv, NEW h \in Handlers, step[h] = "ledger", Commit(h), request' = request
    PROVE  /\ \A p \in Payouts : Paid(p) \subseteq Paid(p)' /\ Refunded(p) \subseteq Refunded(p)'
           /\ request[h].goal = "PAID" => Paid(request[h].payout)' # {}
           /\ request[h].goal = "REVERSED" => Refunded(request[h].payout)' # {}
           /\ \A p \in Payouts : \A i \in Refunded(p)' \ Refunded(p) :
                /\ request[h].goal = "REVERSED" /\ request[h].payout = p
                /\ \A j \in Paid(p) : j < i
  <1> USE DEF AInv, TInv, OpenCalls, TypeOK
  <1> DEFINE c == Creator(h)
             s == ledger[c]
             e == EntryFor(row[h], call[h])
             r == request[h]
  <1>1. /\ call[h] \in Call /\ c \in Creators /\ s \in Seq(Entry)
        /\ r \in Request /\ (r.goal # "ADJUST" => r.payout \in Payouts)
    BY CallsAssumption DEF Commit, Creator, Call, RequestOK
  <1>2. r.goal = "PAID" \/ r.goal = "REVERSED" \/ r.goal = "ADJUST"
    BY <1>1 DEF Request, Goals
  <1>3. /\ r.goal = "PAID" => /\ call[h].type = "PAYOUT" /\ call[h].payout = r.payout
                              /\ c = PayoutCreator[r.payout]
        /\ r.goal = "REVERSED" => /\ call[h].type = "ADJUSTMENT" /\ call[h].payout = r.payout
                                  /\ c = PayoutCreator[r.payout]
        /\ r.goal = "ADJUST" => call[h].payout = NoPayout
    BY DEF RequestOK, PayoutCall, ReversalCall, Creator
  <1>4. CASE IsRelease(h)
    <2>1. ledger' = ledger
      BY <1>4 DEF Commit
    <2>2. r.goal = "ADJUST"
      BY <1>2, <1>3, <1>4 DEF IsRelease, Release
    <2> QED
      BY <2>1, <2>2 DEF Paid, Refunded
  <1>5. CASE ~IsRelease(h)
    <2>1. e \in Entry /\ e.type = call[h].type /\ e.payout = call[h].payout
      BY <1>1, <1>5, OutcomeType DEF IsRelease, EntryFor
    <2>2. /\ ledger'[c] = Append(s, e)
          /\ \A d \in Creators \ {c} : ledger'[d] = ledger[d]
      BY <1>1, <1>5 DEF Commit
    <2>3. \A p \in Payouts : PayoutCreator[p] \in Creators
      BY PayoutAssumption
    <2> DEFINE t == Append(s, e)
    <2>8. ASSUME NEW p \in Payouts, PayoutCreator[p] = c
          PROVE  /\ Paid(p) = Debits(s, p) /\ Paid(p)' = Debits(t, p)
                 /\ Refunded(p) = Reversals(s, p) /\ Refunded(p)' = Reversals(t, p)
      BY <2>2, <2>8 DEF Paid, Refunded
    <2>9. ASSUME NEW p
          PROVE  /\ Debits(s, p) \subseteq Debits(t, p)
                 /\ Reversals(s, p) \subseteq Reversals(t, p)
                 /\ Reversals(t, p) \subseteq Reversals(s, p) \cup {Len(s) + 1}
                 /\ e.payout = p /\ e.type = "PAYOUT" => Len(s) + 1 \in Debits(t, p)
                 /\ e.payout = p /\ e.type = "ADJUSTMENT" => Len(s) + 1 \in Reversals(t, p)
                 /\ Len(s) + 1 \in Reversals(t, p) => e.payout = p /\ e.type = "ADJUSTMENT"
                 /\ \A j \in Debits(s, p) : j < Len(s) + 1
      BY <1>1, <2>1, AppendPositions
    <2> HIDE DEF t, e, s
    <2>4. ASSUME NEW p \in Payouts
          PROVE  /\ Paid(p) \subseteq Paid(p)' /\ Refunded(p) \subseteq Refunded(p)'
      <3>1. CASE PayoutCreator[p] = c
        BY <2>8, <2>9, <3>1
      <3>2. CASE PayoutCreator[p] # c
        BY <2>2, <2>3, <3>2 DEF Paid, Refunded, t, e, s
      <3> QED
        BY <3>1, <3>2
    <2>5. r.goal = "PAID" => Paid(r.payout)' # {}
      <3> SUFFICES ASSUME r.goal = "PAID" PROVE Paid(r.payout)' # {}
        OBVIOUS
      <3>1. r.payout \in Payouts /\ PayoutCreator[r.payout] = c
        BY <1>1, <1>3
      <3>2. Len(s) + 1 \in Debits(t, r.payout)
        BY <1>3, <2>1, <2>9
      <3>3. Paid(r.payout)' = Debits(t, r.payout)
        BY <2>8, <3>1
      <3> QED
        BY <3>2, <3>3
    <2>6. r.goal = "REVERSED" => Refunded(r.payout)' # {}
      <3> SUFFICES ASSUME r.goal = "REVERSED" PROVE Refunded(r.payout)' # {}
        OBVIOUS
      <3>1. r.payout \in Payouts /\ PayoutCreator[r.payout] = c
        BY <1>1, <1>3
      <3>2. Len(s) + 1 \in Reversals(t, r.payout)
        BY <1>3, <2>1, <2>9
      <3>3. Refunded(r.payout)' = Reversals(t, r.payout)
        BY <2>8, <3>1
      <3> QED
        BY <3>2, <3>3
    <2>7. ASSUME NEW p \in Payouts, NEW i \in Refunded(p)' \ Refunded(p)
          PROVE  /\ r.goal = "REVERSED" /\ r.payout = p
                 /\ \A j \in Paid(p) : j < i
      <3>1. PayoutCreator[p] = c
        BY <2>2, <2>3, <2>7 DEF Refunded, t, e, s
      <3>2. i = Len(s) + 1 /\ e.payout = p /\ e.type = "ADJUSTMENT"
        BY <2>7, <2>8, <2>9, <3>1
      <3>3. p # NoPayout
        BY NoPayoutAssumption
      <3>4. r.goal = "REVERSED" /\ r.payout = p
        BY <1>2, <1>3, <2>1, <3>2, <3>3
      <3>5. \A j \in Paid(p) : j < i
        BY <2>8, <2>9, <3>1, <3>2
      <3> QED
        BY <3>4, <3>5
    <2> QED
      BY <2>4, <2>5, <2>6, <2>7
  <1> QED
    BY <1>4, <1>5

\* All but Commit leave the ledger as it is.
LEMMA LedgerKept ==
    ASSUME NEW h \in Handlers,
           \/ Statement(h) /\ ~Commit(h)
           \/ Abort(h) \/ Return(h) \/ \E q : Begin(h, q)
    PROVE  ledger' = ledger
  BY DEF Statement, UpsertFinds, UpsertMisses, UpsertInserts, UpsertCollides, ReleaseReads,
     ReleaseThrows, WriteEntry, UpdateWallet, Abort, Return, Begin, Fail, rowVars

\* Only Commit settles a call successfully.
LEMMA OnlyCommitSettles ==
    ASSUME TInv, NEW h \in Handlers, Statement(h) \/ Abort(h), pc'[h] = "ok"
    PROVE  Commit(h)
  BY DEF TInv, TypeOK, Statement, UpsertFinds, UpsertMisses, UpsertInserts, UpsertCollides,
     ReleaseReads, ReleaseThrows, WriteEntry, UpdateWallet, Abort, Fail, Goto

LEMMA InitLInv == AdminInit => LInv
  <1> SUFFICES ASSUME AdminInit PROVE LInv
    OBVIOUS
  <1>1. AInv
    BY InitAInv
  <1>2. StatusIsLedgered /\ CallsLedgered
    BY DEF AdminInit, StatusIsLedgered, CallsLedgered
  <1>3. \A p \in Payouts : ledger[PayoutCreator[p]] = << >>
    BY PayoutAssumption DEF AdminInit, Init
  <1>4. \A p \in Payouts : Refunded(p) = {}
    BY <1>3 DEF Refunded, Reversals
  <1> QED
    BY <1>1, <1>2, <1>4 DEF LInv, ReversalFollowsDebit

\* While the ledger stays, the invariant is about payouts and handlers only.
LEMMA NextLInv == LInv /\ [AdminNext]_allVars => LInv'
  <1> SUFFICES ASSUME LInv, [AdminNext]_allVars PROVE LInv'
    OBVIOUS
  <1>1. AInv'
    BY NextAInv DEF LInv
  <1> USE DEF LInv
  <1>2. /\ pc \in [Handlers -> PC] /\ step \in [Handlers -> {"idle", "wallet", "ledger"}]
        /\ request \in [Handlers -> Request \cup {NoRequest}]
        /\ payout \in [Payouts -> Status \cup {"NONE"}]
        /\ \A h \in Handlers : step[h] = "ledger" /\ request[h].goal # "ADJUST" =>
              request[h].payout \in Payouts
        /\ \A h \in Handlers : step[h] = "ledger" =>
              request[h].goal \in {"PAID", "REVERSED", "ADJUST"}
    BY DEF AInv, AdminTypeOK, TypeOK, RequestOK, Request, Goals
  <1>3. ASSUME ledger' = ledger
        PROVE  /\ \A p : Paid(p)' = Paid(p) /\ Refunded(p)' = Refunded(p)
               /\ ReversalFollowsDebit'
    BY <1>3 DEF Paid, Refunded, ReversalFollowsDebit
  <1>4. ASSUME ledger' = ledger, payout' = payout, request' = request, pc' = pc, step' = step
        PROVE  LInv'
    BY <1>1, <1>3, <1>4 DEF StatusIsLedgered, CallsLedgered, Paid, Refunded
  <1>5. ASSUME NEW c \in Creators, CreateProfile(c) \/ CreateWallet(c) \/ LoseWallet(c)
        PROVE  LInv'
    BY <1>4, <1>5 DEF CreateProfile, CreateWallet, LoseWallet, OpenWallet, vars, rowVars, txVars
  <1>6. ASSUME NEW p \in Payouts,
               RequestPayout(p) \/ \E h \in Handlers, s \in {"FAILED", "PROCESSING"} :
                                      SetStatus(h, p, s)
        PROVE  LInv'
    <2>1. /\ ledger' = ledger /\ pc' = pc /\ request' = request /\ step' = step
          /\ \A o \in Payouts : payout'[o] = payout[o] \/ payout'[o] \notin {"PAID", "REVERSED"}
      BY <1>2, <1>6 DEF RequestPayout, SetStatus, vars, rowVars, txVars
    <2> QED
      BY <1>1, <1>3, <2>1 DEF StatusIsLedgered, CallsLedgered, Paid, Refunded
  <1>7. ASSUME NEW h \in Handlers,
               \/ \E p \in Payouts : ReadForPaid(h, p) \/ BeginReversal(h, p)
               \/ \E c \in Creators, a \in Adjustments : BeginAdjust(h, c, a)
               \/ BeginDebit(h) \/ RefuseDebit(h) \/ GiveUp(h) \/ Crash(h)
        PROVE  LInv'
    <2>1. ledger' = ledger /\ payout' = payout
      BY <1>7, LedgerKept DEF ReadForPaid, BeginReversal, BeginAdjust, BeginDebit,
         RefuseDebit, GiveUp, Crash, vars, rowVars
    <2>2. \A g \in Handlers \ {h} :
             pc'[g] = pc[g] /\ step'[g] = step[g] /\ request'[g] = request[g]
      BY <1>2, <1>7 DEF ReadForPaid, BeginReversal, BeginAdjust, BeginDebit, RefuseDebit,
         GiveUp, Crash, Accept, Finish, Begin, Return, Goto, vars, txVars
    <2>3. step'[h] = "ledger" =>
             /\ pc'[h] # "ok"
             /\ request'[h].goal = "REVERSED" => payout[request'[h].payout] = "PAID"
                                                   /\ request'[h].payout \in Payouts
      BY <1>1, <1>2, <1>7 DEF ReadForPaid, BeginReversal, BeginAdjust, BeginDebit,
         RefuseDebit, GiveUp, Crash, Accept, Finish, Begin, Return, Goto, vars, txVars,
         AInv, RequestOK
    <2>4. StatusIsLedgered'
      BY <1>3, <2>1 DEF StatusIsLedgered
    <2>5. CallsLedgered'
      <3> SUFFICES ASSUME NEW g \in Handlers, step'[g] = "ledger"
                   PROVE  CallsLedgered!(g)'
        BY DEF CallsLedgered
      <3>1. CASE g = h
        BY <1>3, <2>1, <2>3, <3>1 DEF StatusIsLedgered, Paid, Refunded
      <3>2. CASE g # h
        BY <1>3, <2>1, <2>2, <3>2 DEF CallsLedgered, Paid, Refunded
      <3> QED
        BY <3>1, <3>2
    <2> QED
      BY <1>1, <1>3, <2>1, <2>4, <2>5
  <1>8. ASSUME NEW h \in Handlers, RunCall(h) PROVE LInv'
    <2>1. /\ payout' = payout /\ request' = request /\ step' = step /\ step[h] = "ledger"
          /\ \A g \in Handlers \ {h} : pc'[g] = pc[g]
      BY <1>8, RunKeeps DEF RunCall, adminVars, AInv
    <2>2. CASE Commit(h)
      <3>1. /\ \A p \in Payouts : Paid(p) \subseteq Paid(p)' /\ Refunded(p) \subseteq Refunded(p)'
            /\ request[h].goal = "PAID" => Paid(request[h].payout)' # {}
            /\ request[h].goal = "REVERSED" => Refunded(request[h].payout)' # {}
            /\ \A p \in Payouts : \A i \in Refunded(p)' \ Refunded(p) :
                 /\ request[h].goal = "REVERSED" /\ request[h].payout = p
                 /\ \A j \in Paid(p) : j < i
        BY <2>1, <2>2, CommitPositions
      <3>2. StatusIsLedgered'
        BY <2>1, <3>1 DEF StatusIsLedgered
      <3>3. ReversalFollowsDebit'
        <4> SUFFICES ASSUME NEW p \in Payouts, NEW i \in Refunded(p)'
                     PROVE  \E j \in Paid(p)' : j < i
          BY DEF ReversalFollowsDebit
        <4>1. CASE i \in Refunded(p)
          BY <3>1, <4>1 DEF ReversalFollowsDebit
        <4>2. CASE i \notin Refunded(p)
          <5>1. Paid(p) # {} /\ \A j \in Paid(p) : j < i
            BY <2>1, <3>1, <4>2 DEF CallsLedgered
          <5> QED
            BY <3>1, <5>1
        <4> QED
          BY <4>1, <4>2
      <3>4. CallsLedgered'
        <4> SUFFICES ASSUME NEW g \in Handlers, step[g] = "ledger"
                     PROVE  CallsLedgered!(g)'
          BY <2>1 DEF CallsLedgered
        <4>1. request[g].goal # "ADJUST" => request[g].payout \in Payouts
          BY <1>2
        <4>2. CASE g = h
          BY <2>1, <3>1, <4>1, <4>2 DEF CallsLedgered
        <4>3. CASE g # h
          BY <2>1, <3>1, <4>1, <4>3 DEF CallsLedgered
        <4> QED
          BY <4>2, <4>3
      <3> QED
        BY <1>1, <3>2, <3>3, <3>4
    <2>3. CASE ~Commit(h)
      <3>1. ledger' = ledger /\ pc'[h] # "ok"
        BY <1>8, <2>3, LedgerKept, OnlyCommitSettles DEF RunCall, AInv
      <3>2. StatusIsLedgered'
        BY <1>3, <2>1, <3>1 DEF StatusIsLedgered
      <3>3. CallsLedgered'
        <4> SUFFICES ASSUME NEW g \in Handlers, step[g] = "ledger"
                     PROVE  CallsLedgered!(g)'
          BY <2>1 DEF CallsLedgered
        <4> QED
          BY <1>3, <2>1, <3>1 DEF CallsLedgered, Paid, Refunded
      <3> QED
        BY <1>1, <1>3, <3>1, <3>2, <3>3
    <2> QED
      BY <2>2, <2>3
  <1>9. ASSUME NEW h \in Handlers, Record(h) PROVE LInv'
    <2> DEFINE p == request[h].payout
               g == request[h].goal
    <2>1. ledger' = ledger /\ step[h] = "ledger" /\ pc[h] = "ok"
      BY <1>9, LedgerKept DEF Record
    <2>2. /\ g = "PAID" => Paid(p) # {}
          /\ g = "REVERSED" => Paid(p) # {} /\ Refunded(p) # {}
      BY <2>1 DEF CallsLedgered
    <2>3. /\ step'[h] = "idle"
          /\ \A o \in Handlers \ {h} :
                step'[o] = step[o] /\ request'[o] = request[o] /\ pc'[o] = pc[o]
      BY <1>2, <1>9 DEF Record, Return, Finish, Goto
    <2>4. \A o \in Payouts : payout'[o] = payout[o] \/ (o = p /\ payout'[o] = g)
      BY <1>2, <1>9 DEF Record
    <2>5. StatusIsLedgered'
      BY <1>3, <2>1, <2>2, <2>4 DEF StatusIsLedgered
    <2>6. CallsLedgered'
      <3> SUFFICES ASSUME NEW o \in Handlers, step'[o] = "ledger"
                   PROVE  CallsLedgered!(o)'
        BY DEF CallsLedgered
      <3> QED
        BY <1>3, <2>1, <2>3 DEF CallsLedgered, Paid, Refunded
    <2> QED
      BY <1>1, <1>3, <2>1, <2>5, <2>6
  <1>10. CASE \/ UNCHANGED allVars
              \/ \E h \in Handlers, p \in Payouts, g \in {"PAID", "REVERSED"} : Refuse(h, p, g)
    BY <1>4, <1>10 DEF Refuse, allVars, adminVars, vars, rowVars, txVars
  <1> QED
    BY <1>5, <1>6, <1>7, <1>8, <1>9, <1>10 DEF AdminNext, AdminStep

\* No crash, timeout or race makes the status of a payout claim money movements
\* that the ledger does not show.
THEOREM StatusIsLedgeredAlways == AdminSpec => []StatusIsLedgered
  <1>1. AdminSpec => []LInv
    BY InitLInv, NextLInv, PTL DEF AdminSpec
  <1> QED
    BY <1>1, PTL DEF LInv

\* No creator is credited back for a payout that was not debited before.
THEOREM ReversalFollowsDebitAlways == AdminSpec => []ReversalFollowsDebit
  <1>1. AdminSpec => []LInv
    BY InitLInv, NextLInv, PTL DEF AdminSpec
  <1> QED
    BY <1>1, PTL DEF LInv

-----------------------------------------------------------------------------
(***************************************************************************)
(* Requests about one creator that take turns                              *)
(***************************************************************************)

\* The creator, the call and the payout of a request that waits for the ledger.
LEMMA ServedCall ==
    ASSUME AInv, NEW h \in Handlers, step[h] = "ledger"
    PROVE  /\ call[h] \in Calls /\ Creator(h) \in Creators /\ Concerns(h, Creator(h))
           /\ request[h] \in Request
           /\ request[h].goal \in {"PAID", "REVERSED", "ADJUST"}
           /\ request[h].goal = "PAID" =>
                /\ request[h].payout \in Payouts
                /\ Creator(h) = PayoutCreator[request[h].payout]
                /\ call[h].type = "PAYOUT" /\ call[h].payout = request[h].payout
                /\ call[h].amount = -PayoutAmount[request[h].payout]
           /\ request[h].goal = "REVERSED" =>
                /\ request[h].payout \in Payouts
                /\ Creator(h) = PayoutCreator[request[h].payout]
                /\ call[h].type = "ADJUSTMENT" /\ call[h].payout = request[h].payout
           /\ request[h].goal = "ADJUST" => call[h].payout = NoPayout
  <1> USE DEF AInv, TInv, OpenCalls, TypeOK, AdminTypeOK, RequestOK
  <1>1. pc[h] # "idle"
    OBVIOUS
  <1>2. call[h] \in Calls
    BY <1>1
  <1>3. call[h] \in Call /\ call[h] # NoCall
    BY <1>2, CallsAssumption, NoCallAssumption
  <1>4. Creator(h) \in Creators /\ Concerns(h, Creator(h))
    BY <1>3 DEF Concerns, Creator, Call
  <1>5. /\ request[h] \in Request /\ request[h].goal \in {"PAID", "REVERSED", "ADJUST"}
        /\ request[h].goal # "ADJUST" => request[h].payout \in Payouts
    BY DEF Request, Goals
  <1>6. /\ request[h].goal = "PAID" => call[h] = PayoutCall(request[h].payout)
        /\ request[h].goal = "REVERSED" => call[h] = ReversalCall(request[h].payout)
        /\ request[h].goal = "ADJUST" => call[h].payout = NoPayout
    OBVIOUS
  <1> HIDE DEF AInv, TInv, OpenCalls, TypeOK, AdminTypeOK, RequestOK
  <1>7. ASSUME request[h].goal = "PAID"
        PROVE  /\ Creator(h) = PayoutCreator[request[h].payout]
               /\ call[h].type = "PAYOUT" /\ call[h].payout = request[h].payout
               /\ call[h].amount = -PayoutAmount[request[h].payout]
    BY <1>6, <1>7 DEF PayoutCall, Creator
  <1>8. ASSUME request[h].goal = "REVERSED"
        PROVE  /\ Creator(h) = PayoutCreator[request[h].payout]
               /\ call[h].type = "ADJUSTMENT" /\ call[h].payout = request[h].payout
    BY <1>6, <1>8 DEF ReversalCall, Creator
  <1> QED
    BY <1>2, <1>4, <1>5, <1>6, <1>7, <1>8

\* Requests that take turns on a creator make calls that do.
LEMMA TurnsSerialise == AInv /\ OnePerCreator => NoOverlap
  <1> SUFFICES ASSUME AInv, OnePerCreator,
                      NEW g \in Handlers, NEW h \in Handlers,
                      IsOpen(g), IsOpen(h), Creator(g) = Creator(h)
               PROVE  g = h
    BY DEF NoOverlap
  <1>1. step[g] = "ledger" /\ step[h] = "ledger"
    BY DEF AInv, AdminTypeOK, IsOpen, OpenAt
  <1> QED
    BY <1>1, ServedCall DEF OnePerCreator

\* One request per creator at a time is all the atomic ledger asks for: every
\* payout, reversal and adjustment then takes effect as one indivisible step.
THEOREM TurnsImplementAtomic == TurnsSpec => ImplementsAtomic
  <1>1. AdminInit => Init /\ AInv
    BY InitAInv DEF AdminInit
  <1>2. AInv /\ [AdminNext /\ OnePerCreator']_allVars => AInv' /\ [Next /\ NoOverlap']_vars
    <2> SUFFICES ASSUME AInv, [AdminNext /\ OnePerCreator']_allVars
                 PROVE  AInv' /\ [Next /\ NoOverlap']_vars
      OBVIOUS
    <2>1. AInv'
      BY NextAInv
    <2>2. CASE AdminNext /\ OnePerCreator'
      <3>1. NoOverlap'
        BY <2>1, <2>2, TurnsSerialise, PTL
      <3> QED
        BY <2>1, <2>2, <3>1, StepsOfLedger
    <2>3. CASE UNCHANGED allVars
      BY <2>1, <2>3 DEF allVars
    <2> QED
      BY <2>2, <2>3
  <1>3. TurnsSpec => SerialSpec
    BY <1>1, <1>2, PTL DEF TurnsSpec, SerialSpec
  <1> QED
    BY <1>3, SerialImplementsAtomic

\* A debit on its way has the money: the wallet still covers the payout, and is the
\* one that the transaction has read.
CoveredCalls ==
    \A h \in Handlers : step[h] = "ledger" /\ request[h].goal = "PAID" /\ IsOpen(h) =>
        /\ pc[h] # "insert"
        /\ Covers(request[h].payout)
        /\ pc[h] # "select" => row[h] = wallet[PayoutCreator[request[h].payout]]

VInv == AInv /\ OnePerCreator /\ CoveredCalls

\* Wallets change at a commit and when one is opened for a creator without.
LEMMA WalletKept ==
    ASSUME NEW h \in Handlers,
           \/ Statement(h) /\ ~Commit(h)
           \/ Abort(h) \/ Return(h) \/ \E q : Begin(h, q)
    PROVE  wallet' = wallet
  BY DEF Statement, UpsertFinds, UpsertMisses, UpsertInserts, UpsertCollides, ReleaseReads,
     ReleaseThrows, WriteEntry, UpdateWallet, Abort, Return, Begin, Fail, rowVars

\* A request other than h's is where it was, for all that h does.
LEMMA OthersStay ==
    ASSUME AInv, NEW h \in Handlers,
           \/ \E p \in Payouts : ReadForPaid(h, p) \/ BeginReversal(h, p)
           \/ \E c \in Creators, a \in Adjustments : BeginAdjust(h, c, a)
           \/ BeginDebit(h) \/ RefuseDebit(h) \/ RunCall(h) \/ Record(h)
           \/ GiveUp(h) \/ Crash(h)
    PROVE  \A g \in Handlers \ {h} : /\ pc'[g] = pc[g] /\ step'[g] = step[g]
                                     /\ request'[g] = request[g] /\ row'[g] = row[g]
  BY ZenonT(60) DEF AInv, TInv, TypeOK, AdminTypeOK, ReadForPaid, BeginReversal, BeginAdjust, BeginDebit,
     RefuseDebit, RunCall, Record, GiveUp, Crash, Accept, Finish, Begin, Return, Goto,
     Statement, UpsertFinds, UpsertMisses, UpsertInserts, UpsertCollides, ReleaseReads,
     ReleaseThrows, WriteEntry, UpdateWallet, Commit, Abort, Fail, vars, txVars, adminVars

LEMMA NextCovered ==
    ASSUME VInv, [AdminNext /\ OnePerCreator']_allVars
    PROVE  VInv'
  <1>1. AInv'
    BY NextAInv DEF VInv
  <1>2. OnePerCreator'
    BY DEF VInv, OnePerCreator, Concerns, Creator, allVars, vars, txVars, adminVars
  <1> SUFFICES CoveredCalls'
    BY <1>1, <1>2 DEF VInv
  <1> SUFFICES ASSUME NEW g \in Handlers, step'[g] = "ledger", request'[g].goal = "PAID",
                      IsOpen(g)'
               PROVE  CoveredCalls!(g)!2'
    BY DEF CoveredCalls
  <1> DEFINE p == request[g].payout
             d == PayoutCreator[p]
  <1> USE DEF VInv
  <1>3. /\ pc \in [Handlers -> PC] /\ step \in [Handlers -> {"idle", "wallet", "ledger"}]
        /\ request \in [Handlers -> Request \cup {NoRequest}]
        /\ row \in [Handlers -> WalletRow] /\ \A q \in Payouts : PayoutCreator[q] \in Creators
    BY PayoutAssumption DEF AInv, TInv, TypeOK, AdminTypeOK
  \* Most steps leave the wallets and the request alone.
  <1>4. ASSUME pc'[g] = pc[g], step'[g] = step[g], request'[g] = request[g], row'[g] = row[g],
               p \in Payouts => wallet'[d] = wallet[d]
        PROVE  CoveredCalls!(g)!2'
    <2>1. step[g] = "ledger" /\ request[g].goal = "PAID" /\ IsOpen(g)
      BY <1>4 DEF IsOpen
    <2> QED
      BY <1>4, <2>1, ServedCall DEF CoveredCalls, Covers
  <1>5. ASSUME NEW h \in Handlers, RunCall(h), g # h PROVE CoveredCalls!(g)!2'
    <2>1. /\ pc'[g] = pc[g] /\ step'[g] = step[g] /\ request'[g] = request[g] /\ row'[g] = row[g]
          /\ step[h] = "ledger" /\ step[g] = "ledger" /\ request[g].goal = "PAID"
      BY <1>5, OthersStay DEF RunCall
    <2>2. Creator(h) # d /\ p \in Payouts
      BY <1>5, <2>1, ServedCall DEF OnePerCreator
    <2>3. wallet'[d] = wallet[d]
      <3>1. CASE Commit(h)
        BY <1>3, <2>2, <3>1 DEF Commit, AInv, TInv, TypeOK
      <3>2. CASE ~Commit(h)
        BY <1>5, <3>2, WalletKept DEF RunCall
      <3> QED
        BY <3>1, <3>2
    <2> QED
      BY <1>4, <2>1, <2>3
  <1>6. ASSUME RunCall(g) PROVE CoveredCalls!(g)!2'
    <2>1. step[g] = "ledger" /\ request' = request /\ IsOpen(g)
      BY <1>3, <1>6 DEF RunCall, adminVars, Statement, UpsertFinds, UpsertMisses, UpsertInserts,
         UpsertCollides, ReleaseReads, ReleaseThrows, WriteEntry, UpdateWallet, Commit, Abort,
         IsOpen, OpenAt
    <2>2. /\ pc[g] # "insert" /\ Covers(p) /\ (pc[g] # "select" => row[g] = wallet[d])
          /\ p \in Payouts /\ Creator(g) = d /\ ~IsRelease(g)
      BY <2>1, ServedCall DEF CoveredCalls, IsRelease, Release
    <2>3. \/ UpsertFinds(g) \/ WriteEntry(g) \/ UpdateWallet(g)
      BY <1>3, <1>6, <2>2 DEF RunCall, Statement, UpsertMisses, UpsertInserts, UpsertCollides,
         ReleaseReads, ReleaseThrows, Commit, Abort, Fail, Goto, IsOpen, OpenAt, Covers
    <2> QED
      BY <1>3, <2>1, <2>2, <2>3 DEF UpsertFinds, WriteEntry, UpdateWallet, Goto, Covers, rowVars
  <1>7. ASSUME NEW c \in Creators, CreateProfile(c) \/ CreateWallet(c) \/ LoseWallet(c)
        PROVE  CoveredCalls!(g)!2'
    <2>1. /\ pc'[g] = pc[g] /\ step'[g] = step[g] /\ request'[g] = request[g] /\ row'[g] = row[g]
          /\ \A b \in Creators : wallet[b] # NoWallet => wallet'[b] = wallet[b]
      BY <1>3, <1>7 DEF CreateProfile, CreateWallet, LoseWallet, OpenWallet, vars, rowVars,
         txVars, AInv, TInv, TypeOK
    <2>2. Covers(p) /\ p \in Payouts
      BY <2>1, ServedCall DEF CoveredCalls, IsOpen
    <2> QED
      BY <1>3, <1>4, <2>1, <2>2 DEF Covers
  <1>8. ASSUME NEW h \in Handlers,
               \/ \E o \in Payouts : ReadForPaid(h, o) \/ BeginReversal(h, o)
               \/ \E c \in Creators, a \in Adjustments : BeginAdjust(h, c, a)
               \/ RefuseDebit(h) \/ Record(h) \/ GiveUp(h) \/ Crash(h)
        PROVE  CoveredCalls!(g)!2'
    <2>1. wallet' = wallet
      BY <1>8, WalletKept DEF ReadForPaid, BeginReversal, BeginAdjust, RefuseDebit, Record,
         GiveUp, Crash, vars, rowVars
    <2>2. g # h
      BY <1>3, <1>8 DEF ReadForPaid, BeginReversal, BeginAdjust, RefuseDebit, Record, GiveUp,
         Crash, Accept, Finish, Begin, Return, Goto, IsOpen, OpenAt, vars, txVars
    <2> QED
      BY <1>4, <1>8, <2>1, <2>2, OthersStay
  <1>9. ASSUME NEW h \in Handlers, BeginDebit(h) PROVE CoveredCalls!(g)!2'
    <2>1. wallet' = wallet
      BY <1>9, WalletKept DEF BeginDebit
    <2>2. CASE g = h
      BY <1>3, <1>9, <2>1, <2>2 DEF BeginDebit, Begin, Goto, Covers
    <2>3. CASE g # h
      BY <1>4, <1>9, <2>1, <2>3, OthersStay
    <2> QED
      BY <2>2, <2>3
  <1>10. CASE \/ \E o \in Payouts : RequestPayout(o)
              \/ \E h \in Handlers, o \in Payouts :
                    \/ Refuse(h, o, "PAID") \/ Refuse(h, o, "REVERSED")
                    \/ \E s \in {"FAILED", "PROCESSING"} : SetStatus(h, o, s)
              \/ UNCHANGED allVars
    BY <1>4, <1>10 DEF RequestPayout, Refuse, SetStatus, allVars, adminVars, vars, rowVars, txVars
  <1> QED
    BY <1>5, <1>6, <1>7, <1>8, <1>9, <1>10 DEF AdminNext, AdminStep

\* A commit that leaves a debit at the end of a ledger leaves money in the wallet.
LEMMA CommitCovered ==
    ASSUME VInv, NEW h \in Handlers, RunCall(h), NEW c \in Creators,
           Len(ledger'[c]) > Len(ledger[c]), ledger'[c][Len(ledger'[c])].type = "PAYOUT"
    PROVE  wallet'[c].available >= 0
  <1> USE DEF VInv
  <1> DEFINE p == request[h].payout
             s == ledger[c]
             e == EntryFor(row[h], call[h])
  <1>1. step[h] = "ledger" /\ s \in Seq(Entry)
    BY DEF RunCall, AInv, TInv, TypeOK
  <1>2. Commit(h)
    BY LedgerKept DEF RunCall
  <1>3. ~IsRelease(h) /\ c = Creator(h) /\ ledger'[c] = Append(s, e)
    BY <1>2 DEF Commit, AInv, TInv, TypeOK
  <1>4. e.type = "PAYOUT" /\ call[h].type = "PAYOUT"
    <2>1. Append(s, e)[Len(Append(s, e))] = e
      BY <1>1
    <2> QED
      BY <1>3, <2>1 DEF EntryFor
  <1>5. request[h].goal = "PAID"
    <2>1. PICK q \in Payouts : call[h] = PayoutCall(q)
      BY <1>1, <1>4, ServedCall, PayoutAssumption DEF PayoutCall, ReversalCall, AdjustCall
    <2>2. call[h].payout = q /\ q # NoPayout
      BY <2>1, NoPayoutAssumption DEF PayoutCall
    <2> QED
      BY <1>1, <1>4, <2>2, ServedCall
  <1>6. /\ p \in Payouts /\ c = PayoutCreator[p] /\ call[h].amount = -PayoutAmount[p]
        /\ row[h] = wallet[c] /\ wallet[c].available >= PayoutAmount[p] /\ wallet[c] # NoWallet
    BY <1>1, <1>2, <1>3, <1>5, ServedCall DEF CoveredCalls, Covers, Commit, IsOpen, OpenAt
  <1>7. wallet[c].available \in Int /\ PayoutAmount[p] \in Nat
    BY <1>6, PayoutAssumption DEF AInv, TInv, TypeOK, WalletRow
  <1>8. wallet'[c] = Outcome(row[h], call[h])
    BY <1>2, <1>3 DEF Commit, NextRow, AInv, TInv, TypeOK
  <1> QED
    BY <1>4, <1>6, <1>7, <1>8 DEF Outcome, Credited, Release, PendingTypes

\* Marking a payout PAID can't pay out more than a creator has earned, provided
\* that requests about one creator take turns: the balance read before the ledger
\* call is then the one it debits.
THEOREM PayoutsCoveredInTurns == TurnsSpec => PayoutsCovered
  <1>1. AdminInit => VInv
    <2> SUFFICES ASSUME AdminInit PROVE VInv
      OBVIOUS
    <2>1. \A h \in Handlers : step[h] = "idle"
      BY DEF AdminInit
    <2> QED
      BY <2>1, InitAInv DEF VInv, OnePerCreator, Concerns, CoveredCalls
  <1>2. VInv /\ [AdminNext /\ OnePerCreator']_allVars => VInv'
    BY NextCovered
  <1> DEFINE Covered(c) ==
               Len(ledger'[c]) > Len(ledger[c])
                 /\ ledger'[c][Len(ledger'[c])].type = "PAYOUT"
               => wallet'[c].available >= 0
  <1>3. VInv /\ [AdminNext /\ OnePerCreator']_allVars => [\A c \in Creators : Covered(c)]_allVars
    <2> SUFFICES ASSUME VInv, AdminNext, NEW c \in Creators, Len(ledger'[c]) > Len(ledger[c]),
                        ledger'[c][Len(ledger'[c])].type = "PAYOUT"
                 PROVE  wallet'[c].available >= 0
      OBVIOUS
    <2>1. ledger' # ledger
      BY DEF VInv, AInv, TInv, TypeOK
    <2>2. PICK h \in Handlers : RunCall(h)
      BY <2>1, LedgerKept DEF AdminNext, AdminStep, CreateProfile, CreateWallet, LoseWallet,
         OpenWallet, RequestPayout, ReadForPaid, BeginReversal, Refuse, SetStatus, BeginAdjust,
         BeginDebit, RefuseDebit, Record, GiveUp, Crash, allVars, vars, rowVars
    <2> QED
      BY <2>2, CommitCovered
  <1> QED
    BY <1>1, <1>2, <1>3, PTL DEF TurnsSpec, PayoutsCovered

-----------------------------------------------------------------------------
(***************************************************************************)
(* No payout is paid or refunded twice                                     *)
(***************************************************************************)

\* h's call for p has returned, and its outcome is yet to be recorded.
Returned(h, goal, p) ==
    step[h] = "ledger" /\ pc[h] = "ok" /\ request[h].goal = goal /\ request[h].payout = p

Balanced(p, owed) == Cardinality(Paid(p)) = Cardinality(Refunded(p)) + owed

\* What the ledger shows of a payout is what its status says, up to a call whose
\* outcome is yet to be recorded.
Settling ==
    \A p \in Payouts :
        /\ \A h \in Handlers : /\ Returned(h, "PAID", p) => Balanced(p, 1)
                               /\ Returned(h, "REVERSED", p) => Balanced(p, 0)
        /\ (\A h \in Handlers : ~Returned(h, "PAID", p) /\ ~Returned(h, "REVERSED", p)) =>
              Balanced(p, IF payout[p] = "PAID" THEN 1 ELSE 0)

\* While a request runs, its payout keeps the status the request was accepted for.
StatusHeld ==
    \A h \in Handlers : step[h] # "idle" =>
        /\ request[h].goal = "PAID" => payout[request[h].payout] # "PAID"
        /\ request[h].goal = "REVERSED" => payout[request[h].payout] = "PAID"

OInv == AInv /\ OnePerCreator /\ StatusHeld /\ Settling

\* Appending an entry adds one position to those of its payout, if it is of their
\* type, and none to any other's.
LEMMA AppendCounts ==
    ASSUME NEW s \in Seq(Entry), NEW e \in Entry, NEW p
    PROVE  /\ Cardinality(Debits(s, p)) \in Nat /\ Cardinality(Reversals(s, p)) \in Nat
           /\ Cardinality(Debits(Append(s, e), p)) = Cardinality(Debits(s, p))
                + (IF e.type = "PAYOUT" /\ e.payout = p THEN 1 ELSE 0)
           /\ Cardinality(Reversals(Append(s, e), p)) = Cardinality(Reversals(s, p))
                + (IF e.type = "ADJUSTMENT" /\ e.payout = p THEN 1 ELSE 0)
  <1> DEFINE t == Append(s, e)
             n == Len(s) + 1
  <1>1. /\ Len(t) = n /\ t[n] = e /\ Len(s) \in Nat
        /\ \A i \in 1..Len(s) : t[i] = s[i]
    OBVIOUS
  <1>2. IsFiniteSet(1..Len(s))
    BY <1>1, FS_Interval
  <1>3. /\ Debits(s, p) \in SUBSET (1..Len(s)) /\ Reversals(s, p) \in SUBSET (1..Len(s))
        /\ n \notin Debits(s, p) /\ n \notin Reversals(s, p)
    BY <1>1 DEF Debits, Reversals
  <1>4. IsFiniteSet(Debits(s, p)) /\ IsFiniteSet(Reversals(s, p))
    BY <1>2, <1>3, FS_Subset
  <1>5. /\ Debits(t, p) = IF e.type = "PAYOUT" /\ e.payout = p THEN Debits(s, p) \cup {n}
                                                              ELSE Debits(s, p)
        /\ Reversals(t, p) = IF e.type = "ADJUSTMENT" /\ e.payout = p
                                THEN Reversals(s, p) \cup {n} ELSE Reversals(s, p)
    BY <1>1 DEF Debits, Reversals
  <1>6. /\ Cardinality(Debits(s, p)) \in Nat /\ Cardinality(Reversals(s, p)) \in Nat
    BY <1>4, FS_CardinalityType
  <1>7. /\ Cardinality(Debits(s, p) \cup {n}) = Cardinality(Debits(s, p)) + 1
        /\ Cardinality(Reversals(s, p) \cup {n}) = Cardinality(Reversals(s, p)) + 1
    BY <1>3, <1>4, FS_AddElement
  <1> QED
    BY <1>5, <1>6, <1>7

\* A commit counts for the payout of the request it serves, and for no other.
LEMMA CommitCounts ==
    ASSUME AInv, NEW h \in Handlers, step[h] = "ledger", Commit(h), NEW p \in Payouts
    PROVE  /\ Cardinality(Paid(p)) \in Nat /\ Cardinality(Refunded(p)) \in Nat
           /\ Cardinality(Paid(p)') = Cardinality(Paid(p))
                + (IF request[h].goal = "PAID" /\ request[h].payout = p THEN 1 ELSE 0)
           /\ Cardinality(Refunded(p)') = Cardinality(Refunded(p))
                + (IF request[h].goal = "REVERSED" /\ request[h].payout = p THEN 1 ELSE 0)
  <1> DEFINE c == Creator(h)
             d == PayoutCreator[p]
             s == ledger[d]
             e == EntryFor(row[h], call[h])
             r == request[h]
  <1>1. /\ call[h] \in Call /\ c \in Creators /\ d \in Creators /\ s \in Seq(Entry)
        /\ ledger \in [Creators -> Seq(Entry)] /\ row[h] \in WalletRow
    BY ServedCall, CallsAssumption, PayoutAssumption DEF AInv, TInv, TypeOK
  <1>2. p # NoPayout
    BY NoPayoutAssumption
  <1>3. ZeroRow \in WalletRow /\ \A b \in EntryTypes : b # Release
    BY ZeroRowType DEF EntryTypes, Release
  <1>4. CASE IsRelease(h)
    <2>1. ledger' = ledger
      BY <1>4 DEF Commit
    <2>2. ~(r.payout = p /\ (r.goal = "PAID" \/ r.goal = "REVERSED"))
      BY <1>4, ServedCall DEF IsRelease, Release
    <2>3. [type |-> "PAYOUT", amount |-> 0, balanceAfter |-> 0, payout |-> NoPayout] \in Entry
      BY DEF Entry, EntryTypes
    <2>4. Cardinality(Debits(s, p)) \in Nat /\ Cardinality(Reversals(s, p)) \in Nat
      BY <1>1, <2>3, AppendCounts
    <2> QED
      BY <2>1, <2>2, <2>4 DEF Paid, Refunded
  <1>5. CASE ~IsRelease(h)
    <2>1. e \in Entry /\ e.type = call[h].type /\ e.payout = call[h].payout
      BY <1>1, <1>5, OutcomeType DEF IsRelease, EntryFor
    <2>2. ledger'[d] = IF c = d THEN Append(s, e) ELSE s
      BY <1>1, <1>5 DEF Commit
    <2>3. /\ r.goal = "PAID" /\ r.payout = p <=> c = d /\ e.type = "PAYOUT" /\ e.payout = p
          /\ r.goal = "REVERSED" /\ r.payout = p
                <=> c = d /\ e.type = "ADJUSTMENT" /\ e.payout = p
      BY <1>2, <2>1, ServedCall
    <2>4. /\ Cardinality(Debits(s, p)) \in Nat /\ Cardinality(Reversals(s, p)) \in Nat
          /\ Cardinality(Debits(Append(s, e), p)) = Cardinality(Debits(s, p))
                + (IF e.type = "PAYOUT" /\ e.payout = p THEN 1 ELSE 0)
          /\ Cardinality(Reversals(Append(s, e), p)) = Cardinality(Reversals(s, p))
                + (IF e.type = "ADJUSTMENT" /\ e.payout = p THEN 1 ELSE 0)
      BY <1>1, <2>1, AppendCounts
    <2>5. /\ Paid(p) = Debits(s, p) /\ Paid(p)' = Debits(ledger'[d], p)
          /\ Refunded(p) = Reversals(s, p) /\ Refunded(p)' = Reversals(ledger'[d], p)
      BY DEF Paid, Refunded
    <2> HIDE DEF e, s, c, d, r
    <2>6. CASE c = d
      BY <2>2, <2>3, <2>4, <2>5, <2>6 DEF r
    <2>7. CASE c # d
      BY <2>2, <2>3, <2>4, <2>5, <2>7 DEF r
    <2> QED
      BY <2>6, <2>7
  <1> QED
    BY <1>4, <1>5

\* Two requests about the same payout are one request.
LEMMA OneRequestPerPayout ==
    ASSUME AInv, OnePerCreator, NEW g \in Handlers, NEW h \in Handlers,
           step[g] # "idle", step[h] # "idle", request[g].goal # "ADJUST",
           request[h].goal # "ADJUST", request[g].payout = request[h].payout
    PROVE  g = h
  <1> DEFINE c == PayoutCreator[request[h].payout]
  <1>1. \A o \in {g, h} : Concerns(o, c)
    <2> SUFFICES ASSUME NEW o \in {g, h} PROVE Concerns(o, c)
      OBVIOUS
    <2>1. CASE step[o] = "ledger"
      BY <2>1, ServedCall DEF Concerns
    <2>2. CASE step[o] = "wallet"
      BY <2>2 DEF Concerns
    <2> QED
      BY <2>1, <2>2 DEF AInv, AdminTypeOK
  <1>2. c \in Creators
    BY PayoutAssumption DEF AInv, AdminTypeOK, RequestOK
  <1> QED
    BY <1>1, <1>2 DEF OnePerCreator

\* Steps that leave the ledger, what has returned and who is PAID keep the books.
LEMMA BooksKept ==
    ASSUME Settling, ledger' = ledger,
           \A p \in Payouts : payout'[p] = "PAID" <=> payout[p] = "PAID",
           \A h \in Handlers, p \in Payouts : \A g \in {"PAID", "REVERSED"} :
              Returned(h, g, p)' <=> Returned(h, g, p)
    PROVE  Settling'
  <1>1. \A p : Paid(p)' = Paid(p) /\ Refunded(p)' = Refunded(p)
    BY DEF Paid, Refunded
  <1> QED
    BY <1>1 DEF Settling, Balanced

LEMMA CommitSettles ==
    ASSUME OInv, NEW h \in Handlers, RunCall(h), Commit(h)
    PROVE  Settling'
  <1> USE DEF OInv
  <1> DEFINE r == request[h]
  <1>1. /\ step[h] = "ledger" /\ step' = step /\ request' = request /\ payout' = payout
        /\ pc[h] = "commit" /\ pc'[h] = "ok" /\ \A g \in Handlers \ {h} : pc'[g] = pc[g]
    BY DEF RunCall, Commit, Goto, adminVars, AInv, TInv, TypeOK
  <1> SUFFICES ASSUME NEW p \in Payouts PROVE Settling!(p)'
    BY DEF Settling
  <1>2. /\ Cardinality(Paid(p)) \in Nat /\ Cardinality(Refunded(p)) \in Nat
        /\ Cardinality(Paid(p)') = Cardinality(Paid(p))
             + (IF r.goal = "PAID" /\ r.payout = p THEN 1 ELSE 0)
        /\ Cardinality(Refunded(p)') = Cardinality(Refunded(p))
             + (IF r.goal = "REVERSED" /\ r.payout = p THEN 1 ELSE 0)
    BY <1>1, CommitCounts
  <1>3. \A g \in Handlers \ {h} : \A goal : Returned(g, goal, p)' <=> Returned(g, goal, p)
    BY <1>1 DEF Returned
  <1>4. ~Returned(h, "PAID", p) /\ ~Returned(h, "REVERSED", p)
    BY <1>1 DEF Returned
  <1>5. CASE r.payout = p /\ r.goal \in {"PAID", "REVERSED"}
    <2>1. \A g \in Handlers \ {h} : ~Returned(g, "PAID", p) /\ ~Returned(g, "REVERSED", p)
      BY <1>1, <1>5, OneRequestPerPayout DEF Returned
    <2>2. Balanced(p, IF payout[p] = "PAID" THEN 1 ELSE 0)
      BY <1>4, <2>1 DEF Settling
    <2>3. Balanced(p, IF r.goal = "PAID" THEN 0 ELSE 1)
      BY <1>1, <1>5, <2>2 DEF StatusHeld
    <2>4. Balanced(p, IF r.goal = "PAID" THEN 1 ELSE 0)'
      BY <1>1, <1>2, <1>5, <2>3 DEF Balanced
    <2>5. \A goal : Returned(h, goal, p)' <=> r.goal = goal
      BY <1>1, <1>5 DEF Returned
    <2> QED
      BY <1>1, <1>3, <1>5, <2>1, <2>4, <2>5
  <1>6. CASE ~(r.payout = p /\ r.goal \in {"PAID", "REVERSED"})
    <2>1. ~Returned(h, "PAID", p)' /\ ~Returned(h, "REVERSED", p)'
      BY <1>1, <1>6 DEF Returned
    <2>2. Settling!(p)
      BY DEF Settling
    <2>3. \A owed : Balanced(p, owed)' <=> Balanced(p, owed)
      BY <1>2, <1>6 DEF Balanced
    <2> QED
      BY <1>1, <1>3, <1>4, <2>1, <2>2, <2>3
  <1> QED
    BY <1>5, <1>6

LEMMA NextOInv == OInv /\ [CarefulStep]_allVars => OInv'
  <1> SUFFICES ASSUME OInv, [CarefulStep]_allVars PROVE OInv'
    OBVIOUS
  <1> USE DEF OInv
  <1>1. AInv'
    BY NextAInv DEF CarefulStep, AdminNext
  <1>2. /\ pc \in [Handlers -> PC] /\ step \in [Handlers -> {"idle", "wallet", "ledger"}]
        /\ request \in [Handlers -> Request \cup {NoRequest}]
        /\ payout \in [Payouts -> Status \cup {"NONE"}]
        /\ \A h \in Handlers : step[h] # "idle" =>
             /\ request[h] \in Request /\ request[h] # NoRequest
             /\ request[h].goal # "ADJUST" => request[h].payout \in Payouts
    BY PayoutAssumption DEF AInv, TInv, TypeOK, AdminTypeOK, RequestOK
  <1>3. CASE UNCHANGED allVars
    <2>1. OnePerCreator' /\ StatusHeld'
      BY <1>3 DEF OnePerCreator, Concerns, Creator, StatusHeld, allVars, vars, txVars, adminVars
    <2>2. Settling'
      BY <1>3, BooksKept DEF Returned, allVars, vars, txVars, rowVars, adminVars
    <2> QED
      BY <1>1, <2>1, <2>2
  <1> SUFFICES ASSUME AdminStep, OnePerCreator', KeepsPaid PROVE StatusHeld' /\ Settling'
    BY <1>1, <1>3 DEF CarefulStep
  <1>4. ASSUME NEW c \in Creators, CreateProfile(c) \/ CreateWallet(c) \/ LoseWallet(c)
        PROVE  StatusHeld' /\ Settling'
    <2>1. /\ ledger' = ledger /\ payout' = payout /\ step' = step /\ request' = request
          /\ pc' = pc
      BY <1>4 DEF CreateProfile, CreateWallet, LoseWallet, OpenWallet, vars, rowVars, txVars
    <2> QED
      BY <2>1, BooksKept DEF StatusHeld, Returned
  <1>5. ASSUME NEW p \in Payouts, RequestPayout(p) PROVE StatusHeld' /\ Settling'
    <2>1. /\ ledger' = ledger /\ step' = step /\ request' = request /\ pc' = pc
          /\ \A o \in Payouts : payout'[o] = "PAID" <=> payout[o] = "PAID"
      BY <1>2, <1>5 DEF RequestPayout, vars, rowVars, txVars
    <2> QED
      BY <1>2, <2>1, BooksKept DEF StatusHeld, Returned, Request, Goals
  <1>6. ASSUME NEW h \in Handlers, NEW p \in Payouts, NEW s \in {"FAILED", "PROCESSING"},
               SetStatus(h, p, s)
        PROVE  StatusHeld' /\ Settling'
    <2>1. /\ ledger' = ledger /\ step' = step /\ request' = request /\ pc' = pc
          /\ payout'[p] = s /\ \A o \in Payouts \ {p} : payout'[o] = payout[o]
      BY <1>2, <1>6 DEF SetStatus, vars, rowVars, txVars
    <2>2. payout[p] # "PAID"
      BY <2>1 DEF KeepsPaid
    <2>3. \A o \in Payouts : payout'[o] = "PAID" <=> payout[o] = "PAID"
      BY <2>1, <2>2
    <2> QED
      BY <1>2, <2>1, <2>3, BooksKept DEF StatusHeld, Returned, Request, Goals
  <1>7. ASSUME NEW h \in Handlers,
               \/ \E p \in Payouts : ReadForPaid(h, p) \/ BeginReversal(h, p)
               \/ \E c \in Creators, a \in Adjustments : BeginAdjust(h, c, a)
               \/ BeginDebit(h) \/ RefuseDebit(h) \/ GiveUp(h)
        PROVE  StatusHeld' /\ Settling'
    <2>1. ledger' = ledger /\ payout' = payout
      BY <1>7, LedgerKept DEF ReadForPaid, BeginReversal, BeginAdjust, BeginDebit,
         RefuseDebit, GiveUp, vars, rowVars
    <2>2. \A g \in Handlers \ {h} :
             pc'[g] = pc[g] /\ step'[g] = step[g] /\ request'[g] = request[g]
      BY <1>7, OthersStay
    <2>3. ~(step[h] = "ledger" /\ pc[h] = "ok") /\ ~(step'[h] = "ledger" /\ pc'[h] = "ok")
      BY <1>2, <1>7 DEF ReadForPaid, BeginReversal, BeginAdjust, BeginDebit, RefuseDebit,
         GiveUp, Accept, Finish, Begin, Return, Goto, vars, txVars
    <2>4. step'[h] # "idle" =>
            /\ request'[h].goal = "PAID" => payout[request'[h].payout] # "PAID"
            /\ request'[h].goal = "REVERSED" => payout[request'[h].payout] = "PAID"
      BY <1>2, <1>7 DEF ReadForPaid, BeginReversal, BeginAdjust, BeginDebit, RefuseDebit,
         GiveUp, Accept, Finish, StatusHeld
    <2>5. StatusHeld'
      BY <2>1, <2>2, <2>4 DEF StatusHeld
    <2>6. \A g \in Handlers : \A p, goal : Returned(g, goal, p)' <=> Returned(g, goal, p)
      BY <2>2, <2>3 DEF Returned
    <2> QED
      BY <2>1, <2>5, <2>6, BooksKept
  <1>8. ASSUME NEW h \in Handlers, RunCall(h) PROVE StatusHeld' /\ Settling'
    <2>1. step' = step /\ request' = request /\ payout' = payout /\ step[h] = "ledger"
      BY <1>8 DEF RunCall, adminVars
    <2>2. StatusHeld'
      BY <2>1 DEF StatusHeld
    <2>3. CASE Commit(h)
      BY <1>8, <2>2, <2>3, CommitSettles
    <2>4. CASE ~Commit(h)
      <3>1. ledger' = ledger /\ pc'[h] # "ok"
        BY <1>8, <2>4, LedgerKept, OnlyCommitSettles DEF RunCall, AInv
      <3>2. pc[h] # "ok"
        BY <1>8 DEF RunCall, Statement, UpsertFinds, UpsertMisses, UpsertInserts,
           UpsertCollides, ReleaseReads, ReleaseThrows, WriteEntry, UpdateWallet, Commit,
           Abort, IsOpen, OpenAt
      <3>3. \A g \in Handlers \ {h} : pc'[g] = pc[g]
        BY <1>8, OthersStay
      <3>4. \A g \in Handlers : \A p, goal : Returned(g, goal, p)' <=> Returned(g, goal, p)
        BY <2>1, <3>1, <3>2, <3>3 DEF Returned
      <3> QED
        BY <2>1, <2>2, <3>1, <3>4, BooksKept
    <2> QED
      BY <2>3, <2>4
  <1>9. ASSUME NEW h \in Handlers, Record(h) PROVE StatusHeld' /\ Settling'
    <2> DEFINE r == request[h]
    <2>1. ledger' = ledger /\ step[h] = "ledger" /\ pc[h] = "ok" /\ step'[h] = "idle"
      BY <1>2, <1>9, LedgerKept DEF Record, Finish
    <2>2. \A g \in Handlers \ {h} :
             pc'[g] = pc[g] /\ step'[g] = step[g] /\ request'[g] = request[g]
      BY <1>9, OthersStay
    <2>3. \A o \in Payouts : payout'[o] = IF r.goal # "ADJUST" /\ o = r.payout THEN r.goal
                                                                           ELSE payout[o]
      BY <1>2, <1>9 DEF Record
    <2>4. StatusHeld'
      <3> SUFFICES ASSUME NEW g \in Handlers, step'[g] # "idle" PROVE StatusHeld!(g)!2'
        BY DEF StatusHeld
      <3>1. g # h /\ step[g] # "idle" /\ request'[g] = request[g]
        BY <2>1, <2>2
      <3>2. r.goal # "ADJUST" /\ request[g].goal # "ADJUST" => request[g].payout # r.payout
        BY <2>1, <3>1, OneRequestPerPayout
      <3> QED
        BY <1>2, <2>3, <3>1, <3>2 DEF StatusHeld
    <2>5. Settling'
      <3> SUFFICES ASSUME NEW p \in Payouts PROVE Settling!(p)'
        BY DEF Settling
      <3>1. \A owed : Balanced(p, owed)' <=> Balanced(p, owed)
        BY <2>1 DEF Balanced, Paid, Refunded
      <3>2. \A goal : ~Returned(h, goal, p)'
        BY <2>1 DEF Returned
      <3>3. \A g \in Handlers \ {h} : \A goal : Returned(g, goal, p)' <=> Returned(g, goal, p)
        BY <2>2 DEF Returned
      <3>4. CASE r.goal # "ADJUST" /\ p = r.payout
        <4>1. \A g \in Handlers \ {h} : ~Returned(g, "PAID", p) /\ ~Returned(g, "REVERSED", p)
          BY <2>1, <3>4, OneRequestPerPayout DEF Returned
        <4>2. r.goal = "PAID" \/ r.goal = "REVERSED"
          BY <1>2, <2>1, <3>4 DEF Request, Goals
        <4>3. Balanced(p, IF r.goal = "PAID" THEN 1 ELSE 0)
          BY <2>1, <3>4, <4>2 DEF Settling, Returned
        <4> QED
          BY <2>3, <3>1, <3>2, <3>3, <3>4, <4>1, <4>2, <4>3
      <3>5. CASE ~(r.goal # "ADJUST" /\ p = r.payout)
        <4>1. ~Returned(h, "PAID", p) /\ ~Returned(h, "REVERSED", p)
          BY <3>5 DEF Returned
        <4>2. Settling!(p)
          BY DEF Settling
        <4> QED
          BY <2>3, <3>1, <3>2, <3>3, <3>5, <4>1, <4>2
      <3> QED
        BY <3>4, <3>5
    <2> QED
      BY <2>4, <2>5
  <1>10. CASE \E h \in Handlers, p \in Payouts, g \in {"PAID", "REVERSED"} : Refuse(h, p, g)
    BY <1>3, <1>10 DEF Refuse
  <1> QED
    BY <1>4, <1>5, <1>6, <1>7, <1>8, <1>9, <1>10 DEF AdminStep

\* With requests that take turns, processes that stay up and admins who leave paid
\* payouts alone, no payout is ever debited or credited back twice.
THEOREM SettledOnceWhenCareful == AdminInit /\ [][CarefulStep]_allVars => []SettledOnce
  <1>1. AdminInit => OInv
    <2> SUFFICES ASSUME AdminInit PROVE OInv
      OBVIOUS
    <2>1. /\ \A h \in Handlers : step[h] = "idle"
          /\ \A p \in Payouts : payout[p] # "PAID" /\ ledger[PayoutCreator[p]] = << >>
      BY PayoutAssumption DEF AdminInit, Init
    <2>2. \A p \in Payouts : Paid(p) = {} /\ Refunded(p) = {}
      BY <2>1 DEF Paid, Refunded, Debits, Reversals
    <2>3. \A p \in Payouts : Balanced(p, 0)
      BY <2>2, FS_EmptySet DEF Balanced
    <2>4. Settling
      BY <2>1, <2>3 DEF Settling, Returned
    <2> QED
      BY <2>1, <2>4, InitAInv DEF OInv, OnePerCreator, Concerns, StatusHeld
  <1>2. OInv => SettledOnce
    <2> SUFFICES ASSUME OInv, NEW p \in Payouts,
                        \A h \in Handlers : ~Concerns(h, PayoutCreator[p])
                 PROVE  Balanced(p, IF payout[p] = "PAID" THEN 1 ELSE 0)
      BY DEF SettledOnce, Balanced
    <2>1. \A h \in Handlers : ~Returned(h, "PAID", p) /\ ~Returned(h, "REVERSED", p)
      BY ServedCall DEF OInv, Returned
    <2> QED
      BY <2>1 DEF OInv, Settling
  <1> QED
    BY <1>1, <1>2, NextOInv, PTL
=============================================================================
