------------------------------- MODULE Payouts -------------------------------
(***************************************************************************)
(* The API requests that move a creator's money, on top of the wallet      *)
(* ledger: onboarding (apps/api/src/routes/creator.ts), manual adjustments *)
(* and payout status changes (apps/api/src/routes/admin.ts).               *)
(*                                                                         *)
(* A request is a handler that awaits one database operation after the     *)
(* other.  Only the ledger call in the middle is a transaction: the status *)
(* and the balance it was decided on are read before it, the payout row is *)
(* written after it.                                                       *)
(***************************************************************************)
EXTENDS WalletLedger, FiniteSets

CONSTANTS
    PayoutCreator,   \* creator and amount of each payout request
    PayoutAmount,
    Adjustments,     \* amounts an admin enters, non-zero
    NoRequest        \* the handler serves nothing

Goals  == {"PAID", "REVERSED", "ADJUST"}
Status == {"PENDING", "PROCESSING", "PAID", "FAILED", "REVERSED"}

PayoutCall(p) ==
    [creator |-> PayoutCreator[p], type |-> "PAYOUT",
     amount |-> -PayoutAmount[p], payout |-> p]
ReversalCall(p) ==
    [creator |-> PayoutCreator[p], type |-> "ADJUSTMENT",
     amount |-> PayoutAmount[p], payout |-> p]
AdjustCall(c, amount) ==
    [creator |-> c, type |-> "ADJUSTMENT", amount |-> amount, payout |-> NoPayout]

Request == [goal : Goals, payout : Payouts \cup {NoPayout}]

ASSUME PayoutAssumption ==
    /\ PayoutCreator \in [Payouts -> Creators]
    /\ PayoutAmount \in [Payouts -> Nat \ {0}]
    /\ Adjustments \subseteq Int \ {0}
    /\ NoRequest \notin Request
    /\ Calls = {PayoutCall(p) : p \in Payouts} \cup {ReversalCall(p) : p \in Payouts}
                 \cup {AdjustCall(c, a) : c \in Creators, a \in Adjustments}

VARIABLES
    profile,     \* profile[c]: "none", "wallet due" while onboarding, "done"
    payout,      \* payout[p]: status of the payouts row, "NONE" before it exists
    request,     \* request[h]: what handler h was asked to do
    step         \* step[h]: "idle", "wallet" (before its wallet read), "ledger"

adminVars == <<profile, payout, request, step>>
allVars   == <<vars, adminVars>>

AdminInit ==
    /\ Init
    /\ profile = [c \in Creators |-> "none"]
    /\ payout  = [p \in Payouts |-> "NONE"]
    /\ request = [h \in Handlers |-> NoRequest]
    /\ step    = [h \in Handlers |-> "idle"]

-----------------------------------------------------------------------------
(***************************************************************************)
(* Onboarding and payout requests                                          *)
(***************************************************************************)

\* POST /creator/profile: the transaction that creates the profile.
CreateProfile(c) ==
    /\ profile[c] = "none"
    /\ profile' = [profile EXCEPT ![c] = "wallet due"]
    /\ UNCHANGED <<vars, payout, request, step>>

\* ... and the wallet.create after it.
CreateWallet(c) ==
    /\ profile[c] = "wallet due"
    /\ OpenWallet(c)
    /\ profile' = [profile EXCEPT ![c] = "done"]
    /\ UNCHANGED <<payout, request, step>>

\* ... which is lost with the process, or fails because an adjustment's upsert
\* has created the wallet first.
LoseWallet(c) ==
    /\ profile[c] = "wallet due"
    /\ profile' = [profile EXCEPT ![c] = "done"]
    /\ UNCHANGED <<vars, payout, request, step>>

\* Payout rows are inserted from outside the repository, PENDING by default.
RequestPayout(p) ==
    /\ payout[p] = "NONE"
    /\ profile[PayoutCreator[p]] # "none"
    /\ payout' = [payout EXCEPT ![p] = "PENDING"]
    /\ UNCHANGED <<vars, profile, request, step>>

-----------------------------------------------------------------------------
(***************************************************************************)
(* POST /admin/payouts/:id/status and /admin/creators/:id/wallet/adjust    *)
(***************************************************************************)

Accept(h, r, label) ==
    /\ step[h] = "idle"
    /\ request' = [request EXCEPT ![h] = r]
    /\ step'    = [step EXCEPT ![h] = label]

Finish(h) ==
    /\ request' = [request EXCEPT ![h] = NoRequest]
    /\ step'    = [step EXCEPT ![h] = "idle"]

\* Mutant: only REVERSED payouts are refused.
ReadForPaidAgain(h, p) ==
    /\ payout[p] \in {"PENDING", "PROCESSING", "PAID"}
    /\ Accept(h, [goal |-> "PAID", payout |-> p], "wallet")
    /\ UNCHANGED <<vars, profile, payout>>

\* PAID: the payout is read; any other status is refused with 409.
ReadForPaid(h, p) ==
    /\ payout[p] \in {"PENDING", "PROCESSING"}
    /\ Accept(h, [goal |-> "PAID", payout |-> p], "wallet")
    /\ UNCHANGED <<vars, profile, payout>>

\* 404 for a missing payout, 409 for one whose status does not allow the goal.
Refuse(h, p, goal) ==
    /\ step[h] = "idle"
    /\ \/ goal = "PAID" /\ payout[p] \notin {"PENDING", "PROCESSING"}
       \/ goal = "REVERSED" /\ payout[p] # "PAID"
    /\ UNCHANGED allVars

\* Mutant: any money in the wallet is enough.
CoversAny(p) ==
    /\ wallet[PayoutCreator[p]] # NoWallet
    /\ wallet[PayoutCreator[p]].available > 0

Covers(p) ==
    /\ wallet[PayoutCreator[p]] # NoWallet
    /\ wallet[PayoutCreator[p]].available >= PayoutAmount[p]

\* Mutant: the status is written before the ledger call.
BeginDebitAfterStatus(h) ==
    /\ step[h] = "wallet"
    /\ Covers(request[h].payout)
    /\ Begin(h, PayoutCall(request[h].payout))
    /\ step' = [step EXCEPT ![h] = "ledger"]
    /\ payout' = [payout EXCEPT ![request[h].payout] = "PAID"]
    /\ UNCHANGED <<profile, request>>

\* PAID: the wallet is read, outside the ledger's transaction.
BeginDebit(h) ==
    /\ step[h] = "wallet"
    /\ Covers(request[h].payout)
    /\ Begin(h, PayoutCall(request[h].payout))
    /\ step' = [step EXCEPT ![h] = "ledger"]
    /\ UNCHANGED <<profile, payout, request>>

RefuseDebit(h) ==
    /\ step[h] = "wallet"
    /\ ~Covers(request[h].payout)
    /\ Finish(h)
    /\ UNCHANGED <<vars, profile, payout>>

\* Mutant: any payout can be reversed.
BeginReversalOfAny(h, p) ==
    /\ payout[p] # "NONE"
    /\ Accept(h, [goal |-> "REVERSED", payout |-> p], "ledger")
    /\ Begin(h, ReversalCall(p))
    /\ UNCHANGED <<profile, payout>>

\* REVERSED: the payout is read; only a PAID one is accepted.
BeginReversal(h, p) ==
    /\ payout[p] = "PAID"
    /\ Accept(h, [goal |-> "REVERSED", payout |-> p], "ledger")
    /\ Begin(h, ReversalCall(p))
    /\ UNCHANGED <<profile, payout>>

\* A manual correction of any sign, for a creator that exists.
BeginAdjust(h, c, amount) ==
    /\ profile[c] # "none"
    /\ Accept(h, [goal |-> "ADJUST", payout |-> NoPayout], "ledger")
    /\ Begin(h, AdjustCall(c, amount))
    /\ UNCHANGED <<profile, payout>>

\* The awaited ledger call makes progress, or is rolled back.
RunCall(h) ==
    /\ step[h] = "ledger"
    /\ Statement(h) \/ Abort(h)
    /\ UNCHANGED adminVars

\* Mutant: the payout row is forgotten.
RecordNothing(h) ==
    /\ step[h] = "ledger" /\ pc[h] = "ok"
    /\ Return(h)
    /\ Finish(h)
    /\ UNCHANGED <<profile, payout>>

\* The ledger call succeeded: the payout's status is written last.
Record(h) ==
    /\ step[h] = "ledger" /\ pc[h] = "ok"
    /\ payout' = IF request[h].goal = "ADJUST" THEN payout
                 ELSE [payout EXCEPT ![request[h].payout] = request[h].goal]
    /\ Return(h)
    /\ Finish(h)
    /\ UNCHANGED profile

\* The ledger call threw: the request ends with an error.
GiveUp(h) ==
    /\ step[h] = "ledger" /\ pc[h] = "error"
    /\ Return(h)
    /\ Finish(h)
    /\ UNCHANGED <<profile, payout>>

\* FAILED and PROCESSING are written whatever the payout's status is.
SetStatus(h, p, status) ==
    /\ step[h] = "idle"
    /\ payout[p] # "NONE"
    /\ status \in {"FAILED", "PROCESSING"}
    /\ payout' = [payout EXCEPT ![p] = status]
    /\ UNCHANGED <<vars, profile, request, step>>

\* The process dies between two operations of the handler.  (Inside the ledger
\* call that is Abort followed by GiveUp.)
Crash(h) ==
    /\ Finish(h)
    /\ \/ step[h] = "wallet" /\ UNCHANGED vars
       \/ step[h] = "ledger" /\ pc[h] = "ok" /\ Return(h)
    /\ UNCHANGED <<profile, payout>>

-----------------------------------------------------------------------------

\* One operation of h for the request it serves.
Proceed(h) ==
    \/ BeginDebit(h) \/ RefuseDebit(h) \/ Record(h) \/ GiveUp(h)
    \/ step[h] = "ledger" /\ Statement(h) /\ UNCHANGED adminVars

AdminStep ==
    \/ \E c \in Creators : CreateProfile(c) \/ CreateWallet(c) \/ LoseWallet(c)
    \/ \E p \in Payouts : RequestPayout(p)
    \/ \E h \in Handlers :
          \/ \E p \in Payouts :
                \/ ReadForPaid(h, p) \/ BeginReversal(h, p)
                \/ Refuse(h, p, "PAID") \/ Refuse(h, p, "REVERSED")
                \/ \E s \in {"FAILED", "PROCESSING"} : SetStatus(h, p, s)
          \/ \E c \in Creators, a \in Adjustments : BeginAdjust(h, c, a)
          \/ BeginDebit(h) \/ RefuseDebit(h) \/ RunCall(h) \/ Record(h) \/ GiveUp(h)

AdminNext == AdminStep \/ \E h \in Handlers : Crash(h)

AdminSpec == AdminInit /\ [][AdminNext]_allVars

\* The event loop runs every settled promise; the ledger's waits are fair.
AdminFairness(h) ==
    /\ WF_allVars(Proceed(h))
    /\ SF_allVars(step[h] = "ledger" /\ (UpsertInserts(h) \/ UpsertCollides(h))
                    /\ UNCHANGED adminVars)
    /\ SF_allVars(step[h] = "ledger" /\ UpdateWallet(h) /\ UNCHANGED adminVars)

-----------------------------------------------------------------------------
(***************************************************************************)
(* Assumptions on the admins that some properties need                     *)
(***************************************************************************)

\* The creator whose money h's request is about.
Concerns(h, c) ==
    \/ step[h] = "ledger" /\ call[h] # NoCall /\ Creator(h) = c
    \/ step[h] = "wallet" /\ PayoutCreator[request[h].payout] = c

\* No two requests about one creator at a time.
OnePerCreator ==
    \A c \in Creators : \A g, h \in Handlers :
        Concerns(g, c) /\ Concerns(h, c) => g = h

\* Nobody sets a payout to FAILED or PROCESSING once it is PAID, or while a
\* request about it runs.
KeepsPaid ==
    \A p \in Payouts :
        payout'[p] # payout[p] /\ payout'[p] \in {"FAILED", "PROCESSING"} =>
            /\ payout[p] # "PAID"
            /\ \A h \in Handlers : request[h] = NoRequest \/ request[h].payout # p

\* Requests about one creator take turns: a lock per creator would give this.
TurnsSpec == AdminInit /\ [][AdminNext /\ OnePerCreator']_allVars

\* ... and the processes stay up, and the admins leave paid payouts alone.
CarefulStep == AdminStep /\ OnePerCreator' /\ KeepsPaid

-----------------------------------------------------------------------------
(***************************************************************************)
(* Properties of every interleaving, crashes included                      *)
(***************************************************************************)

\* Types of the payout table and of the handlers, and that a handler's place
\* agrees with the state of its ledger call.
AdminTypeOK ==
    /\ TypeOK
    /\ profile \in [Creators -> {"none", "wallet due", "done"}]
    /\ payout  \in [Payouts -> Status \cup {"NONE"}]
    /\ request \in [Handlers -> Request \cup {NoRequest}]
    /\ step    \in [Handlers -> {"idle", "wallet", "ledger"}]
    /\ \A h \in Handlers : step[h] = "ledger" <=> pc[h] # "idle"

\* Where a ledger debits and where it credits back payout p.
Debits(entries, p) ==
    {i \in 1..Len(entries) : entries[i].type = "PAYOUT" /\ entries[i].payout = p}
Reversals(entries, p) ==
    {i \in 1..Len(entries) : entries[i].type = "ADJUSTMENT" /\ entries[i].payout = p}

Paid(p)     == Debits(ledger[PayoutCreator[p]], p)
Refunded(p) == Reversals(ledger[PayoutCreator[p]], p)

\* Money first: a payout that reads PAID has been debited in the ledger, one that
\* reads REVERSED has also been credited back.  No crash, timeout or race
\* between the two writes of /admin/payouts/:id/status makes the status run ahead
\* of the ledger.
StatusIsLedgered ==
    \A p \in Payouts :
        /\ payout[p] \in {"PAID", "REVERSED"} => Paid(p) # {}
        /\ payout[p] = "REVERSED" => Refunded(p) # {}

\* A creator is never credited for the reversal of a payout that no earlier
\* entry had debited.
ReversalFollowsDebit ==
    \A p \in Payouts : \A i \in Refunded(p) : \E j \in Paid(p) : j < i

-----------------------------------------------------------------------------
(***************************************************************************)
(* Properties that hold only under assumptions on the admins               *)
(***************************************************************************)

\* docs/ARCHITECTURE.md, "Admin surface": marking a payout PAID can't pay out
\* more than a creator has earned.  Every committed debit leaves the available
\* balance at zero or above.
PayoutsCovered ==
    [][\A c \in Creators :
          Len(ledger'[c]) > Len(ledger[c])
            /\ ledger'[c][Len(ledger'[c])].type = "PAYOUT"
          => wallet'[c].available >= 0]_allVars

\* While no request about it runs, the ledger holds one unreversed debit of a
\* PAID payout and none of any other: no payout is paid or refunded twice.
SettledOnce ==
    \A p \in Payouts :
        (\A h \in Handlers : ~Concerns(h, PayoutCreator[p])) =>
            Cardinality(Paid(p))
              = Cardinality(Refunded(p)) + (IF payout[p] = "PAID" THEN 1 ELSE 0)

\* Without crashes, a debit that reached the ledger is shown on the payout.
DebitIsRecorded ==
    \A h \in Handlers, p \in Payouts :
        (pc[h] = "ok" /\ request[h] = [goal |-> "PAID", payout |-> p])
            ~> payout[p] = "PAID"
=============================================================================
