SPECIFICATION CarefulSpec
CONSTANTS
    NoPayout = NoPayout
    NoWallet = NoWallet
    NoCall = NoCall
    NoRequest = NoRequest
    c1 = c1
    p1 = p1
    p2 = p2
    Creators = {c1}
    Handlers = {h1, h2}
    Payouts = {p1, p2}
    PayoutCreator <- OneCreator
    PayoutAmount <- Amounts
    Adjustments <- Corrections
    Calls <- MCCalls
    MaxEntries = 4
INVARIANT SettledOnce
PROPERTIES PayoutsCovered DebitIsRecorded
