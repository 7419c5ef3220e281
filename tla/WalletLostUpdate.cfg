SPECIFICATION BoundedSpec
CONSTANTS
    NoPayout = NoPayout
    NoWallet = NoWallet
    NoCall = NoCall
    Creators = {c1}
    Handlers = {h1, h2}
    Payouts = {}
    Calls <- AppendCalls
    MaxEntries = 2
INVARIANT Chained
