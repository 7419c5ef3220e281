SPECIFICATION BoundedSerialSpec
CONSTANTS
    NoPayout = NoPayout
    NoWallet = NoWallet
    NoCall = NoCall
    Creators = {c1, c2}
    Handlers = {h1, h2}
    Payouts = {}
    Calls <- FewCalls
    MaxEntries = 2
INVARIANTS Chained TotalsRebuildable
PROPERTY ImplementsAtomic
