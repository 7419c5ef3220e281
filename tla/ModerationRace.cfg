SPECIFICATION BoundedExclusiveSpec
CONSTANTS
    NoRow = NoRow
    NoPart = NoPart
    NoRequest = NoRequest
    NoReport = NoReport
    Items = {i1}
    Articles = {}
    Parts = {}
    Handlers = {}
    Readers = {}
    ItemOf <- NoParts
    Position <- AtOne
    Requests = {}
    Users = {u1}
    Comments = {k1}
    Reports = {m1}
    Moderators = {a1, a2}
    MaxActions = 3
SYMMETRY ModeratorSymmetry
INVARIANTS AuditAccounts ActedOnIsResolved
