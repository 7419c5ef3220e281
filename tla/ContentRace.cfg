SPECIFICATION ApartOwnerSpec
CONSTANTS
    NoRow = NoRow
    NoPart = NoPart
    NoRequest = NoRequest
    i1 = i1
    i2 = i2
    p1 = p1
    p2 = p2
    Items = {i1, i2}
    Articles = {i1}
    Parts = {p1, p2}
    Handlers = {h1, h2}
    Readers = {r1}
    ItemOf <- EachItem
    Position <- InOrder
    Requests <- AllRequests
SYMMETRY HandlerSymmetry
INVARIANTS PartFollowsItem DeletedBodyWithheld
PROPERTY PublishedComplete
