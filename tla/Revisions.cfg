SPECIFICATION BoundedSpec
CONSTANTS
    None = None
    i1 = i1
    i2 = i2
    i3 = i3
    p1 = p1
    p2 = p2
    p3 = p3
    A = A
    AA = AA
    B = B
    a = a
    a2 = a2
    b = b
    k1 = k1
    x = x
    y = y
    Items = {i1, i2}
    Articles = {i1}
    Parts = {p1, p2, p3}
    ItemOf <- MCItemOf
    Titles = {A, AA, B}
    Slugs = {a, a2, b}
    Candidates <- MCCandidates
    Categories = {k1}
    Bodies = {x, y}
    Requests <- MCRequests
    Handlers = {h1, h2}
    MaxWrites = 3
    MaxChoices = 3
INVARIANTS HistoryComplete RedirectsLeadHome ChaptersInOrder 
PROPERTY RequestsEnd
