SPECIFICATION Spec
CONSTANTS
    p1 = p1
    Parts = {p1}
    Others = {c1, c2}
    Readings = {v1, v2}
    PartOf <- OnFirst
    MaxStalls = 1
    Concurrency = 1
    OthersViews = {0, 1}
    Pools = {1, 10, 10000}
INVARIANT PoolShared
PROPERTIES ImplementsCounter JobsSettle
