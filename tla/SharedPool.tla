------------------------------ MODULE SharedPool ------------------------------
(***************************************************************************)
(* The view pipeline and the pool that is shared by what it has counted.   *)
(***************************************************************************)
EXTENDS ViewPipeline, RevenuePool

CONSTANTS
    Others,      \* chapters of other creators
    OthersViews, \* qualified views each of Others may have
    Pools        \* amounts to share

ASSUME SharingAssumption ==
    /\ IsFiniteSet(Parts) /\ IsFiniteSet(Others)
    /\ OthersViews \subseteq Nat /\ Pools \subseteq Nat

\* The qualified views of a period.
ViewsWith(others) ==
    [c \in Parts \cup Others |-> IF c \in Parts THEN counts[c]["QUALIFIED"] ELSE others[c]]

\* docs/REVENUE.md, "proportional to each creator's qualified views": whatever the
\* pipeline has counted and other creators have been read, the
\* pool is shared fairly, down to the last cent.
PoolShared ==
    \A pool \in Pools, others \in [Others -> OthersViews] :
        \A shares \in AllocateCreatorPool(pool, ViewsWith(others)) :
            FairAllocation(pool, ViewsWith(others), shares)
=============================================================================
