----------------------------- MODULE RevenuePool -----------------------------
(***************************************************************************)
(* Splitting money: packages/shared/src/money.ts and                       *)
(* packages/revenue/src/allocation.ts, in integer arithmetic.              *)
(***************************************************************************)
EXTENDS Integers, FiniteSets, Functions

\* Math.round(part / whole * 100 * 100): hundredths of a percent, half up.
Percentage(part, whole) == (2 * part * 10000 + whole) \div (2 * whole)

\* The floored share of each key, in proportion to its rounded percentage.
Floored(amount, percents, whole) ==
    [k \in DOMAIN percents |-> (amount * percents[k]) \div whole]

\* Mutant: any creator may take the remainder.
Anyone(shares) == DOMAIN shares

\* A largest share; with several, the order of the sort is up to the engine.
Largest(shares) == {k \in DOMAIN shares : \A j \in DOMAIN shares : shares[j] <= shares[k]}

\* Mutant: what the floors leave stays with the platform.
SplitFloored(amount, percents, whole) == {Floored(amount, percents, whole)}

\* splitByPercentage: a largest share takes what the floors leave, or gives back
\* what rounded percentages handed out too much.
SplitByPercentage(amount, percents, whole) ==
    LET floored   == Floored(amount, percents, whole)
        remainder == amount - SumFunction(floored)
    IN {[floored EXCEPT ![k] = @ + remainder] : k \in Largest(floored)}

\* splitRevenuePool: the three percentages of a configuration.
SplitRevenuePool(amount, config) == SplitByPercentage(amount, config, SumFunction(config))

Percentages(views) ==
    LET all == SumFunction(views) IN [c \in DOMAIN views |-> Percentage(views[c], all)]

\* allocateCreatorPool, by the qualified views of each creator.
AllocateCreatorPool(pool, views) ==
    IF SumFunction(views) = 0 THEN {[c \in DOMAIN views |-> 0]}
    ELSE SplitByPercentage(pool, Percentages(views), 10000)

-----------------------------------------------------------------------------

\* The pool is too small to give any creator a whole cent.
TooSmall(pool, views) ==
    LET all == SumFunction(views)
    IN \A c \in DOMAIN views : pool * Percentage(views[c], all) < 10000

\* No cent is lost or invented.
HandsOutAll(pool, views, shares) ==
    SumFunction(shares) = IF SumFunction(views) = 0 THEN 0 ELSE pool

NoneNegative(shares) == \A c \in DOMAIN shares : shares[c] >= 0

\* A share is off its exact proportion by a cent for each creator at most, and by
\* what the rounding of each percentage is worth, half a hundredth of a percent.
InProportion(pool, views, shares) ==
    LET all   == SumFunction(views)
        slack == Cardinality(DOMAIN views) * (20000 + pool)
    IN \A c \in DOMAIN views :
          LET off == shares[c] * all - pool * views[c]
          IN 20000 * off <= slack * all /\ 20000 * off >= -(slack * all)

\* Who has no views gets nothing, unless the pool is too small.
OnlyForViews(pool, views, shares) ==
    SumFunction(views) > 0 /\ ~TooSmall(pool, views) =>
        \A c \in DOMAIN views : views[c] = 0 => shares[c] = 0

\* What an allocation owes to the pool and to the creators.
FairAllocation(pool, views, shares) ==
    /\ HandsOutAll(pool, views, shares)
    /\ NoneNegative(shares)
    /\ InProportion(pool, views, shares)
    /\ OnlyForViews(pool, views, shares)
=============================================================================
