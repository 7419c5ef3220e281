---------------------------- MODULE RevenueConfigs ----------------------------
(***************************************************************************)
(* The versions of the revenue split: POST /admin/revenue-configs and the   *)
(* form of app/admin/revenue.  Percentages are in thousandths; the columns *)
(* hold hundredths.                                                        *)
(***************************************************************************)
EXTENDS RevenuePool, Sequences

CONSTANTS
    Posts,          \* submissions that may be under way together
    Splits,         \* the splits submitted
    Pool,           \* an amount to split
    MaxVersions

\* The creators', the platform's and the reserve's part, none negative.
ASSUME ConfigAssumption ==
    /\ MaxVersions \in Nat /\ Pool \in Nat
    /\ Splits \subseteq [1..3 -> Nat]

VARIABLES
    config,      \* the rows of revenue_configs in the order they were written
    post         \* post[p]: a submission

configVars == <<config, post>>

NoPost == [step |-> "none", split |-> <<>>, version |-> 0]

ConfigInit == config = <<>> /\ post = [p \in Posts |-> NoPost]

-----------------------------------------------------------------------------

\* Mutant: any percentages.
AnySum(split) == TRUE

\* The sum may be off by a hundredth of a percent.
SumsUp(split) == LET sum == SumFunction(split) IN sum <= 100010 /\ sum >= 99990

\* The form is submitted, as often as its button is pressed; the percentages are checked.
Submit(p) ==
    /\ post[p].step = "none"
    /\ \E split \in Splits :
         IF SumsUp(split)
         THEN /\ Len(config) < MaxVersions
              /\ post' = [post EXCEPT ![p] = [step |-> "checked", split |-> split, version |-> 0]]
         ELSE UNCHANGED post
    /\ UNCHANGED config

\* The highest version there is.
Versions == {config[n].version : n \in DOMAIN config}
Latest   == CHOOSE v \in {0} \cup Versions : \A w \in Versions : w <= v

\* It is read outside a transaction.
ReadLatest(p) ==
    /\ post[p].step = "checked"
    /\ post' = [post EXCEPT ![p] = [step |-> "read", split |-> @.split, version |-> Latest + 1]]
    /\ UNCHANGED config

\* Decimal(5, 2).
Stored(split) == [k \in DOMAIN split |-> (split[k] + 5) \div 10]

\* Mutant: no unique index.
InsertAny(p) ==
    /\ post[p].step = "read"
    /\ config' = Append(config, [version |-> post[p].version, split |-> Stored(post[p].split)])
    /\ post' = [post EXCEPT ![p] = NoPost]

\* The unique index on the version refuses the later of two that read the same.
Insert(p) ==
    /\ post[p].step = "read"
    /\ config' = IF post[p].version \in Versions THEN config
                 ELSE Append(config, [version |-> post[p].version, split |-> Stored(post[p].split)])
    /\ post' = [post EXCEPT ![p] = NoPost]

ConfigNext == \E p \in Posts : Submit(p) \/ ReadLatest(p) \/ Insert(p)

ConfigSpec == ConfigInit /\ [][ConfigNext]_configVars

-----------------------------------------------------------------------------
(***************************************************************************)
(* Properties                                                              *)
(***************************************************************************)

\* docs/API.md:110, "auto-increments version": versions are 1, 2, 3 and so on in the
\* order they were stored, whatever is submitted at the same time.
VersionsInOrder == \A n \in DOMAIN config : config[n].version = n

\* Splitting by a stored configuration hands out the whole pool, and each part is
\* within its percentage, give or take the two hundredths that were let through and
\* a cent for each part.
SplitsWhole ==
    \A n \in DOMAIN config : \A shares \in SplitRevenuePool(Pool, config[n].split) :
        /\ SumFunction(shares) = Pool
        /\ \A k \in DOMAIN shares :
             LET off == shares[k] * 10000 - Pool * config[n].split[k]
             IN off <= 2 * Pool + 30000 /\ off >= -(2 * Pool + 30000)
=============================================================================
