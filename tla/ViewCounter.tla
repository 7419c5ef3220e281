----------------------------- MODULE ViewCounter -----------------------------
(***************************************************************************)
(* What the view pipeline promises of content_views (docs/REVENUE.md): a   *)
(* reading is counted at most once, at a stage that its reader reached and *)
(* that includes the stages before it.  A worker that loses its lock may   *)
(* be granted another go at the event, at most MaxStalls times.            *)
(***************************************************************************)
EXTENDS Integers

CONSTANTS
    Parts,       \* chapters
    Readings,    \* mounts of a chapter's page
    PartOf,      \* the chapter of each
    MaxStalls    \* how often the queue retries a stalled job

Stages == {"RAW", "VALID", "QUALIFIED", "MONETIZED"}
Rank   == [RAW |-> 1, VALID |-> 2, QUALIFIED |-> 3, MONETIZED |-> 4]

Counters == [Stages -> Nat]

\* A view of stage s also counts as one of every stage before.
Counted(c, s) == [t \in Stages |-> IF Rank[t] <= Rank[s] THEN c[t] + 1 ELSE c[t]]

VARIABLES
    counts,      \* counts[p]: the row of chapter p and the day
    level,       \* level[v]: the stage that v's reader has reached, short of money
    credit,      \* credit[v]: how often v may still be counted
    grants       \* grants[v]: how often it was retried

vars == <<counts, level, credit, grants>>

Init ==
    /\ counts \in [Parts -> Counters]
    /\ level = [v \in Readings |-> "RAW"]
    /\ credit = [v \in Readings |-> 1]
    /\ grants = [v \in Readings |-> 0]

Read(v) ==
    /\ \E s \in {"VALID", "QUALIFIED"} :
          Rank[s] > Rank[level[v]] /\ level' = [level EXCEPT ![v] = s]
    /\ UNCHANGED <<counts, credit, grants>>

Count(v) ==
    /\ credit[v] > 0
    /\ \E s \in Stages :
          /\ Rank[s] <= Rank[level[v]] \/ (s = "MONETIZED" /\ level[v] = "QUALIFIED")
          /\ counts' = [counts EXCEPT ![PartOf[v]] = Counted(@, s)]
    /\ credit' = [credit EXCEPT ![v] = @ - 1]
    /\ UNCHANGED <<level, grants>>

Forfeit(v) ==
    /\ credit[v] > 0
    /\ credit' = [credit EXCEPT ![v] = @ - 1]
    /\ UNCHANGED <<counts, level, grants>>

\* The retry, if the stalled run has counted or may still count.
Grant(v) ==
    /\ grants[v] < MaxStalls
    /\ grants' = [grants EXCEPT ![v] = @ + 1]
    /\ credit' \in {credit, [credit EXCEPT ![v] = @ + 1]}
    /\ UNCHANGED <<counts, level>>

Next == \E v \in Readings : Read(v) \/ Count(v) \/ Forfeit(v) \/ Grant(v)

Spec == Init /\ [][Next]_vars
=============================================================================
