----------------------------- MODULE ViewProofs -----------------------------
(***************************************************************************)
(* The view pipeline implements ViewCounter, for any readings and parts,   *)
(* any number of retries and any number of jobs at once; and what it has   *)
(* counted is the basis of a fair allocation.                              *)
(***************************************************************************)
EXTENDS SharedPool, RevenueProofs

\* How often v may still be counted: its event is on the way, and so is the run
\* of a worker that lost its lock.
Credit == [v \in Readings |->
             (IF page[v] # "sent" \/ job[v] \in {"wire", "waiting", "active", "read"} THEN 1 ELSE 0)
             + (IF ghost[v] # "none" THEN 1 ELSE 0)]

\* A reading has a job from when its event is sent.
SentOnce == \A v \in Readings : page[v] = "sent" <=> job[v] # "unsent"

\* The worker has slots for the jobs that run.
SlotsHeld == IsFiniteSet(Running) /\ Cardinality(Running) <= Concurrency

Typed ==
    /\ page \in [Readings -> {"closed", "open", "sent"}]
    /\ level \in [Readings -> {"RAW", "VALID", "QUALIFIED"}]
    /\ job \in [Readings -> Phases] /\ earns \in [Readings -> BOOLEAN]
    /\ ghost \in [Readings -> {"none", "active", "earns", "free"}]
    /\ stalls \in [Readings -> 0..MaxStalls] /\ public \in [Parts -> BOOLEAN]
    /\ counts \in [Parts -> Counter!Counters] /\ up \in BOOLEAN

VInv == Typed /\ SentOnce

LEMMA InitVInv == Init => VInv /\ SlotsHeld
  <1> SUFFICES ASSUME Init PROVE VInv /\ SlotsHeld
    OBVIOUS
  <1>1. Typed
    BY PipelineAssumption DEF Init, Typed, Phases, Counter!Counters
  <1>2. SentOnce
    BY DEF Init, SentOnce
  <1>3. Running = {}
    BY DEF Init, Running
  <1> QED
    BY <1>1, <1>2, <1>3, FS_EmptySet, PipelineAssumption DEF VInv, SlotsHeld

LEMMA CountedTyped ==
    ASSUME NEW c \in Counter!Counters, NEW s
    PROVE  Increment(c, s) \in Counter!Counters
  BY DEF Increment, Counter!Counted, Counter!Counters

LEMMA CountTyped ==
    ASSUME Typed, NEW v \in Readings, NEW m, CountView(v, m)
    PROVE  counts' \in [Parts -> Counter!Counters]
  <1>1. PartOf[v] \in Parts /\ counts[PartOf[v]] \in Counter!Counters
    BY PipelineAssumption DEF Typed
  <1>2. Increment(counts[PartOf[v]], Stage(v, m)) \in Counter!Counters
    BY <1>1, CountedTyped
  <1> QED
    BY <1>1, <1>2 DEF CountView, Typed

LEMMA NextVInv == VInv /\ [Next]_vars => VInv'
  <1> SUFFICES ASSUME VInv, [Next]_vars PROVE VInv'
    OBVIOUS
  <1> USE DEF VInv
  <1>1. ASSUME NEW v \in Readings, Open(v) \/ Stay(v) \/ Send(v) PROVE VInv'
    BY <1>1 DEF Open, Stay, Send, queueVars, Typed, SentOnce, Phases
  <1>2. ASSUME NEW v \in Readings,
               Lose(v) \/ Enqueue(v) \/ Take(v) \/ ReadStatus(v) \/ Complete(v) \/ Fail(v)
        PROVE  VInv'
    <2>1. /\ UNCHANGED <<readerVars, ghost, stalls, public, counts, up>>
          /\ job[v] # "unsent"
          /\ \E to \in Phases \ {"unsent"} : job' = [job EXCEPT ![v] = to]
      BY <1>2 DEF Lose, Enqueue, Take, ReadStatus, Complete, Fail, Move, Phases
    <2>2. earns' \in [Readings -> BOOLEAN]
      <3>1. public[PartOf[v]] \in BOOLEAN
        BY PipelineAssumption DEF Typed
      <3> QED
        BY <1>2, <3>1 DEF Lose, Enqueue, Take, ReadStatus, Complete, Fail, Typed
    <2> QED
      BY <2>1, <2>2 DEF readerVars, Typed, SentOnce
  <1>3. ASSUME NEW v \in Readings, Upsert(v) PROVE VInv'
    <2>1. counts' \in [Parts -> Counter!Counters]
      BY <1>3, CountTyped DEF Upsert
    <2> QED
      BY <1>3, <2>1 DEF Upsert, Move, readerVars, Typed, SentOnce, Phases
  <1>4. ASSUME NEW v \in Readings, Stall(v) PROVE VInv'
    <2>1. stalls' \in [Readings -> 0..MaxStalls]
      BY <1>4, PipelineAssumption DEF Stall, Requeue, Typed
    <2>2. ghost' \in [Readings -> {"none", "active", "earns", "free"}]
      BY <1>4 DEF Stall, Running, Typed
    <2>3. job' \in [Readings -> Phases] /\ SentOnce'
      BY <1>4 DEF Stall, Requeue, Running, readerVars, Typed, SentOnce, Phases
    <2> QED
      BY <1>4, <2>1, <2>2, <2>3 DEF Stall, readerVars, Typed
  <1>5. ASSUME NEW v \in Readings, GhostReads(v) PROVE VInv'
    BY <1>5 DEF GhostReads, readerVars, Typed, SentOnce
  <1>6. ASSUME NEW v \in Readings, GhostEnds(v) PROVE VInv'
    <2>1. counts' \in [Parts -> Counter!Counters]
      <3>1. CASE UNCHANGED counts
        BY <3>1 DEF Typed
      <3>2. CASE CountView(v, ghost[v] = "earns")
        BY <3>2, CountTyped
      <3> QED
        BY <1>6, <3>1, <3>2 DEF GhostEnds
    <2> QED
      BY <1>6, <2>1 DEF GhostEnds, readerVars, Typed, SentOnce
  <1>7. ASSUME NEW p \in Parts, Toggle(p) PROVE VInv'
    BY <1>7 DEF Toggle, readerVars, queueVars, Typed, SentOnce
  <1>8. CASE Stop \/ Start \/ UNCHANGED vars
    BY <1>8 DEF Stop, Start, vars, readerVars, queueVars, Typed, SentOnce
  <1> QED
    BY <1>1, <1>2, <1>3, <1>4, <1>5, <1>6, <1>7, <1>8 DEF Next, Run

LEMMA RunningFits ==
    ASSUME SlotsHeld, NEW S, S \subseteq Running
    PROVE  IsFiniteSet(S) /\ Cardinality(S) <= Concurrency
  <1>1. IsFiniteSet(S) /\ Cardinality(S) <= Cardinality(Running)
    BY FS_Subset DEF SlotsHeld
  <1>2. Cardinality(S) \in Nat /\ Cardinality(Running) \in Nat
    BY <1>1, FS_CardinalityType DEF SlotsHeld
  <1> QED
    BY <1>1, <1>2, PipelineAssumption DEF SlotsHeld

\* Only Take adds a running job, and it looks for a slot.
LEMMA NextSlots == VInv /\ SlotsHeld /\ [Next]_vars => SlotsHeld'
  <1> SUFFICES ASSUME VInv, SlotsHeld, [Next]_vars PROVE SlotsHeld'
    OBVIOUS
  <1>1. CASE Running' \subseteq Running
    BY <1>1, RunningFits DEF SlotsHeld
  <1>2. ASSUME NEW v \in Readings, Take(v) PROVE SlotsHeld'
    <2>1. Running' = Running \cup {v} /\ Cardinality(Running) < Concurrency
      BY <1>2 DEF Take, Move, Running, VInv, Typed
    <2>2. IsFiniteSet(Running) /\ Cardinality(Running) \in Nat
      BY FS_CardinalityType DEF SlotsHeld
    <2>3. v \notin Running
      BY <1>2 DEF Take, Move, Running
    <2>4. IsFiniteSet(Running \cup {v}) /\ Cardinality(Running \cup {v}) = Cardinality(Running) + 1
      BY <2>2, <2>3, FS_AddElement
    <2>5. IsFiniteSet(Running') /\ Cardinality(Running') <= Concurrency
      BY <2>1, <2>2, <2>4, PipelineAssumption
    <2> QED
      BY <2>5 DEF SlotsHeld
  <1>3. CASE UNCHANGED job
    BY <1>1, <1>3 DEF Running
  <1>4. ASSUME NEW v \in Readings,
               Send(v) \/ Lose(v) \/ Enqueue(v) \/ Run(v) \/ Fail(v) \/ Stall(v)
        PROVE  SlotsHeld'
    <2>1. \E to : /\ job' = [job EXCEPT ![v] = to]
                  /\ to \in {"active", "read", "counted"} => v \in Running
      BY <1>4 DEF Send, Lose, Enqueue, Run, ReadStatus, Upsert, Complete, Fail, Stall, Requeue,
         Move, Running
    <2>2. Running' \subseteq Running
      BY <2>1 DEF Running, VInv, Typed
    <2> QED
      BY <1>1, <2>2
  <1>5. ASSUME NEW v \in Readings, Open(v) \/ Stay(v) \/ GhostReads(v) \/ GhostEnds(v)
        PROVE  SlotsHeld'
    BY <1>3, <1>5 DEF Open, Stay, GhostReads, GhostEnds, queueVars
  <1>6. ASSUME NEW p \in Parts, Toggle(p) PROVE SlotsHeld'
    BY <1>3, <1>6 DEF Toggle, queueVars
  <1>7. CASE Stop \/ Start \/ UNCHANGED vars
    BY <1>3, <1>7 DEF Stop, Start, vars, queueVars
  <1> QED
    BY <1>2, <1>4, <1>5, <1>6, <1>7 DEF Next

\* Types; and whatever stalls, is handed out again or outlives its lock, the
\* worker never runs more jobs than it has slots for.
THEOREM PipelineTypeCorrect == Spec => []TypeOK
  <1>1. VInv /\ SlotsHeld => TypeOK
    BY DEF VInv, Typed, SlotsHeld, TypeOK
  <1> QED
    BY <1>1, InitVInv, NextVInv, NextSlots, PTL DEF Spec

-----------------------------------------------------------------------------
(***************************************************************************)
(* The refinement                                                          *)
(***************************************************************************)

\* The abstract steps, with the credit written out.
LEMMA Mapped ==
    /\ Counter!vars = <<counts, level, Credit, stalls>>
    /\ Counter!vars' = <<counts', level', Credit', stalls'>>
  BY DEF Counter!vars, Credit

LEMMA MapsRead ==
    ASSUME NEW v \in Readings, UNCHANGED <<counts, stalls>>, Credit' = Credit,
           \E s \in {"VALID", "QUALIFIED"} :
              Counter!Rank[s] > Counter!Rank[level[v]] /\ level' = [level EXCEPT ![v] = s]
    PROVE  Counter!Next
  BY DEF Counter!Next, Counter!Read, Credit

\* One credit of v is used up.
Used(v) == Credit[v] > 0 /\ Credit' = [Credit EXCEPT ![v] = @ - 1] /\ UNCHANGED <<level, stalls>>

LEMMA MapsForfeit ==
    ASSUME NEW v \in Readings, Used(v), UNCHANGED counts
    PROVE  Counter!Next
  BY DEF Used, Counter!Next, Counter!Forfeit, Credit

LEMMA MapsCount ==
    ASSUME Typed, NEW v \in Readings, Used(v), NEW m \in BOOLEAN, CountView(v, m)
    PROVE  Counter!Next
  <1> DEFINE s == Stage(v, m)
  <1>1. s \in Counter!Stages
    BY DEF Stage, Counter!Stages, Typed
  <1>2. Counter!Rank[s] <= Counter!Rank[level[v]] \/ (s = "MONETIZED" /\ level[v] = "QUALIFIED")
    BY DEF Stage, Counter!Rank, Typed
  <1>3. counts' = [counts EXCEPT ![PartOf[v]] = Counter!Counted(@, s)]
    BY DEF CountView, Increment
  <1> HIDE DEF s
  <1>4. Counter!Count(v)
    BY <1>1, <1>2, <1>3 DEF Used, Counter!Count, Credit
  <1> QED
    BY <1>4 DEF Counter!Next

LEMMA MapsGrant ==
    ASSUME NEW v \in Readings, UNCHANGED <<counts, level>>, stalls[v] < MaxStalls,
           stalls' = [stalls EXCEPT ![v] = @ + 1],
           Credit' = Credit \/ Credit' = [Credit EXCEPT ![v] = @ + 1]
    PROVE  Counter!Next
  BY DEF Counter!Next, Counter!Grant, Credit

\* A step about one reading changes the credit of no other.
LEMMA CreditMoves ==
    ASSUME NEW v \in Readings,
           \A u \in Readings \ {v} :
              page'[u] = page[u] /\ job'[u] = job[u] /\ ghost'[u] = ghost[u]
    PROVE  /\ Credit[v] \in 0..2
           /\ Credit'[v] = Credit[v] => Credit' = Credit
           /\ Credit'[v] = Credit[v] - 1 => Credit' = [Credit EXCEPT ![v] = @ - 1]
           /\ Credit'[v] = Credit[v] + 1 => Credit' = [Credit EXCEPT ![v] = @ + 1]
  <1>1. \A u \in Readings \ {v} : Credit'[u] = Credit[u]
    BY DEF Credit
  <1>2. Credit[v] \in 0..2
    BY DEF Credit
  <1>3. /\ Credit = [u \in Readings |-> Credit[u]]
        /\ Credit' = [u \in Readings |-> Credit'[u]]
    BY DEF Credit
  <1> QED
    BY <1>1, <1>2, <1>3

\* The abstract pipeline does not see the step.
Unseen == UNCHANGED <<counts, level, Credit, stalls>>

LEMMA ReaderMaps ==
    ASSUME VInv, NEW v \in Readings, Open(v) \/ Stay(v) \/ Send(v)
    PROVE  Counter!Next \/ Unseen
  <1>1. CASE Open(v) \/ Send(v)
    <2>1. /\ \A u \in Readings \ {v} :
                page'[u] = page[u] /\ job'[u] = job[u] /\ ghost'[u] = ghost[u]
          /\ Credit'[v] = Credit[v]
      BY <1>1 DEF Open, Send, queueVars, Credit, VInv, Typed
    <2> QED
      BY <1>1, <2>1, CreditMoves DEF Open, Send, queueVars, Unseen
  <1>2. CASE Stay(v)
    <2>1. Credit' = Credit /\ UNCHANGED <<counts, stalls>>
      BY <1>2 DEF Stay, queueVars, Credit
    <2>2. \E s \in {"VALID", "QUALIFIED"} :
              Counter!Rank[s] > Counter!Rank[level[v]] /\ level' = [level EXCEPT ![v] = s]
      <3> DEFINE s == IF level[v] = "RAW" THEN "VALID" ELSE "QUALIFIED"
      <3>1. level' = [level EXCEPT ![v] = s] /\ level[v] \in {"RAW", "VALID"}
        BY <1>2 DEF Stay, VInv, Typed
      <3>2. s \in {"VALID", "QUALIFIED"} /\ Counter!Rank[s] > Counter!Rank[level[v]]
        BY <3>1 DEF Counter!Rank
      <3> QED
        BY <3>1, <3>2
    <2> QED
      BY <2>1, <2>2, MapsRead
  <1> QED
    BY <1>1, <1>2

LEMMA JobMaps ==
    ASSUME VInv, NEW v \in Readings,
           \/ Lose(v) \/ Enqueue(v) \/ Take(v) \/ Run(v) \/ Fail(v)
           \/ GhostReads(v) \/ GhostEnds(v)
    PROVE  Counter!Next \/ Unseen
  <1>1. \A u \in Readings \ {v} : page'[u] = page[u] /\ job'[u] = job[u] /\ ghost'[u] = ghost[u]
    BY DEF Lose, Enqueue, Take, Run, ReadStatus, Upsert, Complete, Fail, GhostReads, GhostEnds,
       Move, readerVars, VInv, Typed
  <1>2. CASE Enqueue(v) \/ Take(v) \/ ReadStatus(v) \/ Complete(v) \/ GhostReads(v)
    <2>1. Credit'[v] = Credit[v]
      BY <1>2 DEF Enqueue, Take, ReadStatus, Complete, GhostReads, Move, readerVars, Credit,
         VInv, Typed
    <2> QED
      BY <1>1, <1>2, <2>1, CreditMoves
      DEF Enqueue, Take, ReadStatus, Complete, GhostReads, readerVars, Unseen
  <1>3. CASE Lose(v) \/ Fail(v)
    <2>1. page[v] = "sent"
      BY <1>3 DEF Lose, Fail, Move, VInv, SentOnce
    <2>2. Credit'[v] = Credit[v] - 1 /\ Credit[v] > 0
      BY <1>3, <2>1 DEF Lose, Fail, Move, readerVars, Credit, VInv, Typed
    <2>3. Used(v) /\ UNCHANGED counts
      BY <1>1, <1>3, <2>2, CreditMoves DEF Lose, Fail, readerVars, Used
    <2> QED
      BY <2>3, MapsForfeit
  <1>4. CASE Upsert(v)
    <2>1. page[v] = "sent"
      BY <1>4 DEF Upsert, Move, VInv, SentOnce
    <2>2. Credit'[v] = Credit[v] - 1 /\ Credit[v] > 0
      BY <1>4, <2>1 DEF Upsert, Move, readerVars, Credit, VInv, Typed
    <2>3. Used(v)
      BY <1>1, <1>4, <2>2, CreditMoves DEF Upsert, readerVars, Used
    <2>4. earns[v] \in BOOLEAN /\ CountView(v, earns[v])
      BY <1>4 DEF Upsert, VInv, Typed
    <2> QED
      BY <2>3, <2>4, MapsCount DEF VInv
  <1>5. CASE GhostEnds(v)
    <2>1. Credit'[v] = Credit[v] - 1 /\ Credit[v] > 0
      BY <1>5 DEF GhostEnds, readerVars, Credit, VInv, Typed
    <2>2. Used(v)
      BY <1>1, <1>5, <2>1, CreditMoves DEF GhostEnds, readerVars, Used
    <2>3. CASE UNCHANGED counts
      BY <2>2, <2>3, MapsForfeit
    <2>4. CASE CountView(v, ghost[v] = "earns")
      BY <2>2, <2>4, MapsCount DEF VInv
    <2> QED
      BY <1>5, <2>3, <2>4 DEF GhostEnds
  <1> QED
    BY <1>2, <1>3, <1>4, <1>5 DEF Run

\* A retry is granted if there is one left; given up, the event may still be
\* counted by the run that lost its lock.
LEMMA StallMaps ==
    ASSUME VInv, NEW v \in Readings, Stall(v)
    PROVE  Counter!Next \/ Unseen
  <1>1. /\ job[v] \in {"active", "read", "counted"} /\ page[v] = "sent" /\ ghost[v] = "none"
        /\ UNCHANGED <<page, level, counts>>
    BY DEF Stall, Running, readerVars, VInv, SentOnce
  <1>2. /\ \A u \in Readings \ {v} : page'[u] = page[u] /\ job'[u] = job[u] /\ ghost'[u] = ghost[u]
        /\ job[v] = "counted" => ghost'[v] = "none"
    BY <1>1 DEF Stall, Requeue, VInv, Typed
  <1>3. CASE stalls[v] < MaxStalls
    <2>1. job'[v] = "waiting" /\ stalls' = [stalls EXCEPT ![v] = @ + 1]
      BY <1>3 DEF Stall, Requeue, VInv, Typed
    <2>2. Credit'[v] = Credit[v] \/ Credit'[v] = Credit[v] + 1
      BY <1>1, <1>2, <2>1 DEF Credit
    <2> QED
      BY <1>1, <1>2, <1>3, <2>1, <2>2, CreditMoves, MapsGrant
  <1>4. CASE ~(stalls[v] < MaxStalls)
    <2>1. job'[v] = "failed" /\ stalls' = stalls
      BY <1>4 DEF Stall, Requeue, VInv, Typed
    <2>2. Credit'[v] = Credit[v] \/ (Credit'[v] = Credit[v] - 1 /\ Credit[v] > 0)
      BY <1>1, <1>2, <2>1 DEF Credit
    <2>3. CASE Credit'[v] = Credit[v]
      BY <1>1, <1>2, <2>1, <2>3, CreditMoves DEF Unseen
    <2>4. CASE Credit'[v] = Credit[v] - 1 /\ Credit[v] > 0
      BY <1>1, <1>2, <2>1, <2>4, CreditMoves, MapsForfeit DEF Used
    <2> QED
      BY <2>2, <2>3, <2>4
  <1> QED
    BY <1>3, <1>4

LEMMA StepMaps == VInv /\ [Next]_vars => [Counter!Next]_(Counter!vars)
  <1> SUFFICES ASSUME VInv, [Next]_vars PROVE Counter!Next \/ Unseen
    BY Mapped DEF Unseen
  <1>1. ASSUME NEW p \in Parts, Toggle(p) PROVE Unseen
    BY <1>1 DEF Toggle, readerVars, queueVars, Unseen, Credit
  <1>2. CASE Stop \/ Start \/ UNCHANGED vars
    BY <1>2 DEF Stop, Start, vars, readerVars, queueVars, Unseen, Credit
  <1> QED
    BY <1>1, <1>2, ReaderMaps, JobMaps, StallMaps DEF Next

LEMMA InitMaps == Init => Counter!Init
  BY DEF Init, Counter!Init, Counter!Counters

\* Lost beacons, dying workers, runs that outlive their lock and restarts lose
\* views, or count one again for each retry of a stalled job, and nothing else.
THEOREM PipelineImplementsCounter == Spec => ImplementsCounter
  BY InitVInv, NextVInv, InitMaps, StepMaps, PTL DEF Spec, ImplementsCounter, Counter!Spec

-----------------------------------------------------------------------------
(***************************************************************************)
(* Sharing the pool                                                        *)
(***************************************************************************)

\* Who shares the pool, and that they are few: 141 at most.
Sharing == Parts \cup Others
Few     == Cardinality(Sharing) * (Cardinality(Sharing) - 1) <= 20000

LEMMA CountedShare ==
    ASSUME VInv, Few, NEW pool \in Pools, NEW others \in [Others -> OthersViews],
           NEW shares \in AllocateCreatorPool(pool, ViewsWith(others))
    PROVE  FairAllocation(pool, ViewsWith(others), shares)
  <1> DEFINE views == ViewsWith(others)
  <1>1. DOMAIN views = Sharing /\ IsFiniteSet(Sharing)
    BY SharingAssumption, FS_Union DEF ViewsWith, Sharing
  <1>2. ASSUME NEW c \in Sharing PROVE views[c] \in Nat
    <2>1. views[c] = IF c \in Parts THEN counts[c]["QUALIFIED"] ELSE others[c]
      BY <1>2 DEF ViewsWith, Sharing
    <2>2. CASE c \in Parts
      <3>1. counts[c] \in Counter!Counters
        BY <2>2 DEF VInv, Typed
      <3> QED
        BY <2>1, <2>2, <3>1 DEF Counter!Counters, Counter!Stages
    <2>3. CASE c \notin Parts
      <3>1. c \in Others /\ others[c] \in OthersViews
        BY <1>2, <2>3 DEF Sharing
      <3> QED
        BY <2>1, <2>3, <3>1, SharingAssumption
    <2> QED
      BY <2>2, <2>3
  <1>3. pool \in Nat
    BY SharingAssumption
  <1> HIDE DEF views
  <1>4. FewCreators(views)
    BY <1>1 DEF FewCreators, Few
  <1>5. FairAllocation(pool, views, shares)
    BY <1>1, <1>2, <1>3, <1>4, FairlyAllocated DEF views
  <1> QED
    BY <1>5 DEF views

\* docs/REVENUE.md: while no more than 141 share it, the pool is shared fairly whatever
\* the pipeline has counted.
THEOREM SharedAmongFew == Few => (Spec => []PoolShared)
  <1> SUFFICES ASSUME Few PROVE Spec => []PoolShared
    OBVIOUS
  <1>1. VInv => PoolShared
    BY CountedShare DEF PoolShared
  <1> QED
    BY <1>1, InitVInv, NextVInv, PTL DEF Spec
=============================================================================
