----------------------------- MODULE ViewPipeline -----------------------------
(***************************************************************************)
(* From a reader's page to content_views: ChapterViewTracker.tsx in the    *)
(* browser, POST /events/view, the BullMQ queue, the worker                *)
(* (apps/worker/src/index.ts) and aggregateViewEventsBatch.                *)
(*                                                                         *)
(* A job runs in three awaited steps: the SELECT of the content's status,  *)
(* the upsert of the counters, the removal from the queue.  A worker that  *)
(* dies, or that is too busy to renew its lock, is taken for stalled: the  *)
(* queue hands the job out again, and the old run may still go on.  The    *)
(* events of an article's page carry no part and are dropped by the        *)
(* aggregation; they are left out.                                         *)
(***************************************************************************)
EXTENDS Integers, FiniteSets

CONSTANTS
    Parts, Readings, PartOf,           \* as in ViewCounter
    MaxStalls,                         \* BullMQ's maxStalledCount
    Concurrency                        \* jobs that the worker runs at once

Phases == {"unsent", "wire", "waiting", "active", "read", "counted", "done", "failed", "lost"}

ASSUME PipelineAssumption ==
    /\ PartOf \in [Readings -> Parts]
    /\ MaxStalls \in Nat /\ Concurrency \in Nat \ {0}

VARIABLES
    page,        \* page[v]: "closed", "open", or "sent" after the event was sent
    level,       \* level[v]: what the reader's time and depth qualify for, until sent
    job,         \* job[v]: where its event is
    earns,       \* earns[v]: contentIsMonetizable, as the job has read it
    ghost,       \* ghost[v]: "none", or a stalled run that lives on
    stalls,      \* stalls[v]: how often the job stalled
    public,      \* public[p]: the content of p is PUBLISHED and PUBLIC
    counts,      \* counts[p]: the content_views row of p and the day
    up           \* the worker takes jobs

readerVars == <<page, level>>
queueVars  == <<job, earns, ghost, stalls>>
vars       == <<readerVars, queueVars, public, counts, up>>

Counter == INSTANCE ViewCounter WITH
    credit <- [v \in Readings |->
                 (IF page[v] # "sent" \/ job[v] \in {"wire", "waiting", "active", "read"} THEN 1 ELSE 0)
                 + (IF ghost[v] # "none" THEN 1 ELSE 0)],
    grants <- stalls

Init ==
    /\ page = [v \in Readings |-> "closed"]
    /\ level = [v \in Readings |-> "RAW"]
    /\ job = [v \in Readings |-> "unsent"]
    /\ earns = [v \in Readings |-> FALSE] /\ ghost = [v \in Readings |-> "none"]
    /\ stalls = [v \in Readings |-> 0]
    /\ public \in [Parts -> BOOLEAN]
    /\ counts = [p \in Parts |-> [s \in Counter!Stages |-> 0]]
    /\ up = TRUE

-----------------------------------------------------------------------------
(***************************************************************************)
(* The reader's browser                                                    *)
(***************************************************************************)

Open(v) ==
    /\ page[v] = "closed"
    /\ page' = [page EXCEPT ![v] = "open"]
    /\ UNCHANGED <<level, queueVars, public, counts, up>>

\* qualifyView's stages by time on the page (3 s, 20 s) and depth, short of money.
\* Time and depth only grow; what comes after the event was sent is not reported.
Stay(v) ==
    /\ page[v] = "open" /\ level[v] # "QUALIFIED"
    /\ level' = [level EXCEPT ![v] = IF @ = "RAW" THEN "VALID" ELSE "QUALIFIED"]
    /\ UNCHANGED <<page, queueVars, public, counts, up>>

\* Mutant: sentRef is not looked at.
SendEachTime(v) ==
    /\ page[v] # "closed" /\ job[v] \in {"unsent", "done"}
    /\ page' = [page EXCEPT ![v] = "sent"]
    /\ job' = [job EXCEPT ![v] = "wire"]
    /\ UNCHANGED <<level, earns, ghost, stalls, public, counts, up>>

\* The tab is hidden or left, or the effect is cleaned up; sentRef lets only the
\* first of them through.
Send(v) ==
    /\ page[v] = "open"
    /\ page' = [page EXCEPT ![v] = "sent"]
    /\ job' = [job EXCEPT ![v] = "wire"]
    /\ UNCHANGED <<level, earns, ghost, stalls, public, counts, up>>

-----------------------------------------------------------------------------
(***************************************************************************)
(* The queue and the worker                                                *)
(***************************************************************************)

Move(v, from, to) ==
    /\ job[v] = from
    /\ job' = [job EXCEPT ![v] = to]

\* The beacon is lost, limited (429) or refused, or the API dies before the add.
Lose(v) ==
    /\ Move(v, "wire", "lost")
    /\ UNCHANGED <<readerVars, earns, ghost, stalls, public, counts, up>>

\* POST /events/view: enqueue, then 202.
Enqueue(v) ==
    /\ Move(v, "wire", "waiting")
    /\ UNCHANGED <<readerVars, earns, ghost, stalls, public, counts, up>>

Running == {v \in Readings : job[v] \in {"active", "read", "counted"}}

\* The worker takes a job.
Take(v) ==
    /\ up /\ Cardinality(Running) < Concurrency
    /\ Move(v, "waiting", "active")
    /\ UNCHANGED <<readerVars, earns, ghost, stalls, public, counts, up>>

\* The SELECT of the content's status and visibility.
ReadStatus(v) ==
    /\ Move(v, "active", "read")
    /\ earns' = [earns EXCEPT ![v] = public[PartOf[v]]]
    /\ UNCHANGED <<readerVars, ghost, stalls, public, counts, up>>

\* Mutant: a view that earns skips the stages before.
StageOnly(c, s) == [c EXCEPT ![s] = @ + 1]

\* aggregateViewStages of one event, as increments.
Increment(c, s) == Counter!Counted(c, s)

\* qualifyView: a qualified view earns if the content could.
Stage(v, monetizable) == IF level[v] = "QUALIFIED" /\ monetizable THEN "MONETIZED" ELSE level[v]

CountView(v, monetizable) ==
    counts' = [counts EXCEPT ![PartOf[v]] = Increment(@, Stage(v, monetizable))]

Upsert(v) ==
    /\ Move(v, "read", "counted")
    /\ CountView(v, earns[v])
    /\ earns' = [earns EXCEPT ![v] = FALSE]
    /\ UNCHANGED <<readerVars, ghost, stalls, public, up>>

\* removeOnComplete.
Complete(v) ==
    /\ Move(v, "counted", "done")
    /\ UNCHANGED <<readerVars, earns, ghost, stalls, public, counts, up>>

\* A statement throws.  The job has no attempts left: it failed.
Fail(v) ==
    /\ job[v] \in {"active", "read"}
    /\ job' = [job EXCEPT ![v] = "failed"]
    /\ earns' = [earns EXCEPT ![v] = FALSE]
    /\ UNCHANGED <<readerVars, ghost, stalls, public, counts, up>>

\* Mutant: a stalled job is never given up.
RequeueAlways(v) == stalls' = stalls /\ job' = [job EXCEPT ![v] = "waiting"]

\* The queue hands a stalled job out again, or gives it up.
Requeue(v) ==
    IF stalls[v] < MaxStalls
    THEN /\ stalls' = [stalls EXCEPT ![v] = @ + 1]
         /\ job' = [job EXCEPT ![v] = "waiting"]
    ELSE /\ job' = [job EXCEPT ![v] = "failed"]
         /\ UNCHANGED stalls

\* The lock of a running job expires.  If its worker lives, the run goes on where
\* it was: "active", or with what it has read.
Stall(v) ==
    /\ v \in Running /\ ghost[v] = "none"
    /\ Requeue(v)
    /\ ghost' \in {ghost, [ghost EXCEPT ![v] = CASE job[v] = "active" -> "active"
                                                [] job[v] = "read" /\ earns[v] -> "earns"
                                                [] job[v] = "read" /\ ~earns[v] -> "free"
                                                [] job[v] = "counted" -> "none"]}
    /\ earns' = [earns EXCEPT ![v] = FALSE]
    /\ UNCHANGED <<readerVars, public, counts, up>>

GhostReads(v) ==
    /\ ghost[v] = "active"
    /\ ghost' = [ghost EXCEPT ![v] = IF public[PartOf[v]] THEN "earns" ELSE "free"]
    /\ UNCHANGED <<readerVars, job, earns, stalls, public, counts, up>>

\* The stalled run counts, or dies with its worker.
GhostEnds(v) ==
    /\ ghost[v] # "none"
    /\ ghost' = [ghost EXCEPT ![v] = "none"]
    /\ \/ ghost[v] # "active" /\ CountView(v, ghost[v] = "earns")
       \/ UNCHANGED counts
    /\ UNCHANGED <<readerVars, job, earns, stalls, public, up>>

\* SIGTERM: worker.close waits for the running jobs and takes no new ones; and
\* the next start.
Stop  == up /\ up' = FALSE /\ UNCHANGED <<readerVars, queueVars, public, counts>>
Start == ~up /\ Running = {} /\ up' = TRUE /\ UNCHANGED <<readerVars, queueVars, public, counts>>

\* The creator or a moderator publishes or hides the content.
Toggle(p) ==
    /\ public' = [public EXCEPT ![p] = ~@]
    /\ UNCHANGED <<readerVars, queueVars, counts, up>>

-----------------------------------------------------------------------------

Run(v) == ReadStatus(v) \/ Upsert(v) \/ Complete(v)

Next ==
    \/ \E v \in Readings : \/ Open(v) \/ Stay(v) \/ Send(v)
                           \/ Lose(v) \/ Enqueue(v) \/ Take(v) \/ Run(v) \/ Fail(v)
                           \/ Stall(v) \/ GhostReads(v) \/ GhostEnds(v)
    \/ \E p \in Parts : Toggle(p)
    \/ Stop \/ Start

\* The event loop runs what was awaited, a deployment starts the worker again,
\* and BullMQ hands waiting jobs out in their order.
Fairness ==
    /\ \A v \in Readings : WF_vars(Run(v)) /\ SF_vars(Take(v))
    /\ WF_vars(Start)

Spec == Init /\ [][Next]_vars /\ Fairness

-----------------------------------------------------------------------------
(***************************************************************************)
(* Properties                                                              *)
(***************************************************************************)

\* Types, and that the worker never runs more jobs than it has slots for.
TypeOK ==
    /\ page \in [Readings -> {"closed", "open", "sent"}]
    /\ level \in [Readings -> {"RAW", "VALID", "QUALIFIED"}]
    /\ job \in [Readings -> Phases] /\ earns \in [Readings -> BOOLEAN]
    /\ ghost \in [Readings -> {"none", "active", "earns", "free"}]
    /\ stalls \in [Readings -> 0..MaxStalls] /\ public \in [Parts -> BOOLEAN]
    /\ counts \in [Parts -> Counter!Counters] /\ up \in BOOLEAN
    /\ Cardinality(Running) <= Concurrency

\* docs/REVENUE.md, the view pipeline: it implements ViewCounter.  Lost beacons,
\* dying workers, runs that outlive their lock and restarts lose views, or
\* count one again for each retry of a stalled job, and nothing else.
ImplementsCounter == Counter!Spec

\* A worker comes to an end with every event that reached the queue.
JobsSettle == \A v \in Readings : job[v] = "waiting" ~> job[v] \in {"done", "failed"}
=============================================================================
