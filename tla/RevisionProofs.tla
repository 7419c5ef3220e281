--------------------------- MODULE RevisionProofs ---------------------------
(***************************************************************************)
(* What holds of versions, positions, slugs and redirects for every set of *)
(* items, parts, titles and requests, however many of them overlap.        *)
(***************************************************************************)
EXTENDS RevisionHistory, TLAPS

Stages == {"idle", "slug", "position", "insert", "redirect", "clear",
           "update", "number", "commit"}

\* A handler may serve q at stage s having read r: what its request relies on
\* was found and is still there, and a version number it chose is the next one.
Fit(q, s, r) ==
    /\ s \in Stages /\ r \in Read
    /\ IF s = "idle" THEN q = None /\ r = NothingRead ELSE q \in Requests
    /\ r.new # None => r.new \in Range(Candidates[q.title])
    /\ s # "idle" =>
          /\ q.op = "create" => slug[q.item] = None
          /\ q.op = "add"    => row[q.part] = None
          /\ q.op = "rename" => slug[q.item] # None /\ r.old \in held[q.item]
          /\ q.op = "save"   => row[q.part] # None
    /\ s = "slug" => q.op # "save" /\ q.title # None
    /\ s = "position" => q.op = "add"
    /\ s = "insert" => q.op \in {"create", "add"}
    /\ s \in {"position", "insert"} => r.new # None
    /\ s \in {"redirect", "clear"} => q.op = "rename"
    /\ s \in {"update", "number", "commit"} => q.op \in {"rename", "save"}
    /\ s = "commit" /\ q.body # None => \A p \in Saved(q) : r.max = Len(versions[p])

\* Two requests never insert the same row.
SameRow(q, u) == q.op \in {"create", "add"} /\ u.op = q.op /\ u.item = q.item /\ u.part = q.part
Fresh ==
    \A g, h \in Handlers :
        stage[g] # "idle" /\ stage[h] # "idle" /\ SameRow(request[g], request[h]) => g = h

LockedOnce == \A p \in Parts : \A g, h \in Lockers(p) : g = h

TablesTyped ==
    /\ title \in [Items -> Titles \cup {None}] /\ slug \in [Items -> Slugs \cup {None}]
    /\ cats \in [Items -> SUBSET Categories]
    /\ asked \in [Items -> Seq([cats : SUBSET Categories, from : Nat])]
    /\ redirect \in [Paths -> Slugs \cup {None}] /\ held \in [Items -> SUBSET Slugs]
    /\ row \in [Parts -> Rows \cup {None}]
    /\ versions \in [Parts -> Seq([number : Nat \ {0}, body : Bodies])]

\* An article and its part are there together; versions only with their part.
RowsFit ==
    /\ \A i \in Items : IF slug[i] = None THEN held[i] = {} ELSE slug[i] \in held[i]
    /\ \A i \in Items : \A p \in OwnPart(i) : row[p] = None <=> slug[i] = None
    /\ \A p \in Parts : row[p] = None => versions[p] = << >>

\* Every item has a highest position, so the aggregate is defined.
HighestThere ==
    \A i \in Items : \E m \in {0} \cup Positions(i) : \A n \in Positions(i) : n <= m

HandlersFit ==
    /\ stage \in [Handlers -> Stages] /\ read \in [Handlers -> Read]
    /\ request \in [Handlers -> Request \cup {None}]
    /\ \A h \in Handlers : Fit(request[h], stage[h], read[h])

TablesFit == TablesTyped /\ RowsFit /\ HighestThere /\ HistoryComplete

RInv == TablesFit /\ HandlersFit /\ Fresh /\ LockedOnce

\* The next operation of h, its request and what it has read.
Moved(h, q, s, r) ==
    /\ stage' = [stage EXCEPT ![h] = s] /\ read' = [read EXCEPT ![h] = r]
    /\ request' = [request EXCEPT ![h] = q]

\* h may go on to stage s for q: the rows it inserts and the locks it takes
\* are its own.
Own(h, q, s) ==
    /\ q = request[h] \/ q = None
         \/ \A g \in Handlers : stage[g] # "idle" => ~SameRow(request[g], q) /\ ~SameRow(q, request[g])
    /\ s \in {"number", "commit"} => \A p \in Saved(q) : Lockers(p) \subseteq {h}

-----------------------------------------------------------------------------

LEMMA InitRInv == Init => RInv
  <1> SUFFICES ASSUME Init PROVE RInv
    OBVIOUS
  <1> USE RevisionAssumption
  <1>1. TablesTyped
    BY DEF Init, TablesTyped
  <1>2. RowsFit /\ HistoryComplete
    BY DEF Init, RowsFit, HistoryComplete, OwnPart
  <1>3. HighestThere
    BY DEF Init, HighestThere, Positions, Existing
  <1>4. NothingRead \in Read /\ NothingRead.new = None
    BY DEF NothingRead, Read
  <1>5. HandlersFit
    BY <1>4 DEF Init, HandlersFit, Fit, Stages
  <1>6. Fresh /\ LockedOnce
    BY DEF Init, Fresh, LockedOnce, Lockers
  <1> QED
    BY <1>1, <1>2, <1>3, <1>5, <1>6 DEF RInv, TablesFit

\* A request writes one part at most.
LEMMA SavedOnce ==
    ASSUME NEW q \in Requests, NEW p \in Saved(q), NEW o \in Saved(q)
    PROVE  p = o /\ p \in Parts
  BY RevisionAssumption DEF Saved, OwnPart, Request

LEMMA MaxIs ==
    ASSUME NEW S, S \subseteq Nat, NEW m \in S, \A n \in S : n <= m
    PROVE  Max(S) = m
  <1>1. \A n \in S : m >= n
    OBVIOUS
  <1>2. PICK x \in S : x = Max(S) /\ \A n \in S : x >= n
    BY <1>1 DEF Max
  <1>3. x \in Nat /\ m \in Nat /\ x >= m /\ m >= x
    BY <1>1, <1>2
  <1> QED
    BY <1>2, <1>3

\* The aggregate over the positions.
LEMMA HighestIs ==
    ASSUME RInv, NEW i \in Items
    PROVE  Highest(i) \in Nat /\ \A p \in Existing(i) : row[p].position <= Highest(i)
  <1>1. Positions(i) \subseteq Nat
    BY DEF RInv, TablesFit, TablesTyped, Positions, Existing, Rows
  <1>2. PICK m \in {0} \cup Positions(i) : \A n \in Positions(i) : n <= m
    BY DEF RInv, TablesFit, HighestThere
  <1>3. Highest(i) = m
    <2>1. \A n \in {0} \cup Positions(i) : n <= m
      BY <1>1, <1>2
    <2> QED
      BY <1>1, <2>1, MaxIs DEF Highest
  <1>4. \A p \in Existing(i) : row[p].position \in Positions(i)
    BY DEF Positions
  <1> QED
    BY <1>1, <1>2, <1>3, <1>4

\* The aggregate over the version numbers counts the versions.
LEMMA NumbersIs ==
    ASSUME RInv, NEW q \in Requests
    PROVE  LET m == Max({0} \cup UNION {{v.number : v \in Range(versions[p])} : p \in Saved(q)})
           IN m \in Nat /\ \A p \in Saved(q) : m = Len(versions[p])
  <1> DEFINE S == UNION {{v.number : v \in Range(versions[p])} : p \in Saved(q)}
  <1>1. CASE Saved(q) = {}
    <2>1. S = {}
      BY <1>1
    <2>2. Max({0} \cup S) = 0
      <3>1. {0} \cup S \subseteq Nat /\ 0 \in {0} \cup S /\ \A n \in {0} \cup S : n <= 0
        BY <2>1, SMTT(60)
      <3> HIDE DEF S
      <3> QED
        BY <3>1, MaxIs
    <2> QED
      BY <1>1, <2>2
  <1>2. CASE Saved(q) # {}
    <2>1. PICK p \in Saved(q) : TRUE
      BY <1>2
    <2>2. Saved(q) = {p} /\ p \in Parts
      BY <2>1, SavedOnce
    <2>3. /\ versions[p] \in Seq([number : Nat \ {0}, body : Bodies])
          /\ \A k \in 1..Len(versions[p]) : versions[p][k].number = k
      <3>1. versions[p] \in Seq([number : Nat \ {0}, body : Bodies])
        BY <2>2 DEF RInv, TablesFit, TablesTyped
      <3>2. row[p] = None => versions[p] = << >>
        BY <2>2 DEF RInv, TablesFit, RowsFit
      <3>3. row[p] # None => \A k \in 1..Len(versions[p]) : versions[p][k].number = k
        BY <2>2 DEF RInv, TablesFit, HistoryComplete
      <3> QED
        BY <3>1, <3>2, <3>3
    <2>4. S = {v.number : v \in Range(versions[p])}
      BY <2>2
    <2>5. S = 1..Len(versions[p])
      <3> DEFINE w == versions[p]
      <3>1. DOMAIN w = 1..Len(w) /\ \A k \in 1..Len(w) : w[k].number = k
        BY <2>3
      <3>2. S = {v.number : v \in {w[k] : k \in 1..Len(w)}}
        BY <2>4, <3>1 DEF Range
      <3> HIDE DEF S, w
      <3>3. S = {w[k].number : k \in 1..Len(w)}
        BY <3>2
      <3>4. S = 1..Len(w)
        BY <3>1, <3>3
      <3> QED
        BY <3>4 DEF w
    <2>6. Max({0} \cup S) = Len(versions[p])
      <3>1. Len(versions[p]) \in Nat
        BY <2>3
      <3>2. Len(versions[p]) \in {0} \cup S /\ {0} \cup S \subseteq Nat
        BY <2>5, <3>1, SMTT(60)
      <3>3. \A n \in {0} \cup S : n <= Len(versions[p])
        BY <2>5, <3>1
      <3> QED
        BY <3>2, <3>3, MaxIs
    <2> QED
      BY <2>2, <2>3, <2>6
  <1> QED
    BY <1>1, <1>2

-----------------------------------------------------------------------------

\* h begins to serve q.
Begins(h, q, s, r) ==
    /\ stage[h] = "idle" /\ s \in {"slug", "redirect", "update"} /\ (s = "update" => q.op = "save")
    /\ r.earlier = Existing(q.item) /\ r.old = slug[q.item] /\ r.new = None

\* The transaction of a rename has written its redirect, if it needs one.
Redirected == {"clear", "update", "number", "commit"}

\* The transaction of a rename has deleted the categories it saw, if it brings some.
Cleared == {"update", "number", "commit"}

\* h goes on with its request and keeps what it has read; a chapter gets a
\* position above all others, and a redirect a from_path that nobody has.
GoesOn(h, q, s, r) ==
    /\ stage[h] # "idle" /\ q = request[h]
    /\ r.earlier = read[h].earlier /\ r.old = read[h].old
    /\ stage[h] # "slug" => r.new = read[h].new
    /\ q.op = "add" /\ s = "insert" => r.max = Highest(q.item)
    /\ q.op = "rename" /\ r.new # None /\ s \in Redirected /\ stage[h] \notin Redirected =>
          RedirectingFrom(OldPath(h)) = {} /\ redirect[OldPath(h)] = None
    /\ q.cats # None /\ s \in Cleared =>
          IF stage[h] \in Cleared THEN r.seen = read[h].seen /\ r.from = read[h].from
          ELSE r.seen = cats[q.item] /\ r.from = Len(asked[q.item])

\* A step that writes no table: h is next at stage s for q, having read r.
Quiet(h, q, s, r) ==
    /\ UNCHANGED tables /\ Moved(h, q, s, r) /\ Fit(q, s, r) /\ Own(h, q, s)
    /\ s = "idle" \/ Begins(h, q, s, r) \/ GoesOn(h, q, s, r)

LEMMA QuietKeeps ==
    ASSUME RInv, NEW h \in Handlers, NEW q, NEW s, NEW r, Quiet(h, q, s, r)
    PROVE  RInv'
  <1> USE DEF Quiet
  <1>1. TablesFit'
    <2>1. TablesTyped' /\ RowsFit'
      BY DEF RInv, TablesFit, TablesTyped, RowsFit, tables
    <2>2. HighestThere'
      BY DEF RInv, TablesFit, HighestThere, Positions, Existing, tables
    <2>3. HistoryComplete'
      BY DEF RInv, TablesFit, HistoryComplete, tables
    <2> QED
      BY <2>1, <2>2, <2>3 DEF TablesFit
  <1>2. /\ s \in Stages /\ r \in Read /\ q \in Request \cup {None}
        /\ s = "idle" <=> q = None
    BY RevisionAssumption DEF Fit
  <1>3. /\ stage'[h] = s /\ read'[h] = r /\ request'[h] = q
        /\ \A g \in Handlers \ {h} :
              stage'[g] = stage[g] /\ read'[g] = read[g] /\ request'[g] = request[g]
        /\ stage' \in [Handlers -> Stages] /\ read' \in [Handlers -> Read]
        /\ request' \in [Handlers -> Request \cup {None}]
    BY <1>2 DEF Moved, RInv, HandlersFit
  <1>4. HandlersFit'
    <2>1. ASSUME NEW g \in Handlers PROVE Fit(request[g], stage[g], read[g])'
      <3>1. Fit(request'[g], stage'[g], read'[g])
        BY <1>3 DEF RInv, HandlersFit
      <3> QED
        BY <3>1 DEF tables, Fit
    <2> QED
      BY <1>3, <2>1 DEF HandlersFit
  <1>5. Fresh'
    <2> SUFFICES ASSUME NEW g \in Handlers, NEW f \in Handlers,
                        stage'[g] # "idle", stage'[f] # "idle",
                        SameRow(request'[g], request'[f])
                 PROVE  g = f
      BY DEF Fresh, SameRow
    <2>1. q # None => stage'[h] # "idle"
      BY <1>2, <1>3
    <2>2. SameRow(request'[f], request'[g])
      BY DEF SameRow
    <2>3. q = request[h] => (q # None => stage[h] # "idle")
      BY DEF RInv, HandlersFit, Fit
    <2> QED
      BY <1>2, <1>3, <2>1, <2>2, <2>3 DEF Own, RInv, Fresh
  <1>6. LockedOnce'
    <2> SUFFICES ASSUME NEW p \in Parts, NEW g \in Lockers(p)', NEW f \in Lockers(p)'
                 PROVE  g = f
      BY DEF LockedOnce
    <2>1. \A e \in Handlers \ {h} : e \in Lockers(p)' => e \in Lockers(p)
      BY <1>3 DEF Lockers, Saved, OwnPart
    <2>2. h \in Lockers(p)' => s \in {"number", "commit"} /\ p \in Saved(q)
      BY <1>3 DEF Lockers, Saved, OwnPart
    <2> QED
      BY <2>1, <2>2 DEF Own, RInv, LockedOnce, Lockers
  <1> QED
    BY <1>1, <1>4, <1>5, <1>6 DEF RInv

\* A request that ends, whatever it wrote, leaves the others alone.
LEMMA EndKeeps ==
    ASSUME RInv, TablesFit', NEW h \in Handlers, End(h),
           \A g \in Handlers \ {h} : Fit(request[g], stage[g], read[g])'
    PROVE  RInv'
  <1>0. NothingRead \in Read /\ NothingRead.new = None
    BY DEF NothingRead, Read
  <1>1. /\ stage'[h] = "idle" /\ read'[h] = NothingRead /\ request'[h] = None
        /\ \A g \in Handlers \ {h} :
              stage'[g] = stage[g] /\ read'[g] = read[g] /\ request'[g] = request[g]
        /\ stage' \in [Handlers -> Stages] /\ read' \in [Handlers -> Read]
        /\ request' \in [Handlers -> Request \cup {None}]
    BY <1>0 DEF End, Step, RInv, HandlersFit, Stages
  <1>2. HandlersFit'
    <2>1. Fit(request[h], stage[h], read[h])'
      BY <1>0, <1>1 DEF Fit, Stages
    <2> QED
      BY <1>1, <2>1 DEF HandlersFit
  <1>3. Fresh'
    BY <1>1 DEF RInv, Fresh, SameRow
  <1>4. \A p : Lockers(p)' \subseteq Lockers(p)
    BY <1>1 DEF Lockers, Saved, OwnPart
  <1> QED
    BY <1>2, <1>3, <1>4 DEF RInv, LockedOnce

-----------------------------------------------------------------------------

LEMMA EndQuiet ==
    ASSUME RInv, NEW h \in Handlers, End(h), UNCHANGED tables
    PROVE  Quiet(h, None, "idle", NothingRead)
  <1>1. NothingRead \in Read /\ NothingRead.new = None
    BY DEF NothingRead, Read
  <1>2. Fit(None, "idle", NothingRead)
    BY <1>1 DEF Fit, Stages
  <1> QED
    BY <1>2 DEF Quiet, Moved, Own, End, Step

\* A request that keeps its request moves on.
LEMMA StepQuiet ==
    ASSUME RInv, NEW h \in Handlers, NEW s, NEW r, Step(h, s, r),
           UNCHANGED <<tables, request>>, Fit(request[h], s, r), GoesOn(h, request[h], s, r),
           s \in {"number", "commit"} => \A p \in Saved(request[h]) : Lockers(p) \subseteq {h}
    PROVE  Quiet(h, request[h], s, r)
  BY DEF Quiet, Moved, Own, Step, RInv, HandlersFit

LEMMA BeginQuiet ==
    ASSUME RInv, NEW h \in Handlers, NEW q \in Requests, Begin(h, q)
    PROVE  \E s, r : Quiet(h, q, s, r)
  <1> DEFINE new == q.op # "save" /\ q.title # None /\ (q.op = "rename" => q.title # title[q.item])
             s == IF new THEN "slug" ELSE AfterSlug(q)
             r == [NothingRead EXCEPT !.old = slug[q.item], !.earlier = Existing(q.item)]
  <1>1. /\ q \in Request /\ q.item \in Items
        /\ q.op = "create" => q.title # None
        /\ q.op = "add" => q.title # None
    BY RevisionAssumption DEF Request
  <1>2. /\ r \in Read /\ r.new = None /\ r.old = slug[q.item] /\ r.earlier = Existing(q.item)
    <2>1. slug[q.item] \in Slugs \cup {None} /\ Existing(q.item) \subseteq Parts
      BY <1>1 DEF RInv, TablesFit, TablesTyped, Existing
    <2>2. ASSUME NEW o \in Slugs \cup {None}, NEW e \in SUBSET Parts
          PROVE  LET t == [NothingRead EXCEPT !.old = o, !.earlier = e]
                 IN t \in Read /\ t.new = None /\ t.old = o /\ t.earlier = e
      <3>1. NothingRead \in Read /\ NothingRead.new = None
        BY DEF NothingRead, Read
      <3> HIDE DEF NothingRead
      <3> DEFINE u == [NothingRead EXCEPT !.old = o]
                 t == [u EXCEPT !.earlier = e]
      <3>2. u \in Read /\ u.new = None /\ u.old = o
        BY <3>1 DEF Read
      <3> HIDE DEF u
      <3>3. t \in Read /\ t.new = None /\ t.old = o /\ t.earlier = e
        BY <3>2 DEF Read
      <3>4. t = [NothingRead EXCEPT !.old = o, !.earlier = e]
        BY DEF u
      <3> HIDE DEF t
      <3> QED
        BY <3>3, <3>4
    <2> QED
      BY <2>1, <2>2
  <1>3. /\ s \in {"slug", "redirect", "update"}
        /\ s = "slug" => q.op # "save" /\ q.title # None
        /\ s = "redirect" => q.op = "rename"
        /\ s = "update" => q.op = "save"
    BY <1>1 DEF AfterSlug, Request
  <1>4. /\ q.op = "create" => slug[q.item] = None
        /\ q.op = "add" => row[q.part] = None
        /\ q.op = "rename" => slug[q.item] # None /\ r.old \in held[q.item]
        /\ q.op = "save" => row[q.part] # None
    BY <1>1, <1>2 DEF Begin, RInv, TablesFit, RowsFit
  <1> HIDE DEF s, r
  <1>5. Fit(q, s, r)
    BY <1>2, <1>3, <1>4 DEF Fit, Stages
  <1>6. Own(h, q, s)
    BY <1>3 DEF Begin, Own, SameRow
  <1>7. UNCHANGED tables /\ Moved(h, q, s, r)
    BY DEF Begin, Moved, Step, s, r
  <1>8. Begins(h, q, s, r)
    BY <1>2, <1>3 DEF Begin, Begins
  <1> QED
    BY <1>5, <1>6, <1>7, <1>8 DEF Quiet

\* Another candidate, or the first operation with the slug found.
LEMMA TryQuiet ==
    ASSUME RInv, NEW h \in Handlers, TrySlug(h), request' = request
    PROVE  \E s, r : Quiet(h, request[h], s, r)
  <1> DEFINE q == request[h]
             tried == Candidates[q.title]
             n == read[h].try
  <1>1. /\ stage[h] = "slug" /\ q \in Requests /\ q \in Request /\ q.op # "save"
        /\ q.title \in Titles /\ read[h] \in Read /\ Fit(q, stage[h], read[h])
    BY RevisionAssumption DEF TrySlug, RInv, HandlersFit, Fit, Request
  <1>2. tried \in Seq(Slugs) /\ n \in Nat \ {0}
    BY <1>1, RevisionAssumption DEF Read
  <1>3. n <= Len(tried)
    <2>1. q # None /\ request \in [Handlers -> Request \cup {None}]
      BY <1>1, RevisionAssumption DEF RInv, HandlersFit
    <2>2. ~End(h)
      BY <2>1 DEF End
    <2> QED
      BY <1>2, <2>2 DEF TrySlug
  <1>4. CASE Step(h, "slug", [read[h] EXCEPT !.try = n + 1])
    <2> DEFINE r == [read[h] EXCEPT !.try = n + 1]
    <2>1. r \in Read /\ r.new = read[h].new /\ r.earlier = read[h].earlier /\ r.old = read[h].old
      BY <1>1, <1>2 DEF Read
    <2> HIDE DEF r
    <2>2. Fit(q, "slug", r)
      BY <1>1, <2>1 DEF Fit, Stages
    <2>3. GoesOn(h, q, "slug", r)
      BY <1>1, <2>1 DEF GoesOn, Redirected, Cleared
    <2>4. Quiet(h, q, "slug", r)
      BY <1>4, <2>2, <2>3, StepQuiet DEF TrySlug, r
    <2> QED
      BY <2>4
  <1>5. CASE Step(h, AfterSlug(q), [read[h] EXCEPT !.new = tried[n]])
    <2> DEFINE r == [read[h] EXCEPT !.new = tried[n]]
               s == AfterSlug(q)
    <2>1. tried[n] \in Slugs /\ tried[n] \in Range(tried) /\ tried[n] # None
      <3>1. n \in DOMAIN tried /\ tried[n] \in Slugs
        BY <1>2, <1>3
      <3> QED
        BY <3>1, RevisionAssumption DEF Range
    <2>2. r \in Read /\ r.new = tried[n] /\ r.earlier = read[h].earlier /\ r.old = read[h].old
      BY <1>1, <2>1 DEF Read
    <2>3. /\ s \in {"insert", "position", "redirect"}
          /\ s = "insert" => q.op = "create"
          /\ s = "position" => q.op = "add"
          /\ s = "redirect" => q.op = "rename"
      BY <1>1 DEF AfterSlug, Request
    <2> HIDE DEF r, s
    <2>4. Fit(q, s, r)
      BY <1>1, <2>1, <2>2, <2>3 DEF Fit, Stages
    <2>5. GoesOn(h, q, s, r)
      BY <1>1, <2>2, <2>3 DEF GoesOn, Redirected, Cleared
    <2>6. Quiet(h, q, s, r)
      BY <1>5, <2>3, <2>4, <2>5, StepQuiet DEF TrySlug, r, s
    <2> QED
      BY <2>6
  <1>6. \/ Step(h, "slug", [read[h] EXCEPT !.try = n + 1])
        \/ Step(h, AfterSlug(q), [read[h] EXCEPT !.new = tried[n]])
    <2>1. ~(n > Len(tried))
      BY <1>2, <1>3
    <2> QED
      BY <2>1 DEF TrySlug
  <1> QED
    BY <1>4, <1>5, <1>6

\* The statements that read, or only take a lock.
LEMMA ReadPositionQuiet ==
    ASSUME RInv, NEW h \in Handlers, ReadPosition(h)
    PROVE  \E r : Quiet(h, request[h], "insert", r)
  <1> DEFINE q == request[h]
             r == [read[h] EXCEPT !.max = Highest(q.item)]
  <1>1. /\ stage[h] = "position" /\ Fit(q, stage[h], read[h]) /\ q \in Request
        /\ read[h] \in Read /\ q.item \in Items
    BY RevisionAssumption DEF ReadPosition, RInv, HandlersFit, Fit, Request
  <1>2. /\ r \in Read /\ r.max = Highest(q.item)
        /\ r.old = read[h].old /\ r.new = read[h].new /\ r.earlier = read[h].earlier
    BY <1>1, HighestIs DEF Read
  <1> HIDE DEF r
  <1>3. Fit(q, "insert", r)
    BY <1>1, <1>2 DEF Fit, Stages
  <1>4. GoesOn(h, q, "insert", r)
    BY <1>1, <1>2 DEF GoesOn, Redirected, Cleared
  <1>5. Quiet(h, q, "insert", r)
    BY <1>3, <1>4, StepQuiet DEF ReadPosition, r
  <1> QED
    BY <1>5

LEMMA RedirectQuiet ==
    ASSUME RInv, NEW h \in Handlers, InsertRedirect(h), request' = request
    PROVE  Quiet(h, request[h], "clear", read[h])
  <1>1. /\ stage[h] = "redirect" /\ Fit(request[h], stage[h], read[h])
        /\ request[h] \in Request /\ request[h] # None
    BY RevisionAssumption DEF InsertRedirect, RInv, HandlersFit, Fit
  <1>2. ~End(h)
    BY <1>1 DEF End, RInv, HandlersFit
  <1>3. Fit(request[h], "clear", read[h])
    BY <1>1 DEF Fit, Stages
  <1>4. GoesOn(h, request[h], "clear", read[h])
    BY <1>1, <1>2 DEF GoesOn, Redirected, Cleared, InsertRedirect
  <1> QED
    BY <1>2, <1>3, <1>4, StepQuiet DEF InsertRedirect

LEMMA ClearQuiet ==
    ASSUME RInv, NEW h \in Handlers, ClearCategories(h)
    PROVE  \E s, r : Quiet(h, request[h], s, r)
  <1> DEFINE q == request[h]
             s == IF Saved(q) = {} THEN "commit" ELSE "update"
             r == IF q.cats = None THEN read[h]
                  ELSE [read[h] EXCEPT !.seen = cats[q.item], !.from = Len(asked[q.item])]
  <1>1. /\ stage[h] = "clear" /\ Fit(q, stage[h], read[h]) /\ q \in Request
        /\ read[h] \in Read /\ q.item \in Items
    BY RevisionAssumption DEF ClearCategories, RInv, HandlersFit, Fit, Request
  <1>2. /\ r \in Read
        /\ r.old = read[h].old /\ r.new = read[h].new /\ r.earlier = read[h].earlier
        /\ q.cats # None => r.seen = cats[q.item] /\ r.from = Len(asked[q.item])
    <2>1. cats[q.item] \subseteq Categories /\ Len(asked[q.item]) \in Nat
      BY <1>1 DEF RInv, TablesFit, TablesTyped
    <2> QED
      BY <1>1, <2>1 DEF Read
  <1>3. s \in {"update", "commit"} /\ (s = "commit" => Saved(q) = {})
    OBVIOUS
  <1> HIDE DEF r, s
  <1>4. Fit(q, s, r)
    BY <1>1, <1>2, <1>3 DEF Fit, Stages
  <1>5. GoesOn(h, q, s, r)
    BY <1>1, <1>2, <1>3 DEF GoesOn, Redirected, Cleared
  <1>6. Quiet(h, q, s, r)
    BY <1>3, <1>4, <1>5, StepQuiet DEF ClearCategories, r, s
  <1> QED
    BY <1>6

LEMMA UpdateQuiet ==
    ASSUME RInv, NEW h \in Handlers, Update(h)
    PROVE  \E s : Quiet(h, request[h], s, read[h])
  <1> DEFINE q == request[h]
             s == IF q.body = None THEN "commit" ELSE "number"
  <1>1. stage[h] = "update" /\ Fit(q, stage[h], read[h])
    BY DEF Update, RInv, HandlersFit
  <1>2. s \in {"number", "commit"} /\ (s = "commit" => q.body = None)
    OBVIOUS
  <1> HIDE DEF s
  <1>3. Fit(q, s, read[h])
    BY <1>1, <1>2 DEF Fit, Stages
  <1>4. GoesOn(h, q, s, read[h])
    BY <1>1, <1>2 DEF GoesOn, Redirected, Cleared
  <1>5. Quiet(h, q, s, read[h])
    BY <1>2, <1>3, <1>4, StepQuiet DEF Update, s
  <1> QED
    BY <1>5

LEMMA ReadNumberQuiet ==
    ASSUME RInv, NEW h \in Handlers, ReadNumber(h)
    PROVE  \E r : Quiet(h, request[h], "commit", r)
  <1> DEFINE q == request[h]
             m == Max({0} \cup UNION {{v.number : v \in Range(versions[p])} : p \in Saved(q)})
             r == [read[h] EXCEPT !.max = m]
  <1>1. /\ stage[h] = "number" /\ Fit(q, stage[h], read[h]) /\ q \in Requests
        /\ read[h] \in Read
    BY DEF ReadNumber, RInv, HandlersFit, Fit
  <1>2. m \in Nat /\ \A p \in Saved(q) : m = Len(versions[p])
    BY <1>1, NumbersIs
  <1>3. r = [read[h] EXCEPT !.max = m] /\ Step(h, "commit", r) /\ UNCHANGED <<tables, request>>
    BY DEF ReadNumber
  <1> HIDE DEF m
  <1>4. /\ r \in Read /\ r.max = m
        /\ r.old = read[h].old /\ r.new = read[h].new /\ r.earlier = read[h].earlier
        /\ r.seen = read[h].seen /\ r.from = read[h].from
    BY <1>1, <1>2 DEF Read
  <1> HIDE DEF r
  <1>5. Fit(q, "commit", r)
    BY <1>1, <1>2, <1>4 DEF Fit, Stages
  <1>6. \A p \in Saved(q) : Lockers(p) \subseteq {h}
    <2> SUFFICES ASSUME NEW p \in Saved(q) PROVE Lockers(p) \subseteq {h}
      OBVIOUS
    <2>1. h \in Lockers(p) /\ p \in Parts
      BY <1>1, SavedOnce DEF Lockers
    <2> QED
      BY <2>1 DEF RInv, LockedOnce
  <1>7. GoesOn(h, q, "commit", r)
    BY <1>1, <1>4 DEF GoesOn, Redirected, Cleared
  <1>8. Quiet(h, q, "commit", r)
    BY <1>3, <1>5, <1>6, <1>7, StepQuiet
  <1> QED
    BY <1>8

-----------------------------------------------------------------------------

\* A row keeps its place, and the chapters that it was told to follow.
RowsKept ==
    \A p \in Parts : row[p] # None =>
        /\ row'[p] # None /\ row'[p].position = row[p].position
        /\ row'[p].earlier = row[p].earlier

\* What the insert of an item starts from.
LEMMA ItemReady ==
    ASSUME RInv, NEW h \in Handlers, InsertItem(h)
    PROVE  LET q == request[h] IN
           /\ stage[h] = "insert" /\ q \in Requests /\ q \in Request /\ q.op = "create"
           /\ q.item \in Items /\ slug[q.item] = None /\ held[q.item] = {}
           /\ q.title \in Titles /\ q.body \in Bodies \cup {None} /\ q.part = None
           /\ read[h].new \in Slugs /\ read[h].new # None
           /\ \A p \in OwnPart(q.item) : row[p] = None /\ versions[p] = << >>
  <1> DEFINE q == request[h]
  <1>1. stage[h] = "insert" /\ q.op = "create" /\ Fit(q, stage[h], read[h])
    BY DEF InsertItem, RInv, HandlersFit
  <1>2. /\ q \in Requests /\ q \in Request /\ slug[q.item] = None
        /\ read[h].new # None /\ read[h] \in Read
    BY <1>1, RevisionAssumption DEF Fit
  <1>3. q.item \in Items /\ q.body \in Bodies \cup {None} /\ q.title \in Titles /\ q.part = None
    BY <1>1, <1>2, RevisionAssumption DEF Request
  <1>4. held[q.item] = {} /\ \A p \in OwnPart(q.item) : row[p] = None /\ versions[p] = << >>
    BY <1>2, <1>3 DEF RInv, TablesFit, RowsFit, OwnPart
  <1> QED
    BY <1>1, <1>2, <1>3, <1>4 DEF Read

\* The article's part, as inserted.
LEMMA ItemInserted ==
    ASSUME RInv, NEW h \in Handlers, InsertItem(h), read[h].new \notin Taken(request[h])
    PROVE  /\ row' \in [Parts -> Rows \cup {None}] /\ RowsKept
           /\ \A p \in OwnPart(request[h].item) :
                 row'[p] # None /\ row'[p].position = 1 /\ row'[p].earlier = {}
           /\ \A p \in Parts \ OwnPart(request[h].item) : row'[p] = row[p]
  <1> DEFINE q == request[h]
             e == [position |-> 1, slug |-> None, body |-> q.body,
                   earlier |-> {}, deleted |-> FALSE]
  <1>1. /\ q.body \in Bodies \cup {None} /\ row \in [Parts -> Rows \cup {None}]
        /\ \A p \in OwnPart(q.item) : p \in Parts /\ row[p] = None
    BY ItemReady DEF RInv, TablesFit, TablesTyped, OwnPart
  <1>2. e \in Rows /\ e.position = 1 /\ e.earlier = {}
    BY <1>1 DEF Rows
  <1>3. row' = [p \in Parts |-> IF p \in OwnPart(q.item) THEN e ELSE row[p]]
    BY DEF InsertItem
  <1> HIDE DEF e
  <1>4. \A p \in OwnPart(q.item) : row'[p] = e
    BY <1>1, <1>3
  <1>5. \A p \in Parts \ OwnPart(q.item) : row'[p] = row[p]
    BY <1>3
  <1>6. row' \in [Parts -> Rows \cup {None}]
    BY <1>1, <1>2, <1>3
  <1> QED
    BY <1>1, <1>2, <1>4, <1>5, <1>6, RevisionAssumption DEF RowsKept

\* What a commit chooses as the categories of an item.
Choice == [cats : SUBSET Categories, from : Nat]

LEMMA ChoiceInserted ==
    ASSUME RInv, NEW h \in Handlers, InsertItem(h), read[h].new \notin Taken(request[h])
    PROVE  LET q == request[h] IN
           IF q.cats = None THEN UNCHANGED <<cats, asked>>
           ELSE \E one \in Choice :
                   /\ one.cats = q.cats /\ one.from = 0 /\ q.cats \subseteq Categories /\ q.item \in Items
                   /\ cats' = [cats EXCEPT ![q.item] = q.cats]
                   /\ asked' = [asked EXCEPT ![q.item] = <<one>>] /\ <<one>> \in Seq(Choice)
  <1> DEFINE q == request[h]
             one == [cats |-> q.cats, from |-> 0]
  <1>1. CASE q.cats = None
    BY <1>1 DEF InsertItem
  <1>2. CASE q.cats # None
    <2>1. q \in Request
      BY ItemReady, RevisionAssumption
    <2>2. q.cats \subseteq Categories /\ q.item \in Items /\ one \in Choice /\ one.cats = q.cats
          /\ one.from = 0
      BY <1>2, <2>1 DEF Request, Choice
    <2>3. cats' = [cats EXCEPT ![q.item] = q.cats] /\ asked' = [asked EXCEPT ![q.item] = <<one>>]
      BY <1>2 DEF InsertItem
    <2> HIDE DEF one
    <2>4. <<one>> \in Seq(Choice)
      BY <2>2
    <2> QED
      BY <1>2, <2>2, <2>3, <2>4
  <1> QED
    BY <1>1, <1>2

LEMMA InsertItemKeeps ==
    ASSUME RInv, NEW h \in Handlers, InsertItem(h), read[h].new \notin Taken(request[h])
    PROVE  RInv'
  <1> DEFINE q == request[h]
             i == q.item
             new == read[h].new
  <1>0. /\ End(h) /\ UNCHANGED <<redirect, versions>>
        /\ title' = [title EXCEPT ![i] = q.title] /\ slug' = [slug EXCEPT ![i] = new]
        /\ held' = [held EXCEPT ![i] = {new}]
    BY DEF InsertItem
  <1>1. /\ i \in Items /\ slug[i] = None /\ held[i] = {} /\ q.title \in Titles
        /\ q \in Requests /\ q.op = "create" /\ q.part = None /\ stage[h] = "insert"
        /\ new \in Slugs /\ new # None
        /\ \A p \in OwnPart(i) : row[p] = None /\ versions[p] = << >>
    BY ItemReady
  <1>2. TablesTyped'
    <2>1. cats' \in [Items -> SUBSET Categories] /\ asked' \in [Items -> Seq(Choice)]
      <3>1. cats \in [Items -> SUBSET Categories] /\ asked \in [Items -> Seq(Choice)]
        BY DEF RInv, TablesFit, TablesTyped, Choice
      <3>2. CASE q.cats = None
        BY <3>1, <3>2, ChoiceInserted
      <3>3. CASE q.cats # None
        <4>1. PICK one \in Choice :
                 /\ q.cats \subseteq Categories /\ <<one>> \in Seq(Choice)
                 /\ cats' = [cats EXCEPT ![q.item] = q.cats]
                 /\ asked' = [asked EXCEPT ![q.item] = <<one>>]
          BY <3>3, ChoiceInserted
        <4> QED
          BY <3>1, <4>1
      <3> QED
        BY <3>2, <3>3
    <2> QED
      BY <1>0, <1>1, <2>1, ItemInserted DEF TablesTyped, RInv, TablesFit, Choice
  <1>3. /\ slug'[i] = new /\ held'[i] = {new}
        /\ \A j \in Items \ {i} : slug'[j] = slug[j] /\ held'[j] = held[j]
    BY <1>0, <1>1 DEF RInv, TablesFit, TablesTyped
  <1>4. RowsFit'
    <2>1. \A j \in Items : IF slug'[j] = None THEN held'[j] = {} ELSE slug'[j] \in held'[j]
      BY <1>1, <1>3 DEF RInv, TablesFit, RowsFit
    <2>2. \A j \in Items : \A p \in OwnPart(j) : row'[p] = None <=> slug'[j] = None
      BY <1>1, <1>3, ItemInserted DEF RInv, TablesFit, RowsFit, OwnPart
    <2>3. \A p \in Parts : row'[p] = None => versions'[p] = << >>
      BY <1>0, ItemInserted DEF RInv, TablesFit, RowsFit, RowsKept
    <2> QED
      BY <2>1, <2>2, <2>3 DEF RowsFit
  <1>5. HighestThere'
    <2> SUFFICES ASSUME NEW j \in Items
                 PROVE  \E m \in {0} \cup Positions(j)' : \A n \in Positions(j)' : n <= m
      BY DEF HighestThere
    <2>1. CASE OwnPart(i) = {} \/ j # i
      <3>1. \A p \in Parts : ItemOf[p] = j => row'[p] = row[p]
        BY <2>1, ItemInserted DEF OwnPart
      <3>2. Existing(j)' = Existing(j)
        BY <3>1 DEF Existing
      <3>3. Positions(j)' = Positions(j)
        BY <3>1, <3>2 DEF Positions, Existing
      <3> QED
        BY <3>3 DEF RInv, TablesFit, HighestThere
    <2>2. CASE OwnPart(i) # {} /\ j = i
      <3>1. Existing(j)' = OwnPart(i)
        BY <2>2, ItemInserted DEF Existing, OwnPart
      <3>2. Positions(j)' = {1}
        BY <2>2, <3>1, ItemInserted DEF Positions
      <3> QED
        BY <3>2
    <2> QED
      BY <2>1, <2>2
  <1>6. HistoryComplete'
    <2> SUFFICES ASSUME NEW p \in Parts, row'[p] # None
                 PROVE  /\ \A k \in 1..Len(versions[p]) : versions[p][k].number = k
                        /\ ItemOf[p] \notin Articles => versions[p] # << >>
                        /\ versions[p] # << >> => Last(versions[p]).body = row'[p].body
      BY <1>0 DEF HistoryComplete
    <2>1. CASE p \in OwnPart(i)
      BY <1>1, <2>1 DEF OwnPart
    <2>2. CASE p \notin OwnPart(i)
      BY <2>2, ItemInserted DEF RInv, TablesFit, HistoryComplete
    <2> QED
      BY <2>1, <2>2
  <1>7. ASSUME NEW g \in Handlers \ {h} PROVE Fit(request[g], stage[g], read[g])'
    <2> DEFINE u == request[g]
    <2>1. stage'[g] = stage[g] /\ read'[g] = read[g] /\ request'[g] = u
      BY <1>0 DEF End, Step, RInv, HandlersFit
    <2>2. Fit(u, stage[g], read[g])
      BY DEF RInv, HandlersFit
    <2>3. stage[g] # "idle" =>
             /\ u \in Requests /\ u.item \in Items
             /\ u.op = "create" => u.part = None
             /\ u.op \in {"add", "save"} => u.part \in Parts /\ u.part \notin OwnPart(i)
      BY <2>2, RevisionAssumption DEF Fit, Request, OwnPart
    <2>4. stage[g] # "idle" /\ u.op = "create" => u.item # i
      BY <1>1, <2>3 DEF RInv, Fresh, SameRow
    <2>5. stage[g] # "idle" =>
             /\ u.op = "create" => slug'[u.item] = None
             /\ u.op = "add"    => row'[u.part] = None
             /\ u.op = "rename" => slug'[u.item] # None /\ read[g].old \in held'[u.item]
             /\ u.op = "save"   => row'[u.part] # None
      BY <1>1, <1>3, <2>2, <2>3, <2>4, ItemInserted DEF Fit
    <2> QED
      BY <1>0, <2>1, <2>2, <2>5 DEF Fit
  <1> QED
    BY <1>0, <1>2, <1>4, <1>5, <1>6, <1>7, EndKeeps DEF TablesFit

-----------------------------------------------------------------------------

\* What the insert of a chapter starts from, and the chapter as inserted.
LEMMA PartInserted ==
    ASSUME RInv, NEW h \in Handlers, InsertPart(h), read[h].new \notin Taken(request[h])
    PROVE  LET q == request[h] IN
           /\ stage[h] = "insert" /\ q \in Requests /\ q.op = "add" /\ q.item \in Items
           /\ q.part \in Parts /\ ItemOf[q.part] = q.item /\ q.item \notin Articles
           /\ q.body \in Bodies /\ read[h].max \in Nat
           /\ row[q.part] = None /\ versions[q.part] = << >>
           /\ row' \in [Parts -> Rows \cup {None}] /\ RowsKept
           /\ row'[q.part] # None /\ row'[q.part].position = read[h].max + 1
           /\ row'[q.part].earlier = read[h].earlier /\ row'[q.part].body = q.body
           /\ \A p \in Parts \ {q.part} : row'[p] = row[p]
  <1> DEFINE q == request[h]
             e == [position |-> read[h].max + 1, slug |-> read[h].new, body |-> q.body,
                   earlier |-> read[h].earlier, deleted |-> FALSE]
  <1>1. stage[h] = "insert" /\ q.op = "add" /\ Fit(q, stage[h], read[h]) /\ read[h] \in Read
    BY DEF InsertPart, RInv, HandlersFit
  <1>2. /\ q \in Requests /\ q \in Request /\ q.item \in Items
        /\ q.part \in Parts /\ ItemOf[q.part] = q.item /\ q.item \notin Articles
        /\ q.body \in Bodies /\ row[q.part] = None
    BY <1>1, RevisionAssumption DEF Fit, Request
  <1>3. /\ versions[q.part] = << >> /\ row \in [Parts -> Rows \cup {None}]
        /\ read[h].max \in Nat /\ read[h].earlier \subseteq Parts
        /\ read[h].new \in Slugs \cup {None}
    BY <1>1, <1>2 DEF RInv, TablesFit, TablesTyped, RowsFit, Read
  <1>4. /\ e \in Rows /\ e.position = read[h].max + 1 /\ e.earlier = read[h].earlier
        /\ e.body = q.body
    BY <1>2, <1>3 DEF Rows
  <1>5. row' = [row EXCEPT ![q.part] = e]
    BY DEF InsertPart
  <1> HIDE DEF e
  <1>6. /\ row'[q.part] = e /\ \A p \in Parts \ {q.part} : row'[p] = row[p]
        /\ row' \in [Parts -> Rows \cup {None}]
    BY <1>2, <1>3, <1>4, <1>5
  <1>7. RowsKept
    BY <1>2, <1>6 DEF RowsKept
  <1> QED
    BY <1>1, <1>2, <1>3, <1>4, <1>6, <1>7, RevisionAssumption

LEMMA InsertPartKeeps ==
    ASSUME RInv, NEW h \in Handlers, InsertPart(h), read[h].new \notin Taken(request[h])
    PROVE  RInv'
  <1> DEFINE q == request[h]
             o == q.part
             v == [number |-> 1, body |-> q.body]
  <1>0. /\ End(h) /\ UNCHANGED <<title, slug, cats, redirect, held, asked>>
        /\ versions' = [versions EXCEPT ![o] = <<v>>]
    BY DEF InsertPart
  <1>1. /\ o \in Parts /\ ItemOf[o] = q.item /\ q.item \in Items \ Articles
        /\ q.body \in Bodies /\ q.op = "add" /\ stage[h] = "insert" /\ q \in Requests
        /\ row[o] = None /\ row'[o] # None /\ row'[o].body = q.body
        /\ row'[o].position = read[h].max + 1 /\ read[h].max \in Nat
        /\ \A p \in Parts \ {o} : row'[p] = row[p]
        /\ row' \in [Parts -> Rows \cup {None}]
    BY PartInserted
  <1>2. /\ versions' \in [Parts -> Seq([number : Nat \ {0}, body : Bodies])]
        /\ versions'[o] = <<v>> /\ \A p \in Parts \ {o} : versions'[p] = versions[p]
    <2>1. <<v>> \in Seq([number : Nat \ {0}, body : Bodies])
      BY <1>1
    <2> HIDE DEF v
    <2> QED
      BY <1>0, <1>1, <2>1 DEF RInv, TablesFit, TablesTyped
  <1>3. TablesTyped'
    BY <1>0, <1>1, <1>2 DEF RInv, TablesFit, TablesTyped
  <1>4. RowsFit'
    <2>1. \A j \in Items : \A p \in OwnPart(j) : p # o /\ p \in Parts
      BY <1>1 DEF OwnPart
    <2>2. \A j \in Items : \A p \in OwnPart(j) : row'[p] = None <=> slug[j] = None
      BY <1>1, <2>1 DEF RInv, TablesFit, RowsFit
    <2>3. \A p \in Parts : row'[p] = None => versions'[p] = << >>
      BY <1>1, <1>2 DEF RInv, TablesFit, RowsFit
    <2>4. \A i \in Items : IF slug[i] = None THEN held[i] = {} ELSE slug[i] \in held[i]
      BY DEF RInv, TablesFit, RowsFit
    <2> HIDE DEF v, o
    <2> QED
      BY <1>0, <2>2, <2>3, <2>4 DEF RowsFit
  <1>5. HighestThere'
    <2> SUFFICES ASSUME NEW j \in Items
                 PROVE  \E m \in {0} \cup Positions(j)' : \A n \in Positions(j)' : n <= m
      BY DEF HighestThere
    <2>1. CASE j # q.item
      <3>1. Existing(j)' = Existing(j) /\ \A p \in Existing(j) : row'[p] = row[p]
        BY <1>1, <2>1 DEF Existing
      <3>2. Positions(j)' = Positions(j)
        BY <3>1 DEF Positions
      <3> QED
        BY <3>2 DEF RInv, TablesFit, HighestThere
    <2>2. CASE j = q.item
      <3>1. Existing(j)' = Existing(j) \cup {o} /\ \A p \in Existing(j) : row'[p] = row[p]
        BY <1>1, <2>2 DEF Existing
      <3>2. Positions(j)' = Positions(j) \cup {read[h].max + 1}
        BY <1>1, <3>1 DEF Positions
      <3>3. PICK m \in {0} \cup Positions(j) : \A n \in Positions(j) : n <= m
        BY DEF RInv, TablesFit, HighestThere
      <3>4. Positions(j) \subseteq Nat
        BY DEF RInv, TablesFit, TablesTyped, Positions, Existing, Rows
      <3>5. CASE m <= read[h].max + 1
        BY <1>1, <3>2, <3>3, <3>4, <3>5
      <3>6. CASE ~(m <= read[h].max + 1)
        BY <1>1, <3>2, <3>3, <3>4, <3>6
      <3> QED
        BY <3>5, <3>6
    <2> QED
      BY <2>1, <2>2
  <1>6. HistoryComplete'
    <2> SUFFICES ASSUME NEW p \in Parts, row'[p] # None
                 PROVE  /\ \A k \in 1..Len(versions'[p]) : versions'[p][k].number = k
                        /\ ItemOf[p] \notin Articles => versions'[p] # << >>
                        /\ versions'[p] # << >> => Last(versions'[p]).body = row'[p].body
      BY DEF HistoryComplete
    <2>1. CASE p = o
      <3> DEFINE w == versions'[o]
      <3>1. w = <<v>> /\ v.number = 1 /\ v.body = q.body
        BY <1>2
      <3> HIDE DEF w, v
      <3>2. Len(w) = 1 /\ w[1].number = 1 /\ w[1].body = q.body /\ w # << >>
        BY <3>1
      <3>3. \A k \in 1..Len(w) : w[k].number = k
        BY <3>2
      <3>4. Last(w).body = row'[o].body
        BY <1>1, <3>2 DEF Last
      <3> QED
        BY <2>1, <3>2, <3>3, <3>4 DEF w
    <2>2. CASE p # o
      BY <1>1, <1>2, <2>2 DEF RInv, TablesFit, HistoryComplete
    <2> QED
      BY <2>1, <2>2
  <1>7. ASSUME NEW g \in Handlers \ {h} PROVE Fit(request[g], stage[g], read[g])'
    <2> DEFINE u == request[g]
    <2>1. stage'[g] = stage[g] /\ read'[g] = read[g] /\ request'[g] = u
      BY <1>0 DEF End, Step, RInv, HandlersFit
    <2>2. Fit(u, stage[g], read[g])
      BY DEF RInv, HandlersFit
    <2>3. stage[g] # "idle" =>
             /\ u \in Requests /\ u \in Request /\ u.item \in Items
             /\ u.op \in {"add", "save"} => u.part \in Parts /\ ItemOf[u.part] = u.item
      BY <2>2, RevisionAssumption DEF Fit, Request
    <2>4. stage[g] # "idle" /\ u.op = "add" => u.part # o
      BY <1>1, <2>3 DEF RInv, Fresh, SameRow
    <2>5. stage[g] # "idle" =>
             /\ u.op = "add"    => row'[u.part] = None
             /\ u.op = "save"   => row'[u.part] # None
      BY <1>1, <2>2, <2>3, <2>4 DEF Fit
    <2>6. stage[g] = "commit" => \A p \in Saved(u) : versions'[p] = versions[p]
      <3> SUFFICES ASSUME stage[g] = "commit", NEW p \in Saved(u)
                   PROVE  p \in Parts /\ p # o
        BY <1>2
      <3>1. p \in Parts
        BY <2>3, SavedOnce
      <3>2. row[p] # None
        BY <2>2, <2>3 DEF Fit, Saved, RInv, TablesFit, RowsFit
      <3> QED
        BY <1>1, <3>1, <3>2
    <2> QED
      BY <1>0, <2>1, <2>2, <2>5, <2>6 DEF Fit
  <1> QED
    BY <1>0, <1>3, <1>4, <1>5, <1>6, <1>7, EndKeeps DEF TablesFit

-----------------------------------------------------------------------------

\* What a commit starts from.
LEMMA CommitReady ==
    ASSUME RInv, NEW h \in Handlers, Commit(h)
    PROVE  LET q == request[h] IN
           /\ stage[h] = "commit" /\ q \in Requests /\ q \in Request /\ q.item \in Items
           /\ q.op \in {"rename", "save"} /\ read[h] \in Read /\ q.body \in Bodies \cup {None}
           /\ q.op = "rename" => slug[q.item] # None /\ read[h].old \in held[q.item]
           /\ \A p \in Saved(q) : p \in Parts /\ row[p] \in Rows
           /\ q.body # None => \A p \in Saved(q) : read[h].max = Len(versions[p])
  <1> DEFINE q == request[h]
  <1>1. stage[h] = "commit" /\ Fit(q, stage[h], read[h])
    BY DEF Commit, RInv, HandlersFit
  <1>2. /\ q \in Requests /\ q \in Request /\ q.item \in Items
        /\ q.body \in Bodies \cup {None}
        /\ q.op = "save" => q.part \in Parts
    BY <1>1, RevisionAssumption DEF Fit, Request
  <1>3. \A p \in Saved(q) : p \in Parts /\ row[p] \in Rows
    <2> SUFFICES ASSUME NEW p \in Saved(q) PROVE p \in Parts /\ row[p] # None
      BY DEF RInv, TablesFit, TablesTyped
    <2> QED
      BY <1>1, <1>2, SavedOnce DEF Saved, Fit, RInv, TablesFit, RowsFit
  <1> QED
    BY <1>1, <1>2, <1>3 DEF Fit

\* The rows that a commit writes change their body only.
LEMMA CommitRows ==
    ASSUME RInv, NEW h \in Handlers, Commit(h)
    PROVE  /\ row' \in [Parts -> Rows \cup {None}] /\ RowsKept
           /\ \A p \in Parts : row[p] = None => row'[p] = None
           /\ \A p \in Saved(request[h]) :
                 request[h].body # None => row'[p].body = request[h].body
           /\ \A p \in Parts : p \notin Saved(request[h]) \/ request[h].body = None
                 => row'[p] = row[p]
  <1> DEFINE q == request[h]
  <1>1. ASSUME NEW p \in Saved(q), q.body # None
        PROVE  /\ row'[p] \in Rows /\ row'[p].body = q.body
               /\ row'[p].position = row[p].position /\ row'[p].earlier = row[p].earlier
    <2>1. p \in Parts /\ row[p] \in Rows /\ q.body \in Bodies
      BY <1>1, CommitReady
    <2>2. row'[p] = [row[p] EXCEPT !.body = q.body]
      BY <1>1, <2>1 DEF Commit, SavedRows
    <2> QED
      BY <2>1, <2>2 DEF Rows
  <1>2. \A p \in Parts : p \notin Saved(q) \/ q.body = None => row'[p] = row[p]
    BY DEF Commit, SavedRows
  <1>3. row' \in [Parts -> Rows \cup {None}]
    <2>1. DOMAIN row' = Parts /\ row' = [p \in Parts |-> row'[p]]
      BY DEF Commit, SavedRows
    <2>2. \A p \in Parts : row'[p] \in Rows \cup {None}
      BY <1>1, <1>2 DEF RInv, TablesFit, TablesTyped
    <2> QED
      BY <2>1, <2>2
  <1>4. \A p \in Saved(q) : row[p] # None
    BY CommitReady, RevisionAssumption
  <1>5. RowsKept
    BY <1>1, <1>2, RevisionAssumption DEF RowsKept
  <1> QED
    BY <1>1, <1>2, <1>3, <1>4, <1>5

\* The versions that a commit writes: the next one of the saved part.
LEMMA CommitVersions ==
    ASSUME RInv, NEW h \in Handlers, Commit(h)
    PROVE  /\ versions' \in [Parts -> Seq([number : Nat \ {0}, body : Bodies])]
           /\ \A p \in Parts : p \notin Saved(request[h]) \/ request[h].body = None
                 => versions'[p] = versions[p]
           /\ \A p \in Saved(request[h]) : request[h].body # None =>
                 versions'[p] = Append(versions[p], [number |-> Len(versions[p]) + 1,
                                                     body |-> request[h].body])
  <1> DEFINE q == request[h]
             Version == [number : Nat \ {0}, body : Bodies]
  <1>1. ASSUME NEW p \in Saved(q), q.body # None
        PROVE  /\ versions'[p] = Append(versions[p], [number |-> Len(versions[p]) + 1, body |-> q.body])
               /\ versions'[p] \in Seq(Version)
    <2> DEFINE v == [number |-> Len(versions[p]) + 1, body |-> q.body]
    <2>1. p \in Parts /\ q.body \in Bodies /\ read[h].max = Len(versions[p])
      BY <1>1, CommitReady
    <2>2. versions[p] \in Seq(Version)
      BY <2>1 DEF RInv, TablesFit, TablesTyped
    <2>3. versions'[p] = Append(versions[p], v)
      BY <1>1, <2>1 DEF Commit, SavedVersions
    <2>4. v \in Version
      BY <2>1, <2>2
    <2> HIDE DEF v, Version
    <2>5. Append(versions[p], v) \in Seq(Version)
      BY <2>2, <2>4
    <2> QED
      BY <2>3, <2>5 DEF v
  <1>2. \A p \in Parts : p \notin Saved(q) \/ q.body = None => versions'[p] = versions[p]
    BY DEF Commit, SavedVersions
  <1>3. versions' = [p \in Parts |-> versions'[p]]
    BY DEF Commit, SavedVersions
  <1>4. \A p \in Parts : versions'[p] \in Seq(Version)
    BY <1>1, <1>2 DEF RInv, TablesFit, TablesTyped
  <1> HIDE DEF Version
  <1>5. versions' \in [Parts -> Seq(Version)]
    BY <1>3, <1>4
  <1> QED
    BY <1>1, <1>2, <1>5 DEF Version

\* A rename that changes the slug: its item has the new one, and had the old.
LEMMA CommitSlugs ==
    ASSUME RInv, NEW h \in Handlers, Commit(h)
    PROVE  LET q == request[h] IN
           IF q.op = "rename" /\ read[h].new # None
           THEN /\ q.item \in Items /\ read[h].new \in Slugs /\ read[h].old \in Slugs
                /\ redirect' = [redirect EXCEPT ![OldPath(h)] = read[h].new]
                /\ slug'[q.item] = read[h].new /\ held'[q.item] = held[q.item] \cup {read[h].new}
                /\ \A i \in Items \ {q.item} : slug'[i] = slug[i] /\ held'[i] = held[i]
                /\ slug' \in [Items -> Slugs \cup {None}] /\ held' \in [Items -> SUBSET Slugs]
                /\ redirect' \in [Paths -> Slugs \cup {None}]
           ELSE UNCHANGED <<slug, held, redirect>>
  <1> DEFINE q == request[h]
  <1>1. /\ q.item \in Items /\ read[h] \in Read
        /\ q.op = "rename" => read[h].old \in held[q.item]
    BY CommitReady
  <1>2. CASE q.op = "rename" /\ read[h].new # None
    <2>1. read[h].new \in Slugs /\ read[h].old \in Slugs /\ OldPath(h) \in Paths
      BY <1>1, <1>2 DEF RInv, TablesFit, TablesTyped, Read, OldPath, Path, Paths
    <2>2. /\ redirect' = [redirect EXCEPT ![OldPath(h)] = read[h].new]
          /\ slug' = [slug EXCEPT ![q.item] = read[h].new]
          /\ held' = [held EXCEPT ![q.item] = @ \cup {read[h].new}]
      BY <1>2 DEF Commit
    <2> QED
      BY <1>1, <1>2, <2>1, <2>2 DEF RInv, TablesFit, TablesTyped
  <1>3. CASE ~(q.op = "rename" /\ read[h].new # None)
    BY <1>3 DEF Commit
  <1> QED
    BY <1>2, <1>3

\* A request that brings categories adds its choice to those of its item.
LEMMA CommitChoice ==
    ASSUME RInv, NEW h \in Handlers, Commit(h)
    PROVE  LET q == request[h] IN
           IF q.cats = None THEN UNCHANGED <<cats, asked>>
           ELSE \E one \in Choice :
                   /\ one.cats = q.cats /\ one.from = read[h].from /\ q.item \in Items
                   /\ Categorised(h, q) \subseteq Categories /\ Len(asked[q.item]) \in Nat
                   /\ cats' = [cats EXCEPT ![q.item] = Categorised(h, q)]
                   /\ asked' = [asked EXCEPT ![q.item] = Append(asked[q.item], one)]
                   /\ asked[q.item] \in Seq(Choice) /\ Append(asked[q.item], one) \in Seq(Choice)
  <1> DEFINE q == request[h]
             one == [cats |-> q.cats, from |-> read[h].from]
  <1>1. CASE q.cats = None
    BY <1>1 DEF Commit
  <1>2. CASE q.cats # None
    <2>1. q \in Request /\ q.item \in Items /\ read[h] \in Read
      BY CommitReady
    <2>2. q.cats \subseteq Categories /\ one \in Choice /\ one.cats = q.cats /\ one.from = read[h].from
      BY <1>2, <2>1 DEF Request, Choice, Read
    <2>3. /\ cats' = [cats EXCEPT ![q.item] = Categorised(h, q)]
          /\ asked' = [asked EXCEPT ![q.item] = Append(asked[q.item], one)]
      BY <1>2 DEF Commit
    <2> HIDE DEF one
    <2>4. asked[q.item] \in Seq(Choice) /\ Categorised(h, q) \subseteq Categories
      BY <2>1, <2>2 DEF Categorised, RInv, TablesFit, TablesTyped, Choice
    <2>5. Append(asked[q.item], one) \in Seq(Choice) /\ Len(asked[q.item]) \in Nat
      BY <2>2, <2>4
    <2> QED
      BY <1>2, <2>1, <2>2, <2>3, <2>4, <2>5
  <1> QED
    BY <1>1, <1>2

LEMMA CommitKeeps ==
    ASSUME RInv, NEW h \in Handlers, Commit(h)
    PROVE  RInv'
  <1> DEFINE q == request[h]
  <1>0. End(h)
    BY DEF Commit
  <1>1. /\ stage[h] = "commit" /\ q \in Requests /\ q \in Request /\ q.item \in Items
        /\ q.op \in {"rename", "save"} /\ read[h] \in Read
        /\ q.op = "rename" => slug[q.item] # None /\ read[h].old \in held[q.item]
        /\ \A p \in Saved(q) : p \in Parts /\ row[p] \in Rows
    BY CommitReady
  <1>2. /\ \A i \in Items : slug[i] = None <=> slug'[i] = None
        /\ \A i \in Items : held[i] \subseteq held'[i]
        /\ \A i \in Items : IF slug'[i] = None THEN held'[i] = {} ELSE slug'[i] \in held'[i]
        /\ slug' \in [Items -> Slugs \cup {None}] /\ held' \in [Items -> SUBSET Slugs]
        /\ redirect' \in [Paths -> Slugs \cup {None}]
    <2>0. /\ \A i \in Items : IF slug[i] = None THEN held[i] = {} ELSE slug[i] \in held[i]
          /\ slug \in [Items -> Slugs \cup {None}] /\ held \in [Items -> SUBSET Slugs]
          /\ redirect \in [Paths -> Slugs \cup {None}]
      BY DEF RInv, TablesFit, TablesTyped, RowsFit
    <2>1. CASE q.op = "rename" /\ read[h].new # None
      <3>1. /\ slug'[q.item] = read[h].new /\ held'[q.item] = held[q.item] \cup {read[h].new}
            /\ \A i \in Items \ {q.item} : slug'[i] = slug[i] /\ held'[i] = held[i]
            /\ slug' \in [Items -> Slugs \cup {None}] /\ held' \in [Items -> SUBSET Slugs]
            /\ redirect' \in [Paths -> Slugs \cup {None}]
        BY <2>1, CommitSlugs
      <3> QED
        BY <1>1, <2>0, <2>1, <3>1
    <2>2. CASE ~(q.op = "rename" /\ read[h].new # None)
      BY <2>0, <2>2, CommitSlugs
    <2> QED
      BY <2>1, <2>2
  <1>3. TablesTyped'
    <2>1. title' \in [Items -> Titles \cup {None}]
      BY <1>1 DEF Commit, RInv, TablesFit, TablesTyped, Request
    <2>2. cats' \in [Items -> SUBSET Categories] /\ asked' \in [Items -> Seq(Choice)]
      <3>1. cats \in [Items -> SUBSET Categories] /\ asked \in [Items -> Seq(Choice)]
        BY DEF RInv, TablesFit, TablesTyped, Choice
      <3>2. CASE q.cats = None
        BY <3>1, <3>2, CommitChoice
      <3>3. CASE q.cats # None
        <4>1. PICK one \in Choice :
                 /\ Categorised(h, q) \subseteq Categories
                 /\ cats' = [cats EXCEPT ![q.item] = Categorised(h, q)]
                 /\ asked' = [asked EXCEPT ![q.item] = Append(asked[q.item], one)]
                 /\ Append(asked[q.item], one) \in Seq(Choice)
          BY <3>3, CommitChoice
        <4> HIDE DEF q
        <4> QED
          BY <3>1, <4>1
      <3> QED
        BY <3>2, <3>3
    <2> QED
      BY <1>2, <2>1, <2>2, CommitRows, CommitVersions DEF TablesTyped, Choice
  <1>4. RowsFit'
    <2>1. \A j \in Items : \A p \in OwnPart(j) : row'[p] = None <=> slug'[j] = None
      BY <1>2, CommitRows DEF RInv, TablesFit, RowsFit, RowsKept, OwnPart
    <2>2. \A p \in Parts : row'[p] = None => versions'[p] = << >>
      <3> SUFFICES ASSUME NEW p \in Parts, row'[p] = None PROVE versions'[p] = << >>
        OBVIOUS
      <3>1. row[p] = None
        BY CommitRows DEF RowsKept
      <3>2. p \notin Saved(q)
        BY <1>1, <3>1, RevisionAssumption
      <3> QED
        BY <3>1, <3>2, CommitVersions DEF RInv, TablesFit, RowsFit
    <2> QED
      BY <1>2, <2>1, <2>2 DEF RowsFit
  <1>5. HighestThere'
    <2> SUFFICES ASSUME NEW j \in Items
                 PROVE  Positions(j)' = Positions(j)
      BY DEF HighestThere, RInv, TablesFit
    <2>1. Existing(j)' = Existing(j)
      BY CommitRows DEF Existing, RowsKept
    <2>2. \A p \in Existing(j) : row'[p].position = row[p].position
      BY CommitRows DEF Existing, RowsKept
    <2> QED
      BY <2>1, <2>2 DEF Positions
  <1>6. HistoryComplete'
    <2> SUFFICES ASSUME NEW p \in Parts, row'[p] # None
                 PROVE  /\ \A k \in 1..Len(versions'[p]) : versions'[p][k].number = k
                        /\ ItemOf[p] \notin Articles => versions'[p] # << >>
                        /\ versions'[p] # << >> => Last(versions'[p]).body = row'[p].body
      BY DEF HistoryComplete
    <2>1. row[p] # None
      BY CommitRows DEF RowsKept
    <2>2. CASE p \notin Saved(q) \/ q.body = None
      BY <2>1, <2>2, CommitRows, CommitVersions DEF RInv, TablesFit, HistoryComplete
    <2>3. CASE p \in Saved(q) /\ q.body # None
      <3> DEFINE w == versions[p]
                 v == [number |-> Len(w) + 1, body |-> q.body]
                 t == versions'[p]
                 S == [number : Nat \ {0}, body : Bodies]
      <3>1. t = Append(w, v) /\ row'[p].body = q.body /\ v.number = Len(w) + 1 /\ v.body = q.body
        BY <2>3, CommitRows, CommitVersions
      <3>2. w \in Seq(S) /\ t \in Seq(S)
        BY CommitVersions DEF RInv, TablesFit, TablesTyped
      <3>3. \A k \in 1..Len(w) : w[k].number = k
        BY <2>1 DEF RInv, TablesFit, HistoryComplete
      <3> HIDE DEF w, v, t, S
      <3>4. /\ Len(t) = Len(w) + 1 /\ t[Len(t)] = v /\ t # << >> /\ Len(w) \in Nat
            /\ \A k \in 1..Len(w) : t[k] = w[k]
        BY <3>1, <3>2
      <3>5. \A k \in 1..Len(t) : t[k].number = k
        BY <3>1, <3>3, <3>4
      <3>6. Last(t).body = q.body
        BY <3>1, <3>4 DEF Last
      <3> QED
        BY <3>1, <3>4, <3>5, <3>6 DEF t
    <2> QED
      BY <2>2, <2>3
  <1>7. ASSUME NEW g \in Handlers \ {h} PROVE Fit(request[g], stage[g], read[g])'
    <2> DEFINE u == request[g]
    <2>1. stage'[g] = stage[g] /\ read'[g] = read[g] /\ request'[g] = u
      BY <1>0 DEF End, Step, RInv, HandlersFit
    <2>2. Fit(u, stage[g], read[g])
      BY DEF RInv, HandlersFit
    <2>3. stage[g] # "idle" =>
             /\ u \in Requests /\ u.item \in Items
             /\ u.op \in {"add", "save"} => u.part \in Parts
      BY <2>2, RevisionAssumption DEF Fit, Request
    <2>4. stage[g] # "idle" =>
             /\ u.op = "create" => slug'[u.item] = None
             /\ u.op = "add"    => row'[u.part] = None
             /\ u.op = "rename" => slug'[u.item] # None /\ read[g].old \in held'[u.item]
             /\ u.op = "save"   => row'[u.part] # None
      BY <1>2, <2>2, <2>3, CommitRows DEF Fit, RowsKept
    <2>5. stage[g] = "commit" => \A p \in Saved(u) : versions'[p] = versions[p]
      <3> SUFFICES ASSUME stage[g] = "commit", NEW p \in Saved(u)
                   PROVE  p \in Parts /\ p \notin Saved(q)
        BY CommitVersions
      <3>1. p \in Parts
        BY <2>3, SavedOnce
      <3> QED
        BY <1>1, <3>1 DEF RInv, LockedOnce, Lockers
    <2> QED
      BY <2>1, <2>2, <2>4, <2>5 DEF Fit
  <1> QED
    BY <1>0, <1>3, <1>4, <1>5, <1>6, <1>7, EndKeeps DEF TablesFit

LEMMA DeletePartRows ==
    ASSUME RInv, NEW p \in Parts, DeletePart(p)
    PROVE  /\ row' \in [Parts -> Rows \cup {None}] /\ RowsKept
           /\ \A o \in Parts : row[o] = None => row'[o] = None
           /\ \A o \in Parts : row[o] # None => row'[o].body = row[o].body
  <1>1. row \in [Parts -> Rows \cup {None}] /\ row[p] \in Rows
    BY DEF DeletePart, RInv, TablesFit, TablesTyped
  <1>2. row' = [row EXCEPT ![p] = [row[p] EXCEPT !.deleted = TRUE]]
    BY DEF DeletePart
  <1> DEFINE e == [row[p] EXCEPT !.deleted = TRUE]
  <1>3. /\ e \in Rows /\ e.position = row[p].position /\ e.earlier = row[p].earlier
        /\ e.body = row[p].body
    BY <1>1 DEF Rows
  <1> HIDE DEF e
  <1>4. row'[p] = e /\ \A o \in Parts \ {p} : row'[o] = row[o]
    BY <1>1, <1>2 DEF e
  <1>5. row' \in [Parts -> Rows \cup {None}]
    BY <1>1, <1>2, <1>3 DEF e
  <1> QED
    BY <1>1, <1>3, <1>4, <1>5, RevisionAssumption DEF RowsKept

LEMMA DeletePartKeeps ==
    ASSUME RInv, NEW p \in Parts, DeletePart(p)
    PROVE  RInv'
  <1>0. UNCHANGED <<title, slug, cats, redirect, versions, held, asked, stage, request, read>>
    BY DEF DeletePart
  <1>1. TablesTyped'
    BY <1>0, DeletePartRows DEF RInv, TablesFit, TablesTyped
  <1>2. RowsFit'
    <2>1. \A o \in Parts : row'[o] = None <=> row[o] = None
      BY DeletePartRows DEF RowsKept
    <2>2. \A j \in Items : \A o \in OwnPart(j) : o \in Parts
      BY DEF OwnPart
    <2> QED
      BY <1>0, <2>1, <2>2 DEF RInv, TablesFit, RowsFit
  <1>3. HighestThere'
    <2> SUFFICES ASSUME NEW j \in Items
                 PROVE  Positions(j)' = Positions(j)
      BY DEF HighestThere, RInv, TablesFit
    <2>1. Existing(j)' = Existing(j)
      BY DeletePartRows DEF Existing, RowsKept
    <2>2. \A o \in Existing(j) : row'[o].position = row[o].position
      BY DeletePartRows DEF Existing, RowsKept
    <2> QED
      BY <2>1, <2>2 DEF Positions
  <1>4. HistoryComplete'
    BY <1>0, DeletePartRows DEF RInv, TablesFit, HistoryComplete
  <1>5. HandlersFit'
    <2> SUFFICES ASSUME NEW g \in Handlers PROVE Fit(request[g], stage[g], read[g])'
      BY <1>0 DEF RInv, HandlersFit
    <2>1. Fit(request[g], stage[g], read[g])
      BY DEF RInv, HandlersFit
    <2>2. stage[g] # "idle" /\ request[g].op \in {"add", "save"} => request[g].part \in Parts
      BY <2>1, RevisionAssumption DEF Fit
    <2>3. stage[g] # "idle" =>
             /\ request[g].op = "add"    => row'[request[g].part] = None
             /\ request[g].op = "save"   => row'[request[g].part] # None
      BY <2>1, <2>2, DeletePartRows DEF Fit, RowsKept
    <2> QED
      BY <1>0, <2>1, <2>3 DEF Fit
  <1>6. Fresh' /\ LockedOnce'
    BY <1>0 DEF RInv, Fresh, LockedOnce, SameRow, Lockers, Saved, OwnPart
  <1> QED
    BY <1>1, <1>2, <1>3, <1>4, <1>5, <1>6 DEF RInv, TablesFit

\* Every step of the system: a step that writes no table, or one of the writes.
LEMMA Steps ==
    ASSUME RInv, Next
    PROVE  \/ \E h \in Handlers : \E q, s, r : Quiet(h, q, s, r)
           \/ \E h \in Handlers :
                 \/ (InsertItem(h) \/ InsertPart(h)) /\ read[h].new \notin Taken(request[h])
                 \/ Commit(h)
           \/ \E p \in Parts : DeletePart(p)
  <1>1. ASSUME NEW h \in Handlers, End(h), UNCHANGED tables
        PROVE  \E q, s, r : Quiet(h, q, s, r)
    BY <1>1, EndQuiet
  <1>2. ASSUME NEW h \in Handlers, NEW q \in Requests, Begin(h, q)
        PROVE  \E u, s, r : Quiet(h, u, s, r)
    BY <1>2, BeginQuiet
  <1>3. ASSUME NEW h \in Handlers, TrySlug(h) PROVE \E q, s, r : Quiet(h, q, s, r)
    <2>1. UNCHANGED tables /\ (End(h) \/ request' = request)
      BY <1>3 DEF TrySlug
    <2>2. CASE request' = request
      <3>1. PICK s, r : Quiet(h, request[h], s, r)
        BY <1>3, <2>2, TryQuiet
      <3> QED
        BY <3>1
    <2> QED
      BY <1>1, <2>1, <2>2
  <1>4. ASSUME NEW h \in Handlers, InsertRedirect(h) PROVE \E q, s, r : Quiet(h, q, s, r)
    <2>1. UNCHANGED tables /\ (End(h) \/ request' = request)
      BY <1>4 DEF InsertRedirect
    <2> QED
      BY <1>1, <1>4, <2>1, RedirectQuiet
  <1>5. ASSUME NEW h \in Handlers,
               ReadPosition(h) \/ ClearCategories(h) \/ Update(h) \/ ReadNumber(h)
        PROVE  \E q, s, r : Quiet(h, q, s, r)
    BY <1>5, ReadPositionQuiet, ClearQuiet, UpdateQuiet, ReadNumberQuiet
  <1>6. ASSUME NEW h \in Handlers, InsertItem(h) \/ InsertPart(h),
               read[h].new \in Taken(request[h])
        PROVE  \E q, s, r : Quiet(h, q, s, r)
    BY <1>1, <1>6 DEF InsertItem, InsertPart
  <1>7. ASSUME NEW h \in Handlers, Throw(h) \/ Abort(h) PROVE \E q, s, r : Quiet(h, q, s, r)
    BY <1>1, <1>7 DEF Throw, Abort
  <1> QED
    BY <1>2, <1>3, <1>4, <1>5, <1>6, <1>7 DEF Next, Proceed

LEMMA NextRInv == RInv /\ [Next]_vars => RInv'
  <1> SUFFICES ASSUME RInv, [Next]_vars PROVE RInv'
    OBVIOUS
  <1>1. CASE UNCHANGED vars
    <2>1. TablesFit'
      <3>1. TablesTyped' /\ RowsFit'
        BY <1>1 DEF vars, tables, RInv, TablesFit, TablesTyped, RowsFit
      <3>2. HighestThere'
        BY <1>1 DEF vars, tables, RInv, TablesFit, HighestThere, Positions, Existing
      <3>3. HistoryComplete'
        BY <1>1 DEF vars, tables, RInv, TablesFit, HistoryComplete
      <3> QED
        BY <3>1, <3>2, <3>3 DEF TablesFit
    <2>2. HandlersFit' /\ Fresh' /\ LockedOnce'
      BY <1>1 DEF vars, tables, RInv, HandlersFit, Fit, Fresh, SameRow, LockedOnce, Lockers,
         Saved, OwnPart
    <2> QED
      BY <2>1, <2>2 DEF RInv
  <1>2. CASE Next
    BY <1>2, Steps, QuietKeeps, InsertItemKeeps, InsertPartKeeps, CommitKeeps, DeletePartKeeps
  <1> QED
    BY <1>1, <1>2

LEMMA RInvHolds == Spec => []RInv
  BY InitRInv, NextRInv, PTL DEF Spec

\* The tables and what the requests have read are of their types.
THEOREM Typed == Spec => []TypeOK
  <1>1. RInv => TypeOK
    <2> SUFFICES ASSUME RInv PROVE TypeOK
      OBVIOUS
    <2>1. ASSUME NEW h \in Handlers
          PROVE  /\ stage[h] = "idle" <=> request[h] = None
                 /\ read[h].new # None => read[h].new \in Range(Candidates[request[h].title])
      BY RevisionAssumption DEF RInv, HandlersFit, Fit
    <2> QED
      BY <2>1 DEF RInv, TablesFit, TablesTyped, HandlersFit, Stages, TypeOK
  <1> QED
    BY <1>1, RInvHolds, PTL

\* Whatever saves overlap or fail, the versions of a chapter are numbered
\* without a gap and end with the body it has: the row lock of the update is
\* held from before the number is read until the commit.
THEOREM HistoryStaysComplete == Spec => []HistoryComplete
  <1>1. RInv => HistoryComplete
    BY DEF RInv, TablesFit
  <1> QED
    BY <1>1, RInvHolds, PTL

-----------------------------------------------------------------------------
(***************************************************************************)
(* Reading order                                                           *)
(***************************************************************************)

\* The chapters that a request to add one found are still there, and below the
\* highest position once that is read.
OrderFit(q, s, r) ==
    s # "idle" /\ q.op = "add" =>
        /\ r.earlier \subseteq Existing(q.item)
        /\ s = "insert" => \A p \in r.earlier : row[p].position <= r.max

\* A chapter's earlier ones are still there, and below it.
EarlierBelow ==
    \A o \in Parts : row[o] # None =>
        \A p \in row[o].earlier :
            p \in Parts /\ row[p] # None /\ row[p].position < row[o].position

OInv == EarlierBelow /\ \A h \in Handlers : OrderFit(request[h], stage[h], read[h])

LEMMA ExistingKept ==
    ASSUME RowsKept, NEW i
    PROVE  Existing(i) \subseteq Existing(i)'
  BY DEF RowsKept, Existing

LEMMA OrderFitKept ==
    ASSUME RowsKept, NEW q, NEW s, NEW r, OrderFit(q, s, r)
    PROVE  OrderFit(q, s, r)'
  <1>1. Existing(q.item) \subseteq Existing(q.item)'
    BY ExistingKept
  <1>2. \A p \in Existing(q.item) : row'[p].position = row[p].position
    BY DEF RowsKept, Existing
  <1> QED
    BY <1>1, <1>2 DEF OrderFit

LEMMA QuietOrder ==
    ASSUME RInv, OInv, NEW h \in Handlers, NEW q, NEW s, NEW r, Quiet(h, q, s, r)
    PROVE  OInv'
  <1>1. row' = row /\ RowsKept
    BY DEF Quiet, tables, RowsKept
  <1>2. EarlierBelow'
    BY <1>1 DEF OInv, EarlierBelow
  <1>3. /\ stage'[h] = s /\ read'[h] = r /\ request'[h] = q
        /\ \A g \in Handlers \ {h} :
              stage'[g] = stage[g] /\ read'[g] = read[g] /\ request'[g] = request[g]
    BY DEF Quiet, Moved, RInv, HandlersFit
  <1>4. OrderFit(q, s, r)
    <2> SUFFICES ASSUME s # "idle", q.op = "add"
                 PROVE  /\ r.earlier \subseteq Existing(q.item)
                        /\ s = "insert" => \A p \in r.earlier : row[p].position <= r.max
      BY DEF OrderFit
    <2>1. CASE Begins(h, q, s, r)
      BY <2>1 DEF Begins
    <2>2. CASE GoesOn(h, q, s, r)
      <3>1. q.item \in Items
        BY RevisionAssumption DEF Quiet, Fit, Request
      <3>2. r.earlier \subseteq Existing(q.item)
        BY <2>2 DEF GoesOn, OInv, OrderFit
      <3> QED
        BY <2>2, <3>1, <3>2, HighestIs DEF GoesOn
    <2> QED
      BY <2>1, <2>2 DEF Quiet
  <1>5. ASSUME NEW g \in Handlers PROVE OrderFit(request[g], stage[g], read[g])'
    <2>1. OrderFit(request'[g], stage'[g], read'[g])
      BY <1>3, <1>4 DEF OInv
    <2> QED
      BY <1>1, <2>1 DEF OrderFit, Existing
  <1> QED
    BY <1>2, <1>5 DEF OInv

\* The handlers, when the rows stay and at most one of them ends.
LEMMA EndsOrder ==
    ASSUME RInv, OInv, RowsKept,
           \/ UNCHANGED <<stage, request, read>>
           \/ \E h \in Handlers : End(h)
    PROVE  \A g \in Handlers : OrderFit(request[g], stage[g], read[g])'
  <1> SUFFICES ASSUME NEW g \in Handlers
               PROVE  OrderFit(request[g], stage[g], read[g])'
    OBVIOUS
  <1>1. \/ stage'[g] = "idle"
        \/ stage'[g] = stage[g] /\ read'[g] = read[g] /\ request'[g] = request[g]
    BY DEF End, Step, RInv, HandlersFit
  <1>2. CASE stage'[g] = "idle"
    BY <1>2 DEF OrderFit
  <1>3. CASE stage'[g] = stage[g] /\ read'[g] = read[g] /\ request'[g] = request[g]
    <2>1. PICK q, s, r : q = request[g] /\ s = stage[g] /\ r = read[g]
      OBVIOUS
    <2>2. OrderFit(q, s, r)'
      BY <2>1, OrderFitKept DEF OInv
    <2> QED
      BY <1>3, <2>1, <2>2 DEF OrderFit, Existing
  <1> QED
    BY <1>1, <1>2, <1>3

\* Rows that stay where they are keep the order.
LEMMA RowsOrder ==
    ASSUME OInv, RowsKept, \A p \in Parts : row[p] = None => row'[p] = None
    PROVE  EarlierBelow'
  BY DEF OInv, EarlierBelow, RowsKept

LEMMA NextOInv == RInv /\ OInv /\ [Next]_vars => OInv'
  <1> SUFFICES ASSUME RInv, OInv, [Next]_vars PROVE OInv'
    OBVIOUS
  <1>1. CASE UNCHANGED vars
    BY <1>1 DEF vars, tables, OInv, EarlierBelow, OrderFit, Existing
  <1>2. ASSUME NEW h \in Handlers, InsertItem(h), read[h].new \notin Taken(request[h])
        PROVE  OInv'
    <2>1. EarlierBelow'
      <3> SUFFICES ASSUME NEW o \in Parts, row'[o] # None, NEW p \in row'[o].earlier
                   PROVE  p \in Parts /\ row'[p] # None /\ row'[p].position < row'[o].position
        BY DEF EarlierBelow
      <3>1. o \notin OwnPart(request[h].item)
        BY <1>2, ItemInserted
      <3>2. row'[o] = row[o]
        BY <1>2, <3>1, ItemInserted
      <3>3. p \in Parts /\ row[p] # None /\ row[p].position < row[o].position
        BY <3>2 DEF OInv, EarlierBelow
      <3> QED
        BY <1>2, <3>2, <3>3, ItemInserted DEF RowsKept
    <2>2. RowsKept /\ End(h)
      BY <1>2, ItemInserted DEF InsertItem
    <2> QED
      BY <2>1, <2>2, EndsOrder DEF OInv
  <1>3. ASSUME NEW h \in Handlers, InsertPart(h), read[h].new \notin Taken(request[h])
        PROVE  OInv'
    <2> DEFINE q == request[h]
    <2>1. /\ stage[h] = "insert" /\ q.op = "add" /\ q.part \in Parts /\ read[h].max \in Nat
          /\ row'[q.part].position = read[h].max + 1 /\ row'[q.part].earlier = read[h].earlier
          /\ \A p \in Parts \ {q.part} : row'[p] = row[p]
          /\ RowsKept
      BY <1>3, PartInserted
    <2>2. EarlierBelow'
      <3> SUFFICES ASSUME NEW o \in Parts, row'[o] # None, NEW p \in row'[o].earlier
                   PROVE  p \in Parts /\ row'[p] # None /\ row'[p].position < row'[o].position
        BY DEF EarlierBelow
      <3>1. CASE o = q.part
        <4>1. p \in Existing(q.item) /\ row[p].position <= read[h].max
          BY <2>1, <3>1 DEF OInv, OrderFit
        <4>2. p \in Parts /\ row[p] # None /\ row[p] \in Rows
          BY <4>1 DEF Existing, RInv, TablesFit, TablesTyped
        <4>3. row'[p] # None /\ row'[p].position = row[p].position /\ row[p].position \in Nat
          BY <2>1, <4>2 DEF RowsKept, Rows
        <4> QED
          BY <2>1, <3>1, <4>1, <4>2, <4>3
      <3>2. CASE o # q.part
        <4>1. p \in Parts /\ row[p] # None /\ row[p].position < row[o].position
          BY <2>1, <3>2 DEF OInv, EarlierBelow
        <4> QED
          BY <2>1, <3>2, <4>1 DEF RowsKept
      <3> QED
        BY <3>1, <3>2
    <2>3. End(h)
      BY <1>3 DEF InsertPart
    <2> QED
      BY <2>1, <2>2, <2>3, EndsOrder DEF OInv
  <1>4. ASSUME NEW h \in Handlers, Commit(h) PROVE OInv'
    <2>1. EarlierBelow'
      BY <1>4, CommitRows, RowsOrder
    <2>2. RowsKept /\ End(h)
      BY <1>4, CommitRows DEF Commit
    <2> QED
      BY <2>1, <2>2, EndsOrder DEF OInv
  <1>5. ASSUME NEW p \in Parts, DeletePart(p) PROVE OInv'
    <2>1. EarlierBelow'
      BY <1>5, DeletePartRows, RowsOrder
    <2>2. RowsKept /\ UNCHANGED <<stage, request, read>>
      BY <1>5, DeletePartRows DEF DeletePart
    <2> QED
      BY <2>1, <2>2, EndsOrder DEF OInv
  <1> QED
    BY <1>1, <1>2, <1>3, <1>4, <1>5, Steps, QuietOrder

\* A chapter follows every chapter that was there when its request began: no
\* position is taken back, and a position read later is not lower.
THEOREM OrderKept == Spec => []ChaptersInOrder
  <1>1. Init => OInv
    BY DEF Init, OInv, EarlierBelow, OrderFit
  <1>2. RInv /\ OInv /\ [Next]_vars => OInv'
    BY NextOInv
  <1>3. OInv => ChaptersInOrder
    BY DEF OInv, EarlierBelow, ChaptersInOrder
  <1> QED
    BY <1>1, <1>2, <1>3, RInvHolds, PTL DEF Spec

-----------------------------------------------------------------------------
(***************************************************************************)
(* Categories                                                              *)
(***************************************************************************)

\* What the choices in S after the first n name together.
Chosen(S, n) == UNION {S[k].cats : k \in n + 1..Len(S)}

\* What an update has not deleted of its item's categories was chosen by others that
\* committed since its deleteMany.
CatsFit(q, s, r) ==
    q.cats # None /\ s \in Cleared =>
        /\ r.from <= Len(asked[q.item])
        /\ cats[q.item] \ r.seen \subseteq Chosen(asked[q.item], r.from)

KInv == CategoriesKept /\ \A h \in Handlers : CatsFit(request[h], stage[h], read[h])

LEMMA ChosenMore ==
    ASSUME NEW S \in Seq(Choice), NEW one \in Choice, NEW n \in Nat, n <= Len(S)
    PROVE  /\ Last(Append(S, one)) = one /\ Append(S, one) # << >>
           /\ n <= Len(Append(S, one))
           /\ Chosen(Append(S, one), n) = Chosen(S, n) \cup one.cats
  <1> DEFINE T == Append(S, one)
             m == Len(S)
  <1>1. /\ m \in Nat /\ Len(T) = m + 1 /\ T[m + 1] = one
        /\ \A k \in 1..m : T[k] = S[k]
    OBVIOUS
  <1>2. Last(T) = one /\ T # << >>
    BY <1>1 DEF Last
  <1> HIDE DEF T
  <1>3. /\ \A k \in n + 1..m : k \in 1..m /\ k \in n + 1..m + 1
        /\ \A k \in n + 1..m + 1 : k \in n + 1..m \/ k = m + 1
        /\ m + 1 \in n + 1..m + 1
    BY <1>1
  <1>4. ASSUME NEW x, x \in Chosen(T, n) PROVE x \in Chosen(S, n) \cup one.cats
    <2>1. PICK k \in n + 1..m + 1 : x \in T[k].cats
      BY <1>1, <1>4 DEF Chosen
    <2>2. CASE k = m + 1
      BY <1>1, <2>1, <2>2
    <2>3. CASE k \in n + 1..m
      BY <1>1, <1>3, <2>1, <2>3 DEF Chosen
    <2> QED
      BY <1>3, <2>2, <2>3
  <1>5. ASSUME NEW x, x \in Chosen(S, n) PROVE x \in Chosen(T, n)
    <2>1. PICK k \in n + 1..m : x \in S[k].cats
      BY <1>5 DEF Chosen
    <2>2. k \in n + 1..Len(T) /\ x \in T[k].cats
      BY <1>1, <1>3, <2>1
    <2> QED
      BY <2>2 DEF Chosen
  <1>6. ASSUME NEW x, x \in one.cats PROVE x \in Chosen(T, n)
    BY <1>1, <1>3, <1>6 DEF Chosen
  <1> QED
    BY <1>1, <1>2, <1>4, <1>5, <1>6 DEF T

\* An update that deleted categories is a rename of an item that is there.
LEMMA ClearedRenames ==
    ASSUME RInv, NEW h \in Handlers, stage[h] \in Cleared, request[h].cats # None
    PROVE  /\ request[h].op = "rename" /\ request[h].item \in Items
           /\ slug[request[h].item] # None /\ read[h].from \in Nat
  <1>1. Fit(request[h], stage[h], read[h])
    BY DEF RInv, HandlersFit
  <1>2. stage[h] # "idle" /\ request[h].op \in {"rename", "save"} /\ request[h] \in Requests
    BY <1>1 DEF Fit, Cleared
  <1> QED
    BY <1>1, <1>2, RevisionAssumption DEF Fit, Read, Request

LEMMA QuietCats ==
    ASSUME RInv, KInv, NEW h \in Handlers, NEW q, NEW s, NEW r, Quiet(h, q, s, r)
    PROVE  KInv'
  <1>1. UNCHANGED <<cats, asked>>
    BY DEF Quiet, tables
  <1>2. /\ stage'[h] = s /\ read'[h] = r /\ request'[h] = q
        /\ \A g \in Handlers \ {h} :
              stage'[g] = stage[g] /\ read'[g] = read[g] /\ request'[g] = request[g]
    BY DEF Quiet, Moved, RInv, HandlersFit
  <1>3. CatsFit(q, s, r)
    <2> SUFFICES ASSUME q.cats # None, s \in Cleared
                 PROVE  /\ r.from <= Len(asked[q.item])
                        /\ cats[q.item] \ r.seen \subseteq Chosen(asked[q.item], r.from)
      BY DEF CatsFit
    <2>1. q \in Requests /\ q.op \in {"rename", "save"} /\ Fit(q, s, r)
      BY DEF Quiet, Fit, Cleared
    <2>2. q.op # "save" /\ q.item \in Items
      BY <2>1, RevisionAssumption DEF Request
    <2>3. GoesOn(h, q, s, r)
      <3>1. ~Begins(h, q, s, r)
        BY <2>2 DEF Begins, Cleared
      <3> QED
        BY <3>1 DEF Quiet, Cleared
    <2>4. CASE stage[h] \in Cleared
      BY <2>3, <2>4 DEF GoesOn, KInv, CatsFit
    <2>5. CASE stage[h] \notin Cleared
      <3>1. r.seen = cats[q.item] /\ r.from = Len(asked[q.item])
        BY <2>3, <2>5 DEF GoesOn
      <3>2. Len(asked[q.item]) \in Nat
        BY <2>2 DEF RInv, TablesFit, TablesTyped
      <3> QED
        BY <3>1, <3>2
    <2> QED
      BY <2>4, <2>5
  <1>4. ASSUME NEW g \in Handlers PROVE CatsFit(request[g], stage[g], read[g])'
    <2>1. CatsFit(request'[g], stage'[g], read'[g])
      BY <1>2, <1>3 DEF KInv
    <2> QED
      BY <1>1, <2>1 DEF CatsFit
  <1>5. CategoriesKept'
    BY <1>1 DEF KInv, CategoriesKept, SinceCleared
  <1> QED
    BY <1>4, <1>5 DEF KInv

\* A step that writes no categories, and ends a request at most.
LEMMA OthersCats ==
    ASSUME RInv, KInv, UNCHANGED <<cats, asked>>,
           \/ UNCHANGED <<stage, request, read>>
           \/ \E h \in Handlers : End(h)
    PROVE  KInv'
  <1>1. CategoriesKept'
    BY DEF KInv, CategoriesKept, SinceCleared
  <1>2. ASSUME NEW g \in Handlers PROVE CatsFit(request[g], stage[g], read[g])'
    <2>1. \/ stage'[g] = "idle"
          \/ stage'[g] = stage[g] /\ read'[g] = read[g] /\ request'[g] = request[g]
      BY DEF End, Step, RInv, HandlersFit
    <2>2. CASE stage'[g] = "idle"
      BY <2>2 DEF CatsFit, Cleared
    <2>3. CASE stage'[g] = stage[g] /\ read'[g] = read[g] /\ request'[g] = request[g]
      <3>1. CatsFit(request'[g], stage'[g], read'[g])
        BY <2>3 DEF KInv
      <3> QED
        BY <3>1 DEF CatsFit
    <2> QED
      BY <2>1, <2>2, <2>3
  <1> QED
    BY <1>1, <1>2 DEF KInv

\* The first choice comes with the insert: no update of the item has begun.
LEMMA InsertItemCats ==
    ASSUME RInv, KInv, NEW h \in Handlers, InsertItem(h), read[h].new \notin Taken(request[h])
    PROVE  KInv'
  <1> DEFINE q == request[h]
             i == q.item
  <1>0. End(h)
    BY DEF InsertItem
  <1>1. CASE q.cats = None
    BY <1>0, <1>1, ChoiceInserted, OthersCats
  <1>2. CASE q.cats # None
    <2>1. PICK one \in Choice :
             /\ one.cats = q.cats /\ one.from = 0 /\ i \in Items
             /\ cats' = [cats EXCEPT ![i] = q.cats] /\ asked' = [asked EXCEPT ![i] = <<one>>]
      BY <1>2, ChoiceInserted
    <2>2. /\ cats'[i] = one.cats /\ asked'[i] = <<one>>
          /\ \A j \in Items \ {i} : cats'[j] = cats[j] /\ asked'[j] = asked[j]
      BY <2>1 DEF RInv, TablesFit, TablesTyped
    <2>3. slug[i] = None
      BY ItemReady
    <2> HIDE DEF i
    <2>4. asked'[i] # << >> /\ Last(asked'[i]) = one /\ Chosen(asked'[i], 0) = one.cats
      <3>1. Len(<<one>>) = 1 /\ <<one>>[1] = one /\ <<one>> # << >>
        OBVIOUS
      <3>2. 0 + 1..1 = {1}
        BY SMT
      <3>3. Last(<<one>>) = one
        BY <3>1 DEF Last
      <3>4. Chosen(<<one>>, 0) = one.cats
        BY <3>1, <3>2 DEF Chosen
      <3> QED
        BY <2>2, <3>1, <3>3, <3>4
    <2>5. ASSUME NEW j \in Items
          PROVE  IF asked'[j] = << >> THEN cats'[j] = {}
                 ELSE /\ Last(asked'[j]).cats \subseteq cats'[j]
                      /\ cats'[j] \subseteq Chosen(asked'[j], Last(asked'[j]).from)
      <3>1. CASE j = i
        BY <2>1, <2>2, <2>4, <3>1
      <3>2. CASE j # i
        BY <2>2, <3>2 DEF KInv, CategoriesKept, SinceCleared, Chosen
      <3> QED
        BY <3>1, <3>2
    <2>6. CategoriesKept'
      BY <2>5 DEF CategoriesKept, SinceCleared, Chosen
    <2>7. ASSUME NEW g \in Handlers PROVE CatsFit(request[g], stage[g], read[g])'
      <3> SUFFICES ASSUME request'[g].cats # None, stage'[g] \in Cleared
                   PROVE  CatsFit(request[g], stage[g], read[g])'
        BY DEF CatsFit
      <3>1. stage'[g] = stage[g] /\ read'[g] = read[g] /\ request'[g] = request[g]
        BY <1>0 DEF End, Step, RInv, HandlersFit, Cleared
      <3>2. request[g].item \in Items \ {i}
        BY <2>3, <3>1, ClearedRenames
      <3>3. CatsFit(request[g], stage[g], read[g])
        BY DEF KInv
      <3> QED
        BY <2>2, <3>1, <3>2, <3>3 DEF CatsFit
    <2> QED
      BY <2>6, <2>7 DEF KInv
  <1> QED
    BY <1>1, <1>2

\* A commit leaves what the others chose since its deleteMany, and adds its own choice.
LEMMA CommitCats ==
    ASSUME RInv, KInv, NEW h \in Handlers, Commit(h)
    PROVE  KInv'
  <1> DEFINE q == request[h]
             i == q.item
  <1>0. End(h) /\ stage[h] \in Cleared
    BY DEF Commit, Cleared
  <1>1. CASE q.cats = None
    BY <1>0, <1>1, CommitChoice, OthersCats
  <1>2. CASE q.cats # None
    <2>1. PICK one \in Choice :
             /\ one.cats = q.cats /\ one.from = read[h].from /\ i \in Items
             /\ cats' = [cats EXCEPT ![i] = Categorised(h, q)]
             /\ asked' = [asked EXCEPT ![i] = Append(asked[i], one)]
             /\ asked[i] \in Seq(Choice)
      BY <1>2, CommitChoice
    <2>2. /\ cats'[i] = (cats[i] \ read[h].seen) \cup one.cats
          /\ asked'[i] = Append(asked[i], one)
          /\ \A j \in Items \ {i} : cats'[j] = cats[j] /\ asked'[j] = asked[j]
      BY <2>1 DEF RInv, TablesFit, TablesTyped, Categorised
    <2>3. /\ read[h].from \in Nat /\ read[h].from <= Len(asked[i])
          /\ cats[i] \ read[h].seen \subseteq Chosen(asked[i], read[h].from)
      BY <1>0, <1>2, ClearedRenames DEF KInv, CatsFit
    <2> HIDE DEF i
    <2>4. /\ asked'[i] # << >> /\ Last(asked'[i]) = one
          /\ Chosen(asked'[i], one.from) = Chosen(asked[i], read[h].from) \cup one.cats
      BY <2>1, <2>2, <2>3, ChosenMore
    <2>5. ASSUME NEW j \in Items
          PROVE  IF asked'[j] = << >> THEN cats'[j] = {}
                 ELSE /\ Last(asked'[j]).cats \subseteq cats'[j]
                      /\ cats'[j] \subseteq Chosen(asked'[j], Last(asked'[j]).from)
      <3>1. CASE j = i
        BY <2>2, <2>3, <2>4, <3>1
      <3>2. CASE j # i
        BY <2>2, <3>2 DEF KInv, CategoriesKept, SinceCleared, Chosen
      <3> QED
        BY <3>1, <3>2
    <2>6. CategoriesKept'
      BY <2>5 DEF CategoriesKept, SinceCleared, Chosen
    <2>7. ASSUME NEW g \in Handlers PROVE CatsFit(request[g], stage[g], read[g])'
      <3> SUFFICES ASSUME request'[g].cats # None, stage'[g] \in Cleared
                   PROVE  CatsFit(request[g], stage[g], read[g])'
        BY DEF CatsFit
      <3>1. stage'[g] = stage[g] /\ read'[g] = read[g] /\ request'[g] = request[g]
        BY <1>0 DEF End, Step, RInv, HandlersFit, Cleared
      <3> DEFINE o == request[g].item
                 n == read[g].from
      <3>2. o \in Items /\ n \in Nat
        BY <3>1, ClearedRenames
      <3>3. n <= Len(asked[o]) /\ cats[o] \ read[g].seen \subseteq Chosen(asked[o], n)
        BY <3>1 DEF KInv, CatsFit
      <3>4. n <= Len(asked'[o]) /\ cats'[o] \ read[g].seen \subseteq Chosen(asked'[o], n)
        <4> HIDE DEF o, n
        <4>1. CASE o # i
          BY <2>2, <3>2, <3>3, <4>1
        <4>2. CASE o = i
          <5>1. /\ n <= Len(asked'[i])
                /\ Chosen(asked'[i], n) = Chosen(asked[i], n) \cup one.cats
            BY <2>1, <2>2, <3>2, <3>3, <4>2, ChosenMore
          <5> QED
            BY <2>2, <3>3, <4>2, <5>1
        <4> QED
          BY <4>1, <4>2
      <3> QED
        BY <3>1, <3>4 DEF CatsFit
    <2> QED
      BY <2>6, <2>7 DEF KInv
  <1> QED
    BY <1>1, <1>2

LEMMA NextKInv == RInv /\ KInv /\ [Next]_vars => KInv'
  <1> SUFFICES ASSUME RInv, KInv, [Next]_vars PROVE KInv'
    OBVIOUS
  <1>1. CASE UNCHANGED vars
    BY <1>1, OthersCats DEF vars, tables
  <1>2. ASSUME NEW h \in Handlers, InsertPart(h), read[h].new \notin Taken(request[h])
        PROVE  KInv'
    BY <1>2, OthersCats DEF InsertPart
  <1>3. ASSUME NEW p \in Parts, DeletePart(p) PROVE KInv'
    BY <1>3, OthersCats DEF DeletePart
  <1> QED
    BY <1>1, <1>2, <1>3, Steps, QuietCats, InsertItemCats, CommitCats

\* An item carries all categories of the last committed choice, and beyond them
\* only what others chose that committed between its deleteMany and its commit.
THEOREM CategoriesStay == Spec => []CategoriesKept
  <1>1. Init => KInv
    BY DEF Init, KInv, CategoriesKept, CatsFit, Cleared
  <1>2. RInv /\ KInv /\ [Next]_vars => KInv'
    BY NextKInv
  <1>3. KInv => CategoriesKept
    BY DEF KInv
  <1> QED
    BY <1>1, <1>2, <1>3, RInvHolds, PTL DEF Spec

-----------------------------------------------------------------------------
(***************************************************************************)
(* Redirects                                                               *)
(***************************************************************************)

\* Every slug an item had before is redirected.
HeldRedirected ==
    \A i \in Items : \A s \in held[i] : s # slug[i] => redirect[Path(i, s)] # None

\* The unique index on from_path: one transaction at most writes a redirect
\* from a slug, and none if there is one already.
RedirectOnce ==
    \A p \in Paths : \A g, h \in RedirectingFrom(p) : g = h /\ redirect[p] = None

DInv == HeldRedirected /\ RedirectOnce /\ RedirectsLeadHome

LEMMA QuietRedirects ==
    ASSUME RInv, DInv, NEW h \in Handlers, NEW q, NEW s, NEW r, Quiet(h, q, s, r)
    PROVE  DInv'
  <1>1. UNCHANGED <<slug, held, redirect>>
    BY DEF Quiet, tables
  <1>2. HeldRedirected' /\ RedirectsLeadHome'
    BY <1>1 DEF DInv, HeldRedirected, RedirectsLeadHome, Closed
  <1>3. /\ stage'[h] = s /\ read'[h] = r /\ request'[h] = q
        /\ \A g \in Handlers \ {h} :
              stage'[g] = stage[g] /\ read'[g] = read[g] /\ request'[g] = request[g]
    BY DEF Quiet, Moved, RInv, HandlersFit
  <1>4. ASSUME NEW t \in Paths PROVE \A g, f \in RedirectingFrom(t)' : g = f /\ redirect[t] = None
    <2>1. \A g \in Handlers \ {h} : g \in RedirectingFrom(t)' => g \in RedirectingFrom(t)
      BY <1>3 DEF RedirectingFrom, OldPath
    <2>2. CASE h \in RedirectingFrom(t) \/ h \notin RedirectingFrom(t)'
      <3>1. h \in RedirectingFrom(t)' => h \in RedirectingFrom(t)
        BY <2>2
      <3> QED
        BY <2>1, <3>1 DEF RedirectingFrom, DInv, RedirectOnce
    <2>3. CASE h \notin RedirectingFrom(t) /\ h \in RedirectingFrom(t)'
      <3>1. s \in Redirected /\ q.op = "rename" /\ r.new # None /\ Path(q.item, r.old) = t
        BY <1>3, <2>3 DEF RedirectingFrom, Redirected, OldPath
      <3>2. ~Begins(h, q, s, r)
        BY <3>1 DEF Begins
      <3>3. GoesOn(h, q, s, r)
        BY <3>1, <3>2 DEF Quiet, Redirected
      <3>4. stage[h] \notin Redirected
        BY <2>3, <3>1, <3>3 DEF GoesOn, RedirectingFrom, Redirected, OldPath
      <3>5. RedirectingFrom(t) = {} /\ redirect[t] = None
        BY <3>1, <3>3, <3>4 DEF GoesOn, OldPath
      <3> QED
        BY <2>1, <3>5 DEF RedirectingFrom
    <2> QED
      BY <2>2, <2>3
  <1>5. RedirectOnce'
    BY <1>1, <1>4 DEF RedirectOnce
  <1> QED
    BY <1>2, <1>5 DEF DInv

\* Requests that end write no more redirects.
LEMMA EndRedirects ==
    ASSUME RInv, NEW h \in Handlers, End(h)
    PROVE  \A s : RedirectingFrom(s)' \subseteq RedirectingFrom(s) \ {h}
  BY DEF RInv, HandlersFit, End, Step, RedirectingFrom, OldPath

LEMMA InsertItemRedirects ==
    ASSUME RInv, DInv, NEW h \in Handlers, InsertItem(h), read[h].new \notin Taken(request[h])
    PROVE  DInv'
  <1> DEFINE i == request[h].item
             new == read[h].new
  <1>1. /\ redirect' = redirect /\ End(h)
        /\ slug' = [slug EXCEPT ![i] = new] /\ held' = [held EXCEPT ![i] = {new}]
    BY DEF InsertItem
  <1>2. /\ slug'[i] = new /\ held'[i] = {new}
        /\ \A j \in Items \ {i} : slug'[j] = slug[j] /\ held'[j] = held[j]
    BY <1>1, ItemReady DEF RInv, TablesFit, TablesTyped
  <1> HIDE DEF i, new
  <1>3. HeldRedirected'
    BY <1>1, <1>2 DEF DInv, HeldRedirected
  <1>4. \A j, S : Closed(j, S)' <=> Closed(j, S)
    BY <1>1 DEF Closed
  <1>5. RedirectsLeadHome'
    BY <1>2, <1>4 DEF DInv, RedirectsLeadHome
  <1>6. RedirectOnce'
    BY <1>1, EndRedirects DEF DInv, RedirectOnce
  <1> QED
    BY <1>3, <1>5, <1>6 DEF DInv

\* A committed rename leads the old slug to the new one.  Nobody else redirected
\* the old slug, so it was the current one, and what led to it leads on.
LEMMA CommitRedirects ==
    ASSUME RInv, DInv, NEW h \in Handlers, Commit(h)
    PROVE  DInv'
  <1> DEFINE q == request[h]
             i == q.item
             old == read[h].old
             new == read[h].new
             path == Path(i, old)
  <1>0. End(h)
    BY DEF Commit
  <1>1. CASE ~(q.op = "rename" /\ new # None)
    <2>1. UNCHANGED <<slug, held, redirect>>
      BY <1>1, CommitSlugs
    <2>2. HeldRedirected' /\ RedirectsLeadHome'
      BY <2>1 DEF DInv, HeldRedirected, RedirectsLeadHome, Closed
    <2>3. RedirectOnce'
      BY <1>0, <2>1, EndRedirects DEF DInv, RedirectOnce
    <2> QED
      BY <2>2, <2>3 DEF DInv
  <1>2. CASE q.op = "rename" /\ new # None
    <2>1. /\ i \in Items /\ new \in Slugs /\ old \in Slugs
          /\ redirect' = [redirect EXCEPT ![path] = new] /\ path \in Paths
          /\ slug'[i] = new /\ held'[i] = held[i] \cup {new}
          /\ \A j \in Items \ {i} : slug'[j] = slug[j] /\ held'[j] = held[j]
      BY <1>2, CommitSlugs DEF OldPath, Path, Paths
    <2>2. redirect'[path] = new /\ \A p \in Paths \ {path} : redirect'[p] = redirect[p]
      BY <2>1 DEF RInv, TablesFit, TablesTyped
    <2>3. stage[h] = "commit" /\ old \in held[i]
      BY <1>2, CommitReady
    <2>4. h \in RedirectingFrom(path)
      BY <1>2, <2>3 DEF RedirectingFrom, OldPath
    <2>5. redirect[path] = None /\ \A g \in RedirectingFrom(path) : g = h
      BY <2>1, <2>4 DEF DInv, RedirectOnce
    <2>6. slug[i] = old
      BY <2>1, <2>3, <2>5 DEF DInv, HeldRedirected
    <2>7. \A j \in Items : held[j] \subseteq Slugs
      BY DEF RInv, TablesFit, TablesTyped
    <2>11. \A j \in Items : \A s \in Slugs : Path(j, s) \in Paths
      BY DEF Path, Paths
    <2>12. \A j \in Items, s \in Slugs : Path(j, s) = path => s = old
      BY DEF Path
    <2> HIDE DEF i, old, new, q, path
    <2>8. HeldRedirected'
      <3> SUFFICES ASSUME NEW j \in Items, NEW s \in held'[j], s # slug'[j]
                   PROVE  redirect'[Path(j, s)] # None
        BY DEF HeldRedirected
      <3>1. s \in held[j] /\ s \in Slugs
        BY <2>1, <2>7
      <3>2. CASE Path(j, s) = path
        BY <1>2, <2>2, <3>2
      <3>3. CASE Path(j, s) # path
        <4>1. s # slug[j]
          BY <2>1, <2>6, <3>3 DEF path
        <4>2. redirect[Path(j, s)] # None
          BY <3>1, <4>1 DEF DInv, HeldRedirected
        <4> QED
          BY <2>2, <2>11, <3>1, <3>3, <4>2
      <3> QED
        BY <3>2, <3>3
    <2>9. RedirectsLeadHome'
      <3> SUFFICES ASSUME NEW j \in Items, NEW s \in held'[j], NEW S \in SUBSET Slugs,
                          s \in S, Closed(j, S)'
                   PROVE  slug'[j] \in S
        BY DEF RedirectsLeadHome
      <3>1. Closed(j, S)
        <4> SUFFICES ASSUME NEW t \in S, redirect[Path(j, t)] # None PROVE redirect[Path(j, t)] \in S
          BY DEF Closed
        <4>1. redirect'[Path(j, t)] = redirect[Path(j, t)]
          BY <2>2, <2>5, <2>11
        <4> QED
          BY <4>1 DEF Closed
      <3>2. s \in held[j] => slug[j] \in S
        BY <3>1 DEF DInv, RedirectsLeadHome
      <3>3. j = i /\ old \in S => new \in S
        BY <1>2, <2>2 DEF Closed, path
      <3> QED
        BY <2>1, <2>6, <3>2, <3>3
    <2>10. RedirectOnce'
      <3> SUFFICES ASSUME NEW p \in Paths, NEW g \in RedirectingFrom(p)',
                          NEW f \in RedirectingFrom(p)'
                   PROVE  g = f /\ redirect'[p] = None
        BY DEF RedirectOnce
      <3>1. g \in RedirectingFrom(p) \ {h} /\ f \in RedirectingFrom(p) \ {h}
        BY <1>0, EndRedirects
      <3>2. p # path
        BY <2>5, <3>1
      <3> QED
        BY <2>2, <3>1, <3>2 DEF DInv, RedirectOnce
    <2> QED
      BY <2>8, <2>9, <2>10 DEF DInv
  <1> QED
    BY <1>1, <1>2

LEMMA NextDInv == RInv /\ DInv /\ [Next]_vars => DInv'
  <1> SUFFICES ASSUME RInv, DInv, [Next]_vars PROVE DInv'
    OBVIOUS
  <1>1. CASE UNCHANGED <<slug, held, redirect, stage, request, read>>
    BY <1>1 DEF DInv, HeldRedirected, RedirectsLeadHome, Closed, RedirectOnce, RedirectingFrom, OldPath
  <1>2. ASSUME NEW h \in Handlers, InsertPart(h), read[h].new \notin Taken(request[h])
        PROVE  DInv'
    <2>1. UNCHANGED <<slug, held, redirect>> /\ End(h)
      BY <1>2 DEF InsertPart
    <2>2. HeldRedirected' /\ RedirectsLeadHome'
      BY <2>1 DEF DInv, HeldRedirected, RedirectsLeadHome, Closed
    <2>3. RedirectOnce'
      BY <2>1, EndRedirects DEF DInv, RedirectOnce
    <2> QED
      BY <2>2, <2>3 DEF DInv
  <1>3. CASE UNCHANGED vars
    BY <1>1, <1>3 DEF vars, tables
  <1>4. CASE \E p \in Parts : DeletePart(p)
    BY <1>1, <1>4 DEF DeletePart
  <1> QED
    BY <1>2, <1>3, <1>4, Steps, QuietRedirects, InsertItemRedirects, CommitRedirects

\* No slug an item ever had is lost: every set of slugs that holds one of them
\* and is closed under the redirects holds the item's current slug.
THEOREM OldSlugsLead == Spec => []RedirectsLeadHome
  <1>1. Init => DInv
    BY DEF Init, DInv, HeldRedirected, RedirectOnce, RedirectsLeadHome, RedirectingFrom
  <1>2. RInv /\ DInv /\ [Next]_vars => DInv'
    BY NextDInv
  <1>3. DInv => RedirectsLeadHome
    BY DEF DInv
  <1> QED
    BY <1>1, <1>2, <1>3, RInvHolds, PTL DEF Spec
=============================================================================
