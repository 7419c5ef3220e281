--------------------------- MODULE RevisionHistory ---------------------------
(***************************************************************************)
(* Slugs, redirects, categories, chapter positions and saved versions: the *)
(* parts of apps/api/src/routes/content.ts that number and name rows.      *)
(*                                                                         *)
(* A request chooses slugs and positions by SELECTs before its transaction *)
(* begins; version numbers are chosen inside it, behind the row lock of    *)
(* the update before.  A transaction's writes become visible when it       *)
(* commits; until then its unique-index entries and row locks make others  *)
(* wait.                                                                   *)
(***************************************************************************)
EXTENDS Integers, FiniteSets, Sequences, SequencesExt

CONSTANTS
    Items, Articles,   \* contents, and those with a single part
    Parts, ItemOf,     \* content_parts and the item of each
    Titles, Slugs,
    Candidates,        \* the slugs that uniqueSlug tries for a title, in order
    Categories,
    Bodies,
    Requests,          \* what creators ask for
    Handlers,          \* concurrent requests
    None               \* a field the request leaves out; a row that is missing

\* title, body, cats: None when the request does not set them.
Request == [op : {"create", "rename", "add", "save"}, item : Items, part : Parts \cup {None},
            title : Titles \cup {None}, body : Bodies \cup {None},
            cats : {None} \cup SUBSET Categories]

\* A row of content_parts.
Rows == [position : Nat \ {0}, slug : Slugs \cup {None}, body : Bodies \cup {None},
         earlier : SUBSET Parts, deleted : BOOLEAN]

ASSUME RevisionAssumption ==
    /\ Articles \subseteq Items /\ ItemOf \in [Parts -> Items]
    /\ Candidates \in [Titles -> Seq(Slugs)]
    /\ Requests \subseteq Request
    /\ None \notin Parts \cup Titles \cup Slugs \cup Bodies
    /\ None \notin Request /\ None \notin Rows
    /\ \A C \in SUBSET Categories : C # None
    /\ \A p, q \in Parts : ItemOf[p] = ItemOf[q] /\ ItemOf[p] \in Articles => p = q
    /\ \A q \in Requests :    \* what the routes and their schemas let through
          /\ q.op = "create" => q.part = None
          /\ q.op \in {"create", "add"} => q.title # None
          /\ q.op = "add" => q.body # None
          /\ q.op \in {"add", "save"} =>
                /\ q.part \in Parts /\ ItemOf[q.part] = q.item /\ q.item \notin Articles
                /\ q.cats = None

\* The path of item i while it has slug s; articles and stories have prefixes of their own.
Paths == {"articles", "stories"} \X Slugs
Path(i, s) == <<IF i \in Articles THEN "articles" ELSE "stories", s>>

\* The part an article's update writes along.
OwnPart(i) == IF i \in Articles THEN {p \in Parts : ItemOf[p] = i} ELSE {}

VARIABLES
    title, slug,   \* title[i], slug[i] of the contents row, or None
    cats,          \* cats[i]: its content_categories rows
    redirect,      \* redirect[p]: the slug a redirect leads from path p to, or None
    row,           \* row[p]: the content_parts row, or None
    versions,      \* versions[p]: its content_versions rows, in commit order
    held,          \* history: the slugs item i has had
    asked,         \* history: asked[i]: what each commit chose as i's categories, and how
                   \* many had been committed when it deleted those before
    stage,         \* stage[h]: "idle", or the next operation of h
    request,       \* request[h]: what h serves
    read           \* read[h]: what h has read and chosen so far

tables == <<title, slug, cats, redirect, row, versions, held, asked>>
vars   == <<tables, stage, request, read>>

NothingRead == [try |-> 1, old |-> None, new |-> None, max |-> 0,
                seen |-> {}, from |-> 0, earlier |-> {}]

Init ==
    /\ title = [i \in Items |-> None] /\ slug = [i \in Items |-> None]
    /\ cats = [i \in Items |-> {}] /\ asked = [i \in Items |-> << >>]
    /\ redirect = [p \in Paths |-> None]
    /\ row = [p \in Parts |-> None] /\ versions = [p \in Parts |-> << >>]
    /\ held = [i \in Items |-> {}]
    /\ stage = [h \in Handlers |-> "idle"]
    /\ request = [h \in Handlers |-> None]
    /\ read = [h \in Handlers |-> NothingRead]

-----------------------------------------------------------------------------

\* The request moves on to stage s, having read r.
Step(h, s, r) ==
    /\ stage' = [stage EXCEPT ![h] = s]
    /\ read' = [read EXCEPT ![h] = r]

End(h) ==
    /\ Step(h, "idle", NothingRead)
    /\ request' = [request EXCEPT ![h] = None]

\* The parts of item i that exist, deleted ones included.
Existing(i) == {p \in Parts : ItemOf[p] = i /\ row[p] # None}
Positions(i) == {row[p].position : p \in Existing(i)}

\* The part whose body and version the request writes, if any.
Saved(q) == IF q.op = "save" THEN {q.part}
            ELSE IF q.op = "rename" /\ (q.body # None \/ q.title # None)
            THEN OwnPart(q.item) ELSE {}

\* The first operation after a slug was found or needs none.
AfterSlug(q) == CASE q.op = "create" -> "insert" [] q.op = "add" -> "position"
                  [] q.op = "rename" -> "redirect" [] q.op = "save" -> "update"

\* The request is accepted (404, 403 and 422 change nothing); a rename keeps the
\* row that requireOwnedItem read.
Begin(h, q) ==
    /\ stage[h] = "idle"
    /\ CASE q.op = "create" -> slug[q.item] = None
         [] q.op = "add"    -> slug[q.item] # None /\ row[q.part] = None
         [] q.op = "rename" -> slug[q.item] # None
         [] q.op = "save"   -> row[q.part] # None /\ ~row[q.part].deleted
    /\ \A g \in Handlers :    \* rows to be inserted get fresh ids
          q.op \in {"create", "add"} /\ stage[g] # "idle"
            => ~(request[g].op = q.op /\ request[g].item = q.item /\ request[g].part = q.part)
    /\ request' = [request EXCEPT ![h] = q]
    /\ LET new == q.op # "save" /\ q.title # None /\ (q.op = "rename" => q.title # title[q.item])
       IN Step(h, IF new THEN "slug" ELSE AfterSlug(q),
               [NothingRead EXCEPT !.old = slug[q.item], !.earlier = Existing(q.item)])
    /\ UNCHANGED tables

\* The slugs that the uniqueSlug of request q finds in use.
Taken(q) == IF q.op = "add" THEN {row[p].slug : p \in Existing(q.item)}
            ELSE {slug[i] : i \in Items}

\* uniqueSlug: one SELECT for each candidate, 409 after the last.
TrySlug(h) ==
    LET q == request[h]
        tried == Candidates[q.title]
        n == read[h].try
    IN /\ stage[h] = "slug"
       /\ IF n > Len(tried) THEN End(h)
          ELSE /\ IF tried[n] \in Taken(q) THEN Step(h, "slug", [read[h] EXCEPT !.try = n + 1])
                  ELSE Step(h, AfterSlug(q), [read[h] EXCEPT !.new = tried[n]])
               /\ UNCHANGED request
       /\ UNCHANGED tables

\* Mutant: deleted chapters do not count.
HighestLive(i) == Max({0} \cup {row[p].position : p \in {q \in Existing(i) : ~row[q].deleted}})

Highest(i) == Max({0} \cup Positions(i))

\* POST .../chapters: the aggregate over all positions, deleted chapters included.
ReadPosition(h) ==
    /\ stage[h] = "position"
    /\ Step(h, "insert", [read[h] EXCEPT !.max = Highest(request[h].item)])
    /\ UNCHANGED <<tables, request>>

\* The unique index lets the slug in, or throws.
InsertItem(h) ==
    LET q == request[h] IN
    /\ stage[h] = "insert" /\ q.op = "create"
    /\ IF read[h].new \in Taken(q) THEN UNCHANGED tables
       ELSE /\ title' = [title EXCEPT ![q.item] = q.title]
            /\ slug' = [slug EXCEPT ![q.item] = read[h].new]
            /\ held' = [held EXCEPT ![q.item] = {read[h].new}]
            /\ row' = [p \in Parts |->
                         IF p \in OwnPart(q.item)
                         THEN [position |-> 1, slug |-> None, body |-> q.body,
                               earlier |-> {}, deleted |-> FALSE]
                         ELSE row[p]]
            /\ IF q.cats = None THEN UNCHANGED <<cats, asked>>
               ELSE /\ cats' = [cats EXCEPT ![q.item] = q.cats]
                    /\ asked' = [asked EXCEPT ![q.item] = <<[cats |-> q.cats, from |-> 0]>>]
            /\ UNCHANGED <<redirect, versions>>
    /\ End(h)

\* ... the chapter with its first version.
InsertPart(h) ==
    LET q == request[h] IN
    /\ stage[h] = "insert" /\ q.op = "add"
    /\ IF read[h].new \in Taken(q) THEN UNCHANGED tables
       ELSE /\ row' = [row EXCEPT ![q.part] =
                         [position |-> read[h].max + 1, slug |-> read[h].new, body |-> q.body,
                          earlier |-> read[h].earlier, deleted |-> FALSE]]
            /\ versions' = [versions EXCEPT ![q.part] = <<[number |-> 1, body |-> q.body]>>]
            /\ UNCHANGED <<title, slug, cats, redirect, held, asked>>
    /\ End(h)

-----------------------------------------------------------------------------
(***************************************************************************)
(* The transactions of the two PATCH routes                                *)
(***************************************************************************)

\* The path that a rename of h leaves.
OldPath(h) == Path(request[h].item, read[h].old)

\* Transactions that have inserted a redirect from p.
RedirectingFrom(p) == {g \in Handlers : stage[g] \in {"clear", "update", "number", "commit"}
                          /\ request[g].op = "rename" /\ read[g].new # None /\ OldPath(g) = p}

\* Mutant: an older redirect is overwritten (upsert).
UpsertRedirect(h) ==
    /\ stage[h] = "redirect"
    /\ read[h].new # None => RedirectingFrom(OldPath(h)) = {}
    /\ Step(h, "clear", read[h]) /\ UNCHANGED <<tables, request>>

\* redirect.create, when the slug changes: from_path is unique, so it waits for
\* another transaction's and throws on a committed one.
InsertRedirect(h) ==
    /\ stage[h] = "redirect"
    /\ read[h].new # None => RedirectingFrom(OldPath(h)) = {}
    /\ IF read[h].new # None /\ redirect[OldPath(h)] # None THEN End(h)
       ELSE Step(h, "clear", read[h]) /\ UNCHANGED request
    /\ UNCHANGED tables

\* contentCategory.deleteMany of the rows it sees, and where the article goes on.
ClearCategories(h) ==
    LET q == request[h] IN
    /\ stage[h] = "clear"
    /\ Step(h, IF Saved(q) = {} THEN "commit" ELSE "update",
            IF q.cats = None THEN read[h]
            ELSE [read[h] EXCEPT !.seen = cats[q.item], !.from = Len(asked[q.item])])
    /\ UNCHANGED <<tables, request>>

\* Transactions that hold the lock of part p.
Lockers(p) == {g \in Handlers : stage[g] \in {"number", "commit"} /\ p \in Saved(request[g])}

\* contentPart.update takes the lock of the row.
Update(h) ==
    /\ stage[h] = "update"
    /\ \A p \in Saved(request[h]) : Lockers(p) = {}
    /\ Step(h, IF request[h].body = None THEN "commit" ELSE "number", read[h])
    /\ UNCHANGED <<tables, request>>

\* The aggregate over the version numbers, for a request that brings a body.
ReadNumber(h) ==
    /\ stage[h] = "number"
    /\ Step(h, "commit",
            [read[h] EXCEPT !.max =
                Max({0} \cup UNION {{v.number : v \in Range(versions[p])} : p \in Saved(request[h])})])
    /\ UNCHANGED <<tables, request>>

\* Mutant: the version keeps the body that the update replaced.
SavedVersionsStale(h, q) ==
    [p \in Parts |-> IF p \in Saved(q) /\ q.body # None
                     THEN Append(versions[p], [number |-> read[h].max + 1, body |-> row[p].body])
                     ELSE versions[p]]

\* The body and the version that q's transaction writes.
SavedRows(q) ==
    [p \in Parts |-> IF p \in Saved(q) /\ q.body # None THEN [row[p] EXCEPT !.body = q.body]
                     ELSE row[p]]
SavedVersions(h, q) ==
    [p \in Parts |-> IF p \in Saved(q) /\ q.body # None
                     THEN Append(versions[p], [number |-> read[h].max + 1, body |-> q.body])
                     ELSE versions[p]]

\* A unique index refuses the transaction: a version number, a category that is
\* already there, or a slug.
Collides(h, q) ==
    \/ \E p \in Saved(q) : q.body # None /\ \E v \in Range(versions[p]) : v.number = read[h].max + 1
    \/ q.cats # None /\ q.cats \cap (cats[q.item] \ read[h].seen) # {}
    \/ q.op = "rename" /\ read[h].new # None
         /\ \E i \in Items \ {q.item} : slug[i] = read[h].new

\* Mutant: the old rows are deleted after the new ones are written.
CategorisedFirst(h, q) == (cats[q.item] \cup q.cats) \ read[h].seen

\* The categories of q's item after its transaction.
Categorised(h, q) == (cats[q.item] \ read[h].seen) \cup q.cats

\* content.update for an item, and the commit.
Commit(h) ==
    LET q == request[h] IN
    /\ stage[h] = "commit"
    /\ ~Collides(h, q)
    /\ row' = SavedRows(q)
    /\ versions' = SavedVersions(h, q)
    /\ title' = IF q.op = "rename" /\ q.title # None THEN [title EXCEPT ![q.item] = q.title] ELSE title
    /\ IF q.op = "rename" /\ read[h].new # None
       THEN /\ redirect' = [redirect EXCEPT ![OldPath(h)] = read[h].new]
            /\ slug' = [slug EXCEPT ![q.item] = read[h].new]
            /\ held' = [held EXCEPT ![q.item] = @ \cup {read[h].new}]
       ELSE UNCHANGED <<redirect, slug, held>>
    /\ IF q.cats # None
       THEN /\ cats' = [cats EXCEPT ![q.item] = Categorised(h, q)]
            /\ asked' = [asked EXCEPT ![q.item] = Append(@, [cats |-> q.cats, from |-> read[h].from])]
       ELSE UNCHANGED <<cats, asked>>
    /\ End(h)

\* Mutant: the request forgets to answer.
ThrowSilently(h) == stage[h] = "commit" /\ Collides(h, request[h]) /\ UNCHANGED vars

\* The transaction is rolled back: a unique index, a timeout, a lost connection.
Abort(h) ==
    /\ stage[h] # "idle"
    /\ End(h)
    /\ UNCHANGED tables

\* DELETE of a chapter keeps the row.
DeletePart(p) ==
    /\ row[p] # None /\ ~row[p].deleted /\ ItemOf[p] \notin Articles
    /\ Lockers(p) = {}
    /\ row' = [row EXCEPT ![p].deleted = TRUE]
    /\ UNCHANGED <<title, slug, cats, redirect, versions, held, asked, stage, request, read>>

-----------------------------------------------------------------------------

\* What the database and the event loop do next for h, unless it fails.
Proceed(h) ==
    \/ TrySlug(h) \/ ReadPosition(h) \/ InsertItem(h) \/ InsertPart(h)
    \/ InsertRedirect(h) \/ ClearCategories(h) \/ Update(h) \/ ReadNumber(h) \/ Commit(h)

\* A transaction that the unique index refuses throws.
Throw(h) == stage[h] = "commit" /\ Collides(h, request[h]) /\ Abort(h)

Next ==
    \/ \E h \in Handlers :
          (\E q \in Requests : Begin(h, q)) \/ Proceed(h) \/ Throw(h) \/ Abort(h)
    \/ \E p \in Parts : DeletePart(p)

Spec == Init /\ [][Next]_vars

\* PostgreSQL runs what it can, and serves those who wait in turn.
Fairness(h) == WF_vars(Proceed(h) \/ Throw(h)) /\ SF_vars(InsertRedirect(h) \/ Update(h))

-----------------------------------------------------------------------------
(***************************************************************************)
(* Properties                                                              *)
(***************************************************************************)

Read == [try : Nat \ {0}, old : Slugs \cup {None}, new : Slugs \cup {None}, max : Nat,
         seen : SUBSET Categories, from : Nat, earlier : SUBSET Parts]

\* Types of the tables and of what the requests have read, and that a
\* request is past its uniqueSlug only with a slug of its own title.
TypeOK ==
    /\ title \in [Items -> Titles \cup {None}] /\ slug \in [Items -> Slugs \cup {None}]
    /\ cats \in [Items -> SUBSET Categories]
    /\ asked \in [Items -> Seq([cats : SUBSET Categories, from : Nat])]
    /\ redirect \in [Paths -> Slugs \cup {None}] /\ held \in [Items -> SUBSET Slugs]
    /\ row \in [Parts -> Rows \cup {None}]
    /\ versions \in [Parts -> Seq([number : Nat \ {0}, body : Bodies])]
    /\ stage \in [Handlers -> {"idle", "slug", "position", "insert", "redirect", "clear",
                               "update", "number", "commit"}]
    /\ request \in [Handlers -> Request \cup {None}] /\ read \in [Handlers -> Read]
    /\ \A h \in Handlers :
          /\ stage[h] = "idle" <=> request[h] = None
          /\ read[h].new # None => read[h].new \in Range(Candidates[request[h].title])

\* docs/ARCHITECTURE.md, revision history: whatever saves overlap or fail, the
\* versions of a chapter are numbered 1, 2, 3 without a gap, and the last one
\* is the body it has now.  An article's history begins with its first save.
HistoryComplete ==
    \A p \in Parts : row[p] # None =>
        /\ \A k \in 1..Len(versions[p]) : versions[p][k].number = k
        /\ ItemOf[p] \notin Articles => versions[p] # << >>
        /\ versions[p] # << >> => Last(versions[p]).body = row[p].body

\* S has every slug that redirects of i's section lead to from S.
Closed(i, S) == \A s \in S : redirect[Path(i, s)] # None => redirect[Path(i, s)] \in S

\* docs/SEO.md, "Redirects": no slug an item ever had is lost.  The redirects
\* lead from each of them to its current one, though renames overlap, read
\* a stale slug or come back to an old one, and other items take freed slugs.
RedirectsLeadHome ==
    \A i \in Items : \A s \in held[i] :
        \A S \in SUBSET Slugs : s \in S /\ Closed(i, S) => slug[i] \in S

\* A chapter follows, in reading order, every chapter of its item that was there
\* when its request began; deleted ones are not numbered again.
ChaptersInOrder ==
    \A q \in Parts : row[q] # None =>
        \A p \in row[q].earlier : row[p].position < row[q].position

\* The choices that were committed since the last one deleted those before it.
SinceCleared(i) == {asked[i][k].cats : k \in Last(asked[i]).from + 1..Len(asked[i])}

\* However updates of an item overlap, fail or collide, it carries all categories that
\* the last committed one chose, and beyond them only what others chose that committed
\* between its deleteMany and its own commit: no choice that an update could see stays,
\* and two updates that do not overlap never mix.
CategoriesKept ==
    \A i \in Items :
        IF asked[i] = << >> THEN cats[i] = {}
        ELSE /\ Last(asked[i]).cats \subseteq cats[i]
             /\ cats[i] \subseteq UNION SinceCleared(i)

\* Every request ends: waits for a redirect's index entry and for a row's lock
\* never close a ring.
RequestsEnd == \A h \in Handlers : stage[h] # "idle" ~> stage[h] = "idle"
=============================================================================
