------------------------------- MODULE Taxonomy -------------------------------
(***************************************************************************)
(* The categories that all creators share: the routes that find, create,   *)
(* rename and delete them (apps/api/src/routes/creator.ts), the picker of  *)
(* one creator's form (CategoryPicker.tsx, ContentMetadataForm.tsx), and   *)
(* the links to a category's page.                                         *)
(***************************************************************************)
EXTENDS Integers, FiniteSets

CONSTANTS
    Categories,    \* ids, given out in order
    Names,         \* what is typed
    Fold,          \* Fold[name]: the same name in small letters
    MaxRequests    \* requests, numbered as they are sent

\* There are ids enough for every request to create a category.
ASSUME TaxonomyAssumption ==
    /\ Cardinality(Categories) \in Nat /\ Categories = 1..Cardinality(Categories)
    /\ MaxRequests \in Categories
    /\ Fold \in [Names -> Names] /\ \A x \in Names : Fold[Fold[x]] = Fold[x]

VARIABLES
    category,      \* category[c]: the categories row, once it is there
    asked,         \* asked[n]: the n-th request
    picker,        \* what the form knows and shows
    stored,        \* the item's content_categories rows
    led            \* history: <<slug, id>> of every link there has been

taxonomyVars == <<category, asked, picker, stored, led>>

Numbers == 1..MaxRequests

\* slug: <<folded name, n>>, the n-th candidate of uniqueSlug; seen: history, the rows
\* that were there when its creation looked for the name.
NoRow == [there |-> FALSE, name |-> "", slug |-> <<>>, deleted |-> FALSE, renamed |-> FALSE, seen |-> {}]
NewRow(name, slug, seen) == [NoRow EXCEPT !.there = TRUE, !.name = name, !.slug = slug, !.seen = seen]

Existing == {c \in Categories : category[c].there}
Kept   == {c \in Existing : ~category[c].deleted}
\* The category that the page of a slug shows: a deleted one has none.
PageOf(slug) == {c \in Kept : category[c].slug = slug}

\* Its unique index knows deleted rows, too.
Taken(slug) == \E c \in Existing : category[c].slug = slug

\* A list of ids, by how often each is in it; no code looks at their order.
Nothing == [c \in Categories |-> 0]
Members(ids) == {c \in Categories : ids[c] > 0}

\* selected: the list as the request closed over it; rows: the answer.
NotAsked == [step |-> "unused", op |-> "list", mine |-> FALSE, id |-> 0, name |-> "", slug |-> <<>>,
             seen |-> {}, selected |-> Nothing, rows |-> {}]

\* The first step of each request at the server.
Start == [list |-> "list", create |-> "find", rename |-> "load", delete |-> "load", save |-> "check"]

\* The form is opened on an item with or without a category, which may be deleted.
TaxonomyInit ==
    /\ \E name \in {Fold[x] : x \in Names}, gone \in BOOLEAN :
          category = [c \in Categories |->
              IF c = 1 THEN [NewRow(name, <<Fold[name], 1>>, {}) EXCEPT !.deleted = gone] ELSE NoRow]
    /\ stored \in {{}, {1}} /\ led = {<<category[1].slug, 1>>}
    /\ asked = [n \in Numbers |-> IF n = 1 THEN [NotAsked EXCEPT !.step = "list", !.mine = TRUE]
                                  ELSE NotAsked]
    /\ picker = [shown |-> {}, chosen |-> stored,
                 selected |-> [c \in Categories |-> IF c \in stored THEN 1 ELSE 0],
                 hurried |-> FALSE, saved |-> FALSE, busy |-> 0, open |-> TRUE]

-----------------------------------------------------------------------------
(***************************************************************************)
(* The routes                                                              *)
(***************************************************************************)

\* An answer to another creator is of no further interest.
Ends(n, q) == asked' = [asked EXCEPT ![n] = IF q.mine THEN q ELSE [NotAsked EXCEPT !.step = "over"]]
Goes(n, step) == IF step \in {"ok", "failed"} THEN Ends(n, [asked[n] EXCEPT !.step = step])
                 ELSE asked' = [asked EXCEPT ![n].step = step]

Rest == UNCHANGED <<picker, stored, led>>

\* GET /creator/categories.
AnswerList(n) ==
    /\ asked[n].step = "list"
    /\ asked' = [asked EXCEPT ![n] = [@ EXCEPT !.step = "ok",
                     !.rows = {[id |-> c, name |-> category[c].name] : c \in Kept}]]
    /\ UNCHANGED category /\ Rest

\* Mutant: names are compared letter by letter.
SameName(n) == {c \in Kept : category[c].name = asked[n].name}

Named(n) == {c \in Kept : Fold[category[c].name] = Fold[asked[n].name]}

\* POST: a category of that name is returned as it is.
FindName(n) ==
    /\ asked[n].step = "find"
    /\ \/ \E c \in Named(n) : Ends(n, [asked[n] EXCEPT !.step = "ok", !.id = c,
                                           !.rows = {[id |-> c, name |-> category[c].name]}])
       \/ Named(n) = {} /\ asked' = [asked EXCEPT ![n] = [@ EXCEPT !.step = "slug", !.seen = Existing,
                                           !.slug = <<Fold[asked[n].name], 1>>]]
    /\ UNCHANGED category /\ Rest

\* PATCH and DELETE read the row first; the same name keeps its slug.
LoadCategory(n) ==
    /\ asked[n].step = "load"
    /\ LET row == category[asked[n].id]
       IN IF row.deleted THEN Goes(n, "failed")
          ELSE IF asked[n].op = "delete" THEN Goes(n, "remove")
          ELSE IF asked[n].name = row.name
          THEN asked' = [asked EXCEPT ![n] = [@ EXCEPT !.step = "update", !.slug = row.slug]]
          ELSE asked' = [asked EXCEPT ![n] = [@ EXCEPT !.step = "slug", !.slug = <<Fold[asked[n].name], 1>>]]
    /\ UNCHANGED category /\ Rest

\* uniqueSlug: one SELECT for each candidate, deleted categories and itself included.
TryCandidate(n) ==
    /\ asked[n].step = "slug"
    /\ IF Taken(asked[n].slug) THEN asked' = [asked EXCEPT ![n].slug = <<@[1], @[2] + 1>>]
       ELSE Goes(n, IF asked[n].op = "create" THEN "insert" ELSE "update")
    /\ UNCHANGED category /\ Rest

\* category.create: the unique index on the slug refuses it or not.
InsertCategory(n) ==
    LET q == asked[n]
        c == Cardinality(Existing) + 1
    IN /\ q.step = "insert"
       /\ IF Taken(q.slug) THEN Goes(n, "failed") /\ UNCHANGED <<category, led>>
          ELSE /\ category' = [category EXCEPT ![c] = NewRow(q.name, q.slug, q.seen)]
               /\ led' = led \cup {<<q.slug, c>>}
               /\ Ends(n, [q EXCEPT !.step = "ok", !.id = c, !.rows = {[id |-> c, name |-> q.name]}])
       /\ UNCHANGED <<picker, stored>>

\* category.update of name and slug; a deleted row is updated as well.
UpdateCategory(n) ==
    LET q == asked[n] IN
    /\ q.step = "update"
    /\ IF Taken(q.slug) /\ category[q.id].slug # q.slug
       THEN Goes(n, "failed") /\ UNCHANGED <<category, led>>
       ELSE /\ category' = [category EXCEPT ![q.id] =
                   [@ EXCEPT !.name = q.name, !.slug = q.slug,
                             !.renamed = category[q.id].renamed \/ q.name # category[q.id].name]]
            /\ led' = led \cup {<<q.slug, q.id>>}
            /\ Ends(n, [q EXCEPT !.step = "ok", !.rows = {[id |-> q.id, name |-> q.name]}])
    /\ UNCHANGED <<picker, stored>>

\* Mutant: the row is deleted and its slug is free.
RemoveRow(n) ==
    /\ asked[n].step = "remove"
    /\ category' = [category EXCEPT ![asked[n].id] = [@ EXCEPT !.deleted = TRUE, !.slug = <<>>]]
    /\ Goes(n, "ok") /\ Rest

\* DELETE keeps the row, its slug and the items' rows.
RemoveCategory(n) ==
    /\ asked[n].step = "remove"
    /\ category' = [category EXCEPT ![asked[n].id].deleted = TRUE]
    /\ Goes(n, "ok") /\ Rest

\* requireExistingCategories counts the rows it finds against the ids: they are as
\* many if all are there and none is in the list twice.
CheckCategories(n) ==
    LET ids == asked[n].selected IN
    /\ asked[n].step = "check"
    /\ Goes(n, IF \A c \in Members(ids) : ids[c] = 1 /\ c \in Kept THEN "store" ELSE "failed")
    /\ UNCHANGED category /\ Rest

StoreCategories(n) ==
    /\ asked[n].step = "store"
    /\ stored' = Members(asked[n].selected)
    /\ Goes(n, "ok")
    /\ UNCHANGED <<category, picker, led>>

Serve(n) ==
    \/ AnswerList(n) \/ FindName(n) \/ LoadCategory(n) \/ TryCandidate(n) \/ InsertCategory(n)
    \/ UpdateCategory(n) \/ RemoveCategory(n) \/ CheckCategories(n) \/ StoreCategories(n)

-----------------------------------------------------------------------------
(***************************************************************************)
(* The picker and its form                                                 *)
(***************************************************************************)

Waiting == {n \in Numbers : asked[n].mine /\ asked[n].step \notin {"unused", "over"}}

Send(op, mine, id, name) ==
    \E n \in Numbers :
        /\ asked[n].step = "unused" /\ \A k \in 1..n - 1 : asked[k].step # "unused"
        /\ asked' = [asked EXCEPT ![n] = [@ EXCEPT !.step = Start[op], !.op = op, !.mine = mine,
                         !.id = id, !.name = name,
                         !.selected = IF mine THEN picker.selected ELSE Nothing]]
        /\ UNCHANGED <<category, stored, led>>

Shown == {r.id : r \in picker.shown}

\* A step of the creator; `hurried`: with an answer outstanding.
Click(p) == picker' = [p EXCEPT !.hurried = @ \/ Waiting # {}]

Toggle(c) ==
    /\ c \in Shown
    /\ LET on == c \in Members(picker.selected)
       IN Click([picker EXCEPT !.saved = FALSE,
              !.selected[c] = IF on THEN 0 ELSE 1,
              !.chosen = IF on THEN @ \ {c} ELSE @ \cup {c}])
    /\ UNCHANGED <<category, asked, stored, led>>

\* createCategory: Enter works while another creation is under way.
TypeName(name) == picker.open /\ Send("create", TRUE, 0, name) /\ Click([picker EXCEPT !.saved = FALSE])

\* saveEdit, by Enter also while it is busy.
EditName(c, name) ==
    /\ c \in Shown
    /\ Send("rename", TRUE, c, name) /\ Click([picker EXCEPT !.busy = c])

\* removeCategory.
ClickRemove(c) ==
    /\ c \in Shown /\ picker.busy # c
    /\ Send("delete", TRUE, c, "") /\ Click([picker EXCEPT !.busy = c, !.saved = FALSE])

\* onSubmit; the button is disabled until the answer.
SubmitForm ==
    /\ picker.open /\ \A n \in Waiting : asked[n].op # "save"
    /\ Send("save", TRUE, 0, "") /\ Click(picker)

\* Mutant: what is created is selected alone.
TakeAloneAnswer(q) ==
    [picker EXCEPT !.shown = @ \cup q.rows, !.selected = [Nothing EXCEPT ![q.id] = 1], !.chosen = @ \cup {q.id}]

\* A creation is shown, unless its id is, and selected beside what was selected when
\* it was sent.
TakeCreated(q) ==
    [picker EXCEPT !.shown = IF q.id \in Shown THEN @ ELSE @ \cup q.rows,
                   !.selected = [q.selected EXCEPT ![q.id] = q.selected[q.id] + 1], !.chosen = @ \cup {q.id}]

TakeRenamed(q) ==
    [picker EXCEPT !.shown = {IF s.id = q.id THEN CHOOSE r \in q.rows : TRUE ELSE s : s \in @}, !.busy = 0]

TakeRemoved(q) ==
    [picker EXCEPT !.shown = {s \in @ : s.id # q.id}, !.busy = 0, !.chosen = @ \ {q.id},
                   !.selected = [q.selected EXCEPT ![q.id] = 0]]

\* Answers come in any order; after an error the lists stay as they are.
TakeAnswer(n) ==
    LET q == asked[n] IN
    /\ q.mine /\ q.step \in {"ok", "failed"}
    /\ asked' = [asked EXCEPT ![n] = [NotAsked EXCEPT !.step = "over"]]
    /\ picker' = IF q.step = "failed" THEN [picker EXCEPT !.busy = IF q.op \in {"rename", "delete"} THEN 0 ELSE @]
                 ELSE CASE q.op = "list"   -> [picker EXCEPT !.shown = q.rows]
                        [] q.op = "create" -> TakeCreated(q)
                        [] q.op = "rename" -> TakeRenamed(q)
                        [] q.op = "delete" -> TakeRemoved(q)
                        [] q.op = "save"   -> [picker EXCEPT !.saved = TRUE]
    /\ UNCHANGED <<category, stored, led>>

\* The form is closed.
Leave ==
    /\ Waiting = {}
    /\ picker' = [picker EXCEPT !.shown = {}, !.selected = Nothing, !.chosen = {}, !.hurried = FALSE,
                               !.saved = FALSE, !.busy = 0, !.open = FALSE]
    /\ UNCHANGED <<category, asked, stored, led>>

\* Another creator, whose picker does not matter here.
Elsewhere ==
    /\ \/ \E name \in Names : Send("create", FALSE, 0, name)
       \/ \E c \in Kept : Send("delete", FALSE, c, "") \/ \E name \in Names : Send("rename", FALSE, c, name)
    /\ UNCHANGED picker

TaxonomyNext ==
    \/ \E n \in Numbers : Serve(n) \/ TakeAnswer(n)
    \/ \E c \in Categories : Toggle(c) \/ ClickRemove(c) \/ \E name \in Names : EditName(c, name)
    \/ \E name \in Names : TypeName(name)
    \/ SubmitForm \/ Leave \/ Elsewhere

TaxonomySpec == TaxonomyInit /\ [][TaxonomyNext]_taxonomyVars

-----------------------------------------------------------------------------
(***************************************************************************)
(* Properties                                                              *)
(***************************************************************************)

\* creator.ts, POST /creator/categories: two categories have the same name, whatever
\* its letters, only if one was renamed to it or they were created at once.
NameOnce ==
    \A c, d \in Kept : c # d /\ Fold[category[c].name] = Fold[category[d].name] =>
        category[c].renamed \/ category[d].renamed \/ (c \notin category[d].seen /\ d \notin category[c].seen)

\* docs/SEO.md, category pages: a link to a category leads to it or nowhere, never to
\* another one that took its slug, unless it was renamed.
LinkKeepsMeaning ==
    \A l \in led : \A c \in PageOf(l[1]) : c = l[2] \/ category[l[2]].renamed

\* CategoryPicker.tsx: with no answer outstanding, and if the creator always waited for
\* one, what is selected is what was toggled, created and not deleted, every
\* such category that still exists can be seen, and after a save the item has them.
SelectionAsChosen ==
    Waiting = {} /\ ~picker.hurried =>
        /\ Members(picker.selected) = picker.chosen
        /\ picker.chosen \cap Kept \subseteq Shown
        /\ picker.saved => stored = picker.chosen
=============================================================================
