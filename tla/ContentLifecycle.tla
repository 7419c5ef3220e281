-------------------------- MODULE ContentLifecycle --------------------------
(***************************************************************************)
(* The life of contents and content_parts rows: the creator routes of      *)
(* apps/api/src/routes/content.ts, the effects of moderation actions       *)
(* (packages/moderation/src/actions.ts) and the public reader              *)
(* (apps/api/src/routes/public.ts).                                        *)
(*                                                                         *)
(* A creator request first reads what it is about (requireOwnedItem,       *)
(* requireOwnedPart, the check of a publish), one SELECT after the other,  *)
(* and then writes.  Nothing is locked in between.  The write is one       *)
(* step: it is a single statement, or a transaction that writes values it  *)
(* did not read, takes its row locks in the order part, item and holds     *)
(* them to the end, so it takes effect as a whole when it commits.         *)
(*                                                                         *)
(* A story has independent chapters.  An article has one part, created     *)
(* with it, which holds its body.                                          *)
(***************************************************************************)
EXTENDS Integers, FiniteSets

CONSTANTS
    Items,       \* contents
    Articles,    \* the items of partsMode "single"; the others are stories
    Parts,       \* content_parts
    ItemOf,      \* the item of each part
    Position,    \* its position
    Requests,    \* the requests that creators make
    Handlers,    \* concurrent requests of creators, or of moderators as creators
    Readers,     \* concurrent requests of the public reader
    NoRow,       \* the row does not exist yet
    NoPart,      \* the request is about an item
    NoRequest    \* the handler or the reader serves nothing

PartsOf(i) == {p \in Parts : ItemOf[p] = i}

\* The part that a transaction on item i writes along with it.
OwnPart(i) == IF i \in Articles THEN PartsOf(i) ELSE {}

Visibility   == {"PUBLIC", "PRIVATE", "UNLISTED"}
ItemStatus   == {"DRAFT", "PUBLISHED", "UNPUBLISHED", "ARCHIVED"}
PartStatus   == {"DRAFT", "SCHEDULED", "PUBLISHED", "UNPUBLISHED"}

\* described: the description is not empty.  filled: the body is not blank.
ItemRow == [status : ItemStatus, visibility : Visibility,
            described : BOOLEAN, deleted : BOOLEAN]
PartRow == [status : PartStatus, filled : BOOLEAN, deleted : BOOLEAN]

ItemOps == {"publish", "unpublish", "delete", "show", "hide", "fill", "clear", "add"}
PartOps == {"publish", "schedule", "unpublish", "delete"}
Request == [op : ItemOps \cup PartOps, item : Items, part : Parts \cup {NoPart}]

\* What a reader asked for and the parts its response mentions.
Reading == [item : Items, part : Parts \cup {NoPart}, gone : SUBSET Parts,
            body : SUBSET Parts, links : SUBSET Parts]

ASSUME LifecycleAssumption ==
    /\ Articles \subseteq Items
    /\ ItemOf \in [Parts -> Items]
    /\ Position \in [Parts -> Int]
    /\ \A p, q \in Parts : ItemOf[p] = ItemOf[q] /\ ItemOf[p] \in Articles => p = q
    /\ \A i \in Articles : PartsOf(i) # {}
    /\ NoPart \notin Parts
    /\ NoRow \notin ItemRow \cup PartRow
    /\ NoRequest \notin Request \cup Reading
    /\ Requests \subseteq Request
    /\ \A q \in Requests :
          IF q.part = NoPart THEN q.op \in ItemOps /\ (q.op = "add" => q.item \notin Articles)
          ELSE q.op \in PartOps /\ q.item = ItemOf[q.part] /\ q.item \notin Articles

VARIABLES
    item,        \* item[i]: the contents row, or NoRow
    part,        \* part[p]: the content_parts row, or NoRow
    request,     \* request[h]: what handler h was asked to do
    stage,       \* stage[h]: "idle", or the next operation of h
    reading,     \* reading[r]: what reader r is doing
    at           \* at[r]: "idle", or the next operation of r

rowVars    == <<item, part>>
ownerVars  == <<request, stage>>
readerVars == <<reading, at>>
vars       == <<rowVars, ownerVars, readerVars>>

Init ==
    /\ item    = [i \in Items |-> NoRow]
    /\ part    = [p \in Parts |-> NoRow]
    /\ request = [h \in Handlers |-> NoRequest]
    /\ stage   = [h \in Handlers |-> "idle"]
    /\ reading = [r \in Readers |-> NoRequest]
    /\ at      = [r \in Readers |-> "idle"]

-----------------------------------------------------------------------------
(***************************************************************************)
(* Creator requests: the reads                                             *)
(***************************************************************************)

\* POST /creator/:apiResource, an item nobody else knows yet.
CreateItem(i, described, filled) ==
    /\ item[i] = NoRow
    /\ item' = [item EXCEPT ![i] = [status |-> "DRAFT", visibility |-> "PRIVATE",
                                    described |-> described, deleted |-> FALSE]]
    /\ part' = [p \in Parts |->
                   IF p \in OwnPart(i)
                   THEN [status |-> "DRAFT", filled |-> filled, deleted |-> FALSE]
                   ELSE part[p]]
    /\ UNCHANGED <<ownerVars, readerVars>>

\* requireOwnedItem accepts the row.
ItemOwned(i) == item[i] # NoRow /\ ~item[i].deleted

\* requireOwnedPart accepts the row.
PartOwned(p) == part[p] # NoRow /\ ~part[p].deleted

\* What follows requireOwnedItem: publishing checks that the item is complete, a
\* story by the row just read, an article by a SELECT of its part.
AfterItem(q) == IF q.op = "publish" /\ q.item \in Articles THEN "body" ELSE "write"

Complete(q) == q.op = "publish" /\ q.item \notin Articles => item[q.item].described

\* A request about an item begins with requireOwnedItem.
BeginItem(h, q) ==
    /\ stage[h] = "idle"
    /\ q.part = NoPart
    /\ ItemOwned(q.item) /\ Complete(q)
    /\ request' = [request EXCEPT ![h] = q]
    /\ stage' = [stage EXCEPT ![h] = AfterItem(q)]
    /\ UNCHANGED <<rowVars, readerVars>>

\* 404 for what does not exist or is deleted, 422 for an incomplete story.
Refuse(h, q) ==
    /\ stage[h] = "idle"
    /\ IF q.part = NoPart THEN ItemOwned(q.item) => ~Complete(q)
                          ELSE ~PartOwned(q.part)
    /\ UNCHANGED vars

\* A request about a chapter begins with the SELECT of requireOwnedPart.
BeginPart(h, q) ==
    /\ stage[h] = "idle"
    /\ q.part # NoPart
    /\ PartOwned(q.part)
    /\ request' = [request EXCEPT ![h] = q]
    /\ stage' = [stage EXCEPT ![h] = "item"]
    /\ UNCHANGED <<rowVars, readerVars>>

\* ... and goes on with requireOwnedItem.
CheckItem(h) ==
    /\ stage[h] = "item"
    /\ ItemOwned(request[h].item)
    /\ stage' = [stage EXCEPT ![h] = "write"]
    /\ UNCHANGED <<rowVars, request, readerVars>>

\* Mutant: the body may be blank.
CheckBodyExists(h) ==
    /\ stage[h] = "body"
    /\ \A p \in PartsOf(request[h].item) : part[p] # NoRow
    /\ stage' = [stage EXCEPT ![h] = "write"]
    /\ UNCHANGED <<rowVars, request, readerVars>>

\* Publishing an article reads its part, deleted or not.
CheckBody(h) ==
    /\ stage[h] = "body"
    /\ \A p \in PartsOf(request[h].item) : part[p].filled
    /\ stage' = [stage EXCEPT ![h] = "write"]
    /\ UNCHANGED <<rowVars, request, readerVars>>

Finish(h) ==
    /\ request' = [request EXCEPT ![h] = NoRequest]
    /\ stage'   = [stage EXCEPT ![h] = "idle"]

\* A later check fails, the transaction is rolled back or the process dies.
GiveUp(h) ==
    /\ stage[h] # "idle"
    /\ Finish(h)
    /\ UNCHANGED <<rowVars, readerVars>>

-----------------------------------------------------------------------------
(***************************************************************************)
(* Creator requests: the writes                                            *)
(***************************************************************************)

\* h writes the answer to its request for op on an item, or on a chapter.
Writes(h, op, onPart) ==
    /\ stage[h] = "write"
    /\ request[h].op = op
    /\ onPart <=> request[h].part # NoPart
    /\ Finish(h)
    /\ UNCHANGED readerVars

\* Mutant: the article's own part is left as it is.
PublishItemOnly(h) ==
    /\ Writes(h, "publish", FALSE)
    /\ item' = [item EXCEPT ![request[h].item].status = "PUBLISHED",
                            ![request[h].item].visibility = "PUBLIC"]
    /\ UNCHANGED part

PublishItem(h) ==
    /\ Writes(h, "publish", FALSE)
    /\ part' = [p \in Parts |-> IF p \in OwnPart(request[h].item)
                                THEN [part[p] EXCEPT !.status = "PUBLISHED"]
                                ELSE part[p]]
    /\ item' = [item EXCEPT ![request[h].item].status = "PUBLISHED",
                            ![request[h].item].visibility = "PUBLIC"]

UnpublishItem(h) ==
    /\ Writes(h, "unpublish", FALSE)
    /\ part' = [p \in Parts |-> IF p \in OwnPart(request[h].item)
                                THEN [part[p] EXCEPT !.status = "UNPUBLISHED"]
                                ELSE part[p]]
    /\ item' = [item EXCEPT ![request[h].item].status = "UNPUBLISHED"]

DeleteItem(h) ==
    /\ Writes(h, "delete", FALSE)
    /\ part' = [p \in Parts |-> IF p \in OwnPart(request[h].item)
                                THEN [part[p] EXCEPT !.status = "UNPUBLISHED",
                                                     !.deleted = TRUE]
                                ELSE part[p]]
    /\ item' = [item EXCEPT ![request[h].item].status = "UNPUBLISHED",
                            ![request[h].item].deleted = TRUE]

\* PATCH of the visibility, of a story's description or of an article's body.
PatchVisibility(h) ==
    \E op \in {"show", "hide"}, v \in Visibility :
        /\ Writes(h, op, FALSE)
        /\ op = "show" <=> v = "PUBLIC"
        /\ item' = [item EXCEPT ![request[h].item].visibility = v]
        /\ UNCHANGED part

PatchDescription(h) ==
    \E op \in {"fill", "clear"} :
        /\ Writes(h, op, FALSE)
        /\ request[h].item \notin Articles
        /\ item' = [item EXCEPT ![request[h].item].described = (op = "fill")]
        /\ UNCHANGED part

PatchBody(h) ==
    \E op \in {"fill", "clear"} :
        /\ Writes(h, op, FALSE)
        /\ request[h].item \in Articles
        /\ part' = [p \in Parts |-> IF p \in OwnPart(request[h].item)
                                    THEN [part[p] EXCEPT !.filled = (op = "fill")]
                                    ELSE part[p]]
        /\ UNCHANGED item

\* POST a chapter: its slug and position are new (see RevisionHistory).
AddPart(h, p) ==
    /\ Writes(h, "add", FALSE)
    /\ ItemOf[p] = request[h].item /\ part[p] = NoRow
    /\ part' = [part EXCEPT ![p] = [status |-> "DRAFT", filled |-> TRUE, deleted |-> FALSE]]
    /\ UNCHANGED item

PublishPart(h) ==
    \E op \in {"publish", "schedule", "unpublish"} :
        /\ Writes(h, op, TRUE)
        /\ part' = [part EXCEPT ![request[h].part].status =
                        CASE op = "publish"   -> "PUBLISHED"
                          [] op = "schedule"  -> "SCHEDULED"
                          [] op = "unpublish" -> "UNPUBLISHED"]
        /\ UNCHANGED item

DeletePart(h) ==
    /\ Writes(h, "delete", TRUE)
    /\ part' = [part EXCEPT ![request[h].part].status = "UNPUBLISHED",
                            ![request[h].part].deleted = TRUE]
    /\ UNCHANGED item

-----------------------------------------------------------------------------
(***************************************************************************)
(* Moderation: applyContentEffect                                          *)
(***************************************************************************)

Effects == {"PUBLISH", "UNPUBLISH", "DELETE", "RESTORE", "NOINDEX"}

\* The row a moderation action leaves; it touches no part.  NOINDEX only writes
\* seo_metadata, which no route of this module reads.
Moderated(row, action) ==
    CASE action = "PUBLISH"   -> [row EXCEPT !.status = "PUBLISHED"]
      [] action = "UNPUBLISH" -> [row EXCEPT !.status = "UNPUBLISHED"]
      [] action = "DELETE"    -> [row EXCEPT !.status = "ARCHIVED", !.deleted = TRUE]
      [] action = "RESTORE"   -> [row EXCEPT !.deleted = FALSE]
      [] action = "NOINDEX"   -> row

Moderate(i, action) ==
    /\ item[i] # NoRow
    /\ item' = [item EXCEPT ![i] = Moderated(@, action)]
    /\ UNCHANGED <<part, ownerVars, readerVars>>

-----------------------------------------------------------------------------
(***************************************************************************)
(* The public reader: one SELECT after the other, no transaction           *)
(***************************************************************************)

Readable(i) ==
    /\ item[i] # NoRow
    /\ ~item[i].deleted
    /\ item[i].status = "PUBLISHED" /\ item[i].visibility = "PUBLIC"

IsDeleted(p) == part[p] # NoRow /\ part[p].deleted
IsPublished(p) == part[p] # NoRow /\ part[p].status = "PUBLISHED"

\* GET /public/:apiResource/:slug, or a chapter of it: the item.
ReadItem(r, i, p) ==
    /\ at[r] = "idle"
    /\ p = NoPart \/ (i \notin Articles /\ p \in PartsOf(i))
    /\ Readable(i)
    /\ reading' = [reading EXCEPT ![r] =
                      [item |-> i, part |-> p, gone |-> {q \in Parts : IsDeleted(q)},
                       body |-> {}, links |-> {}]]
    /\ at' = [at EXCEPT ![r] = IF p = NoPart THEN "parts" ELSE "part"]
    /\ UNCHANGED <<rowVars, ownerVars>>

\* The published parts of the item: an article's body, a story's chapter list.
ReadParts(r) ==
    LET i     == reading[r].item
        shown == {p \in PartsOf(i) : IsPublished(p) /\ ~IsDeleted(p)}
    IN  /\ at[r] = "parts"
        /\ reading' = IF i \in Articles THEN [reading EXCEPT ![r].body = shown]
                                        ELSE [reading EXCEPT ![r].links = shown]
        /\ at' = [at EXCEPT ![r] = "done"]
        /\ UNCHANGED <<rowVars, ownerVars>>

\* Mutant: the chapter's deletion is not looked at.
ReadPartEvenDeleted(r) ==
    /\ at[r] = "part"
    /\ IsPublished(reading[r].part)
    /\ reading' = [reading EXCEPT ![r].body = {reading[r].part}]
    /\ at' = [at EXCEPT ![r] = "links"]
    /\ UNCHANGED <<rowVars, ownerVars>>

\* The chapter itself.
ReadPart(r) ==
    /\ at[r] = "part"
    /\ IsPublished(reading[r].part) /\ ~IsDeleted(reading[r].part)
    /\ reading' = [reading EXCEPT ![r].body = {reading[r].part}]
    /\ at' = [at EXCEPT ![r] = "links"]
    /\ UNCHANGED <<rowVars, ownerVars>>

\* The published chapters of i next to p, on either side.
Adjacent(i, p) ==
    LET published == {q \in PartsOf(i) : IsPublished(q)}
        before    == {q \in published : Position[q] < Position[p]}
        after     == {q \in published : Position[q] > Position[p]}
    IN  {q \in before : \A o \in before : Position[o] <= Position[q]}
          \cup {q \in after : \A o \in after : Position[q] <= Position[o]}

\* Its previous and next chapter, two SELECTs sent together.
ReadLinks(r) ==
    /\ at[r] = "links"
    /\ reading' = [reading EXCEPT ![r].links = Adjacent(reading[r].item, reading[r].part)]
    /\ at' = [at EXCEPT ![r] = "done"]
    /\ UNCHANGED <<rowVars, ownerVars>>

\* The response is sent, or a SELECT found nothing to show (404, 410).
EndReading(r) ==
    /\ at[r] # "idle"
    /\ reading' = [reading EXCEPT ![r] = NoRequest]
    /\ at' = [at EXCEPT ![r] = "idle"]
    /\ UNCHANGED <<rowVars, ownerVars>>

-----------------------------------------------------------------------------

OwnerNext ==
    \/ \E i \in Items, described, filled \in BOOLEAN : CreateItem(i, described, filled)
    \/ \E h \in Handlers :
          \/ \E q \in Requests : BeginItem(h, q) \/ BeginPart(h, q) \/ Refuse(h, q)
          \/ CheckItem(h) \/ CheckBody(h) \/ GiveUp(h)
          \/ PublishItem(h) \/ UnpublishItem(h) \/ DeleteItem(h)
          \/ PatchVisibility(h) \/ PatchDescription(h) \/ PatchBody(h)
          \/ \E p \in Parts : AddPart(h, p)
          \/ PublishPart(h) \/ DeletePart(h)

ReaderNext ==
    \E r \in Readers :
        \/ \E i \in Items, p \in Parts \cup {NoPart} : ReadItem(r, i, p)
        \/ ReadParts(r) \/ ReadPart(r) \/ ReadLinks(r) \/ EndReading(r)

ModeratorNext == \E i \in Items, action \in Effects : Moderate(i, action)

Next == OwnerNext \/ ReaderNext \/ ModeratorNext

Spec == Init /\ [][Next]_vars

\* The program without its moderators.
OwnerSpec == Init /\ [][OwnerNext \/ ReaderNext]_vars

\* No description or body is patched while a publish of the item is under way: what
\* checking and publishing in one transaction would give.
PatchesApart ==
    \A g, h \in Handlers :
        /\ stage[g] # "idle" /\ request[g].op = "publish" /\ request[g].part = NoPart
        /\ stage[h] # "idle" /\ request[h].op \in {"fill", "clear"}
        => request[g].item # request[h].item

ApartOwnerSpec == Init /\ [][(OwnerNext \/ ReaderNext) /\ PatchesApart']_vars

-----------------------------------------------------------------------------
(***************************************************************************)
(* Properties                                                              *)
(***************************************************************************)

\* Types of the tables, of the requests and of the readers.
TypeOK ==
    /\ item    \in [Items -> ItemRow \cup {NoRow}]
    /\ part    \in [Parts -> PartRow \cup {NoRow}]
    /\ request \in [Handlers -> Request \cup {NoRequest}]
    /\ stage   \in [Handlers -> {"idle", "item", "body", "write"}]
    /\ reading \in [Readers -> Reading \cup {NoRequest}]
    /\ at      \in [Readers -> {"idle", "parts", "part", "links", "done"}]
    /\ \A h \in Handlers : stage[h] = "idle" <=> request[h] = NoRequest
    /\ \A r \in Readers : at[r] = "idle" <=> reading[r] = NoRequest

\* Without moderators an article and its part never disagree: however publishing,
\* unpublishing and deleting race, part and item carry the same status and are
\* deleted together (the two updates of each transaction of content.ts).
PartFollowsItem ==
    \A i \in Articles : \A p \in PartsOf(i) :
        IF item[i] = NoRow THEN part[p] = NoRow
        ELSE /\ part[p] # NoRow
             /\ part[p].status = item[i].status
             /\ part[p].deleted = item[i].deleted

\* The body of a chapter that was deleted before the request began is never
\* served, although a publish that had checked it earlier may have set its status
\* back to PUBLISHED since.
DeletedBodyWithheld ==
    \A r \in Readers : at[r] # "idle" => reading[r].body \cap reading[r].gone = {}

\* An item becomes PUBLISHED only when it is complete: a story has a description,
\* an article a body.  Holds if no patch comes between the check of a publish and
\* its write; publishing, unpublishing and deleting may race.
PublishedComplete ==
    [][\A i \in Items :
          item[i] # NoRow /\ item[i].status # "PUBLISHED" /\ item'[i].status = "PUBLISHED"
          => IF i \in Articles THEN \A p \in PartsOf(i) : part'[p].filled
                              ELSE item'[i].described]_vars
=============================================================================
