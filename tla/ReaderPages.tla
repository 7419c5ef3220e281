----------------------------- MODULE ReaderPages -----------------------------
(***************************************************************************)
(* A visit to the web pages of one item: its own page, which lists the     *)
(* chapters or carries an article's text, and the pages of its chapters    *)
(* with the links between them (app/(public)/[section]/[itemSlug]).        *)
(*                                                                         *)
(* Next.js answers a page from two functions, generateMetadata for the     *)
(* head and the page itself for the body; each reads the rows on its own,  *)
(* while the creator and moderators change them.                           *)
(***************************************************************************)
EXTENDS PublicLists

CONSTANTS
    Chapters,     \* numbers; an article has chapter 1 alone
    Place,        \* their positions: two added at once have the same
    MaxEdits      \* changes of the rows, those under way included

ASSUME ReaderAssumption ==
    1 \in Chapters /\ Chapters \subseteq Nat \ {0} /\ Place \in [Chapters -> Nat] /\ MaxEdits \in Nat

VARIABLES
    single,       \* an article, or a story
    item,         \* the contents row; `restored`: a moderator undid its deletion
    chapter,      \* chapter[p]: the content_parts row; `raced`: deleted while being published
    publishing,   \* chapters whose publish request is past its check
    request,      \* the page asked for last
    walk,         \* the chapters read one after the other
    edits         \* changes so far

readerRows == <<single, item, chapter, publishing, edits>>
readerVars == <<readerRows, request, walk>>

\* at: 0 for the item's page, or a chapter; quiet: no change since the visit began.
NoRequest == [at |-> 0, page |-> 1, head |-> "none", body |-> "none", links |-> {},
              more |-> FALSE, text |-> FALSE, quiet |-> TRUE]
NoWalk == [forward |-> TRUE, from |-> 0, seen |-> {}, steady |-> {}]

ReaderInit ==
    /\ single \in BOOLEAN
    /\ item \in {[published |-> ~gone, public |-> TRUE, deleted |-> gone, restored |-> FALSE] : gone \in BOOLEAN}
    /\ chapter \in [Chapters -> [published : BOOLEAN, deleted : BOOLEAN, raced : {FALSE}]]
    /\ \A p \in Chapters : chapter[p].deleted = (single /\ item.deleted)
    /\ single => \A p \in Chapters : chapter[p].published = item.published
    /\ publishing = {} /\ edits = 0
    /\ request = NoRequest /\ walk = NoWalk

\* getRobotsMetadata of the item, and what loadItemOr404 requires beside it.
Indexable == item.published /\ item.public
ItemShown == Indexable /\ ~item.deleted

\* getPublishedParts.
Live == {p \in Chapters : chapter[p].published /\ ~chapter[p].deleted}

Arrived == request.body \in {"none", "shown", "gone"} /\ request.head \in {"none", "index", "noindex"}

-----------------------------------------------------------------------------
(***************************************************************************)
(* generateMetadata                                                        *)
(***************************************************************************)

HeadIs(robots) == request' = [request EXCEPT !.head = robots] /\ UNCHANGED <<readerRows, walk>>

HeadOfItem ==
    /\ request.at = 0 /\ request.head = "item"
    /\ HeadIs(IF ItemShown THEN "index" ELSE "noindex")

\* A chapter's head: getRobotsMetadata of the item, whatever its deletedAt ...
HeadReadsItem ==
    /\ request.at # 0 /\ request.head = "item"
    /\ HeadIs(IF Indexable THEN "part" ELSE "noindex")

\* ... and then the chapter's status.
HeadOfPart ==
    /\ request.head = "part"
    /\ HeadIs(IF chapter[request.at].published THEN "index" ELSE "noindex")

-----------------------------------------------------------------------------
(***************************************************************************)
(* The pages                                                               *)
(***************************************************************************)

Body(step) == request' = [request EXCEPT !.body = step] /\ UNCHANGED <<readerRows, walk>>

\* loadItemOr404.
LoadItem ==
    /\ request.body = "item"
    /\ Body(IF ~ItemShown THEN "gone" ELSE IF request.at = 0 /\ ~single THEN "list" ELSE "part")

\* An article: getSinglePart, whose status does not matter; no part, no text.
ShowArticle ==
    /\ request.at = 0 /\ request.body = "part"
    /\ request' = [request EXCEPT !.body = "shown", !.text = ~chapter[1].deleted]
    /\ UNCHANGED <<readerRows, walk>>

\* A page of the chapters by position; where two share it, in either order.
ListChapters ==
    /\ request.body = "list"
    /\ \E order \in SetToSeqs(Live) :
          /\ \A j, k \in DOMAIN order : j < k => Place[order[j]] <= Place[order[k]]
          /\ request' = [request EXCEPT !.body = "count",
                            !.links = {order[k] : k \in {n \in DOMAIN order : InPage(n, request.page)}}]
    /\ UNCHANGED <<readerRows, walk>>

\* Their count decides whether there is a next page.
CountChapters ==
    /\ request.body = "count"
    /\ request' = [request EXCEPT !.body = "shown", !.more = request.page < Pages(Cardinality(Live))]
    /\ UNCHANGED <<readerRows, walk>>

\* loadPartOr404.
LoadPart ==
    /\ request.at # 0 /\ request.body = "part"
    /\ Body(IF request.at \in Live THEN "links" ELSE "gone")

\* Mutant: not the nearest.
AnyBeyond(p, forward) ==
    {q \in Chapters : chapter[q].published /\ (IF forward THEN Place[q] > Place[p] ELSE Place[q] < Place[p])}

\* getAdjacentParts: the nearest published chapters on one side, deleted ones among them.
Beside(p, forward) ==
    LET Beyond == {q \in Chapters : chapter[q].published
                                   /\ IF forward THEN Place[q] > Place[p] ELSE Place[q] < Place[p]}
    IN {q \in Beyond : \A r \in Beyond : IF forward THEN Place[q] <= Place[r] ELSE Place[q] >= Place[r]}

\* The chapter is shown with the link onward; the one back is not followed.
ShowPart ==
    /\ request.body = "links"
    /\ LET next == Beside(request.at, walk.forward)
       IN IF next = {} THEN request' = [request EXCEPT !.body = "shown"]
          ELSE \E q \in next : request' = [request EXCEPT !.body = "shown", !.links = {q}]
    /\ walk' = [walk EXCEPT !.seen = @ \cup {request.at}]
    /\ UNCHANGED readerRows

-----------------------------------------------------------------------------
(***************************************************************************)
(* The reader                                                              *)
(***************************************************************************)

\* A link is followed to the page of the item (0) or of a chapter.
Ask(at, page, quiet) ==
    request' = [NoRequest EXCEPT !.at = at, !.page = page, !.quiet = quiet, !.head = "item", !.body = "item"]

OpenItem == Arrived /\ Ask(0, 1, TRUE) /\ walk' = NoWalk /\ UNCHANGED readerRows

TurnList ==
    /\ Arrived /\ request.at = 0 /\ request.more
    /\ Ask(0, request.page + 1, request.quiet)
    /\ UNCHANGED <<readerRows, walk>>

\* A walk begins at a chapter of the list and goes onward or back.
OpenChapter ==
    /\ Arrived /\ request.at = 0
    /\ \E p \in request.links, forward \in BOOLEAN :
          /\ Ask(p, 1, request.quiet)
          /\ walk' = [forward |-> forward, from |-> p, seen |-> {}, steady |-> Live]
    /\ UNCHANGED readerRows

FollowLink ==
    /\ Arrived /\ request.at # 0
    /\ \E q \in request.links : Ask(q, 1, request.quiet)
    /\ UNCHANGED <<readerRows, walk>>

-----------------------------------------------------------------------------
(***************************************************************************)
(* The rows change                                                         *)
(***************************************************************************)

\* A change: the visit is no longer quiet, and only
\* the chapters that are still there have been there all along.
Edit(newItem, newChapter) ==
    /\ edits + Cardinality(publishing') < MaxEdits /\ edits' = edits + 1
    /\ item' = newItem /\ chapter' = newChapter
    /\ request' = [request EXCEPT !.quiet = FALSE]
    /\ walk' = [walk EXCEPT !.steady = {p \in @ : newChapter[p].published /\ ~newChapter[p].deleted}]
    /\ UNCHANGED single

\* An article's part follows what its creator does.
WithPart(published, deleted) ==
    IF single THEN [chapter EXCEPT ![1] = [@ EXCEPT !.published = published, !.deleted = deleted]] ELSE chapter

EditItem ==
    /\ UNCHANGED publishing
    /\ \/ ~item.deleted /\ Edit([item EXCEPT !.published = TRUE, !.public = TRUE],
                                WithPart(TRUE, chapter[1].deleted))
       \/ ~item.deleted /\ Edit([item EXCEPT !.published = FALSE], WithPart(FALSE, chapter[1].deleted))
       \/ ~item.deleted /\ Edit([item EXCEPT !.published = FALSE, !.deleted = TRUE], WithPart(FALSE, TRUE))
       \/ ~item.deleted /\ \E v \in BOOLEAN : Edit([item EXCEPT !.public = v], chapter)

\* PUBLISH, UNPUBLISH, DELETE and RESTORE of a moderator: the row of the item alone.
ModerateItem ==
    /\ UNCHANGED publishing
    /\ \/ Edit([item EXCEPT !.published = TRUE], chapter)
       \/ Edit([item EXCEPT !.published = FALSE], chapter)
       \/ Edit([item EXCEPT !.published = FALSE, !.deleted = TRUE], chapter)
       \/ item.deleted /\ Edit([item EXCEPT !.deleted = FALSE, !.restored = TRUE], chapter)

\* A publish request is past requireOwnedPart.
CheckChapter(p) ==
    /\ ~single /\ ~chapter[p].deleted /\ ~item.deleted /\ p \notin publishing
    /\ edits + Cardinality(publishing) < MaxEdits
    /\ publishing' = publishing \cup {p}
    /\ UNCHANGED <<single, item, chapter, edits, request, walk>>

PublishChapter(p) ==
    /\ p \in publishing /\ publishing' = publishing \ {p}
    /\ Edit(item, [chapter EXCEPT ![p].published = TRUE])

UnpublishChapter(p) ==
    /\ ~single /\ ~chapter[p].deleted /\ ~item.deleted
    /\ UNCHANGED publishing
    /\ Edit(item, [chapter EXCEPT ![p].published = FALSE])

\* Mutant: a deleted chapter keeps its status.
DeleteChapterOnly(p) ==
    /\ ~single /\ ~chapter[p].deleted /\ ~item.deleted
    /\ UNCHANGED publishing
    /\ Edit(item, [chapter EXCEPT ![p] = [@ EXCEPT !.deleted = TRUE, !.raced = p \in publishing]])

\* "unpublish first so it drops out of the public reader".
DeleteChapter(p) ==
    /\ ~single /\ ~chapter[p].deleted /\ ~item.deleted
    /\ UNCHANGED publishing
    /\ Edit(item, [chapter EXCEPT ![p] = [published |-> FALSE, deleted |-> TRUE, raced |-> p \in publishing]])

ReaderNext ==
    \/ HeadOfItem \/ HeadReadsItem \/ HeadOfPart
    \/ LoadItem \/ ShowArticle \/ ListChapters \/ CountChapters \/ LoadPart \/ ShowPart
    \/ OpenItem \/ TurnList \/ OpenChapter \/ FollowLink
    \/ EditItem \/ ModerateItem
    \/ \E p \in Chapters : CheckChapter(p) \/ PublishChapter(p) \/ UnpublishChapter(p) \/ DeleteChapter(p)

ReaderSpec == ReaderInit /\ [][ReaderNext]_readerVars

-----------------------------------------------------------------------------
(***************************************************************************)
(* Properties                                                              *)
(***************************************************************************)

\* docs/SEO.md: while nothing changes, head and body of every page agree and no link
\* is dead: what is shown says "index" and has its text, what is gone says
\* "noindex", and the links lead to chapters that are there.  Only a chapter that was
\* published while being deleted is linked and gone, and only an article that was
\* deleted and restored has no text.
PagesAgree ==
    Arrived /\ request.quiet =>
        /\ request.body = "shown" => request.head = "index"
        /\ request.body = "shown" /\ single => request.text \/ item.restored
        /\ request.body = "gone" => IF request.at = 0 THEN request.head = "noindex" ELSE chapter[request.at].raced

\* docs/API.md, "prev/next chapter": a reader who walks from a chapter to the last link onward
\* (or back) has seen every chapter beyond it that was there all along, whatever was
\* published and taken away in the meantime, but for one that shares its position.
WalkComplete ==
    request.at # 0 /\ request.body = "shown" /\ request.links = {} =>
        \A p \in walk.steady :
            (IF walk.forward THEN Place[p] > Place[walk.from] ELSE Place[p] < Place[walk.from])
                => \E q \in walk.seen : Place[q] = Place[p]
=============================================================================
