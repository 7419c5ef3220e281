----------------------------- MODULE PublicLists -----------------------------
(***************************************************************************)
(* Reading a long list page by page while items are published and taken    *)
(* away: the sitemap of a type (app/sitemap.xml, app/sitemap and            *)
(* lib/sitemap-providers.ts) and its list for readers (app/(public)/        *)
(* [section]/page.tsx and lib/public-data.ts).                             *)
(***************************************************************************)
EXTENDS Integers, FiniteSets, SequencesExt

CONSTANTS
    MaxItems,      \* items, in the order of their ids
    PageSize,      \* rows of a page
    MaxChanges     \* changes during one visit

ASSUME ListAssumption == {MaxItems, PageSize, MaxChanges} \subseteq Nat /\ PageSize > 0

VARIABLES
    recent,      \* the items that are public, the last published first
    visit        \* the visit under way

listVars == <<recent, visit>>

Items   == 1..MaxItems
Visible == ToSet(recent)

\* `steady` are the items that were public all the time; `changes` counts.
NoVisit == [of |-> "none", step |-> "done", page |-> 0, last |-> 0, seen |-> {}, steady |-> {}, changes |-> 0]

ListInit == recent = <<>> /\ visit = NoVisit

Underway == visit.step # "done"

-----------------------------------------------------------------------------

InPage(k, page) == (page - 1) * PageSize < k /\ k <= page * PageSize

\* ContentSitemapProvider.getUrls: a page of the public items by their ids.
ById(page) == {i \in Visible : InPage(Cardinality({j \in Visible : j <= i}), page)}

\* listPublishedItems: a page of them by publishedAt, the latest first.
ByDate(page) == {recent[k] : k \in {n \in DOMAIN recent : InPage(n, page)}}

\* Mutant: the last page must be full.
FullPages(total) == IF total < PageSize THEN 1 ELSE total \div PageSize

\* pageCount, and totalPages.
Pages(total) == IF total = 0 THEN 1 ELSE (total + PageSize - 1) \div PageSize

\* The crawler reads the index, which names the pages there are now.
ReadIndex ==
    /\ ~Underway
    /\ visit' = [NoVisit EXCEPT !.of = "sitemap", !.step = "items", !.page = 1,
                                !.last = Pages(Len(recent)), !.steady = Visible]
    /\ UNCHANGED recent

\* A reader opens the list.
OpenList ==
    /\ ~Underway
    /\ visit' = [NoVisit EXCEPT !.of = "list", !.step = "items", !.page = 1, !.steady = Visible]
    /\ UNCHANGED recent

Turn(v) == IF v.page < v.last THEN [v EXCEPT !.step = "items", !.page = @ + 1]
           ELSE [v EXCEPT !.step = "done"]

\* A page of the sitemap is read.
ReadSitemap ==
    /\ visit.of = "sitemap" /\ visit.step = "items"
    /\ visit' = Turn([visit EXCEPT !.seen = @ \cup ById(visit.page)])
    /\ UNCHANGED recent

\* A page of the list: findMany and count are two statements.
ReadItems ==
    /\ visit.of = "list" /\ visit.step = "items"
    /\ visit' = [visit EXCEPT !.seen = @ \cup ByDate(visit.page), !.step = "count"]
    /\ UNCHANGED recent

\* The link to the next page is there while the count says so.
CountItems ==
    /\ visit.step = "count"
    /\ visit' = Turn([visit EXCEPT !.last = Pages(Len(recent))])
    /\ UNCHANGED recent

-----------------------------------------------------------------------------

\* A change of the list during a visit counts.
Change(list) ==
    /\ Underway => visit.changes < MaxChanges
    /\ recent' = list
    /\ visit' = IF Underway
                THEN [visit EXCEPT !.changes = @ + 1, !.steady = @ \cap ToSet(list)]
                ELSE visit

\* Published for the first time or by a moderator, an item is the latest; published
\* again by its creator it keeps its date.
Show(i) == i \notin Visible /\ \E k \in 1..Len(recent) + 1 : Change(InsertAt(recent, k, i))

\* A moderator's publish makes a public item the latest again.
Bump(i) == \E k \in DOMAIN recent : recent[k] = i /\ k # 1 /\ Change(<<i>> \o RemoveAt(recent, k))

Hide(i) == \E k \in DOMAIN recent : recent[k] = i /\ Change(RemoveAt(recent, k))

ListNext ==
    \/ ReadIndex \/ OpenList \/ ReadSitemap \/ ReadItems \/ CountItems
    \/ \E i \in Items : Show(i) \/ Bump(i) \/ Hide(i)

ListSpec == ListInit /\ [][ListNext]_listVars

-----------------------------------------------------------------------------
(***************************************************************************)
(* Properties                                                              *)
(***************************************************************************)

\* docs/SEO.md and [section]/page.tsx: a visit to all the pages sees every item that
\* was public all along, except one for each change made in the meantime.
FewMissed == visit.step = "done" => Cardinality(visit.steady \ visit.seen) <= visit.changes
=============================================================================
