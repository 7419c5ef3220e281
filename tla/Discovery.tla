------------------------------ MODULE Discovery ------------------------------
(***************************************************************************)
(* What a crawler finds: the sitemaps (lib/sitemap-providers.ts), the       *)
(* robots value in the head of every public page, and the links on it      *)
(* (app/(public) and lib/public-data.ts), each decided by a query of its   *)
(* own over the same rows.  Creators and moderators change the rows in one *)
(* step here; ContentLifecycle has these steps in detail, ReaderPages the  *)
(* several reads of one page.                                              *)
(***************************************************************************)
EXTENDS Integers, FiniteSets, SequencesExt

CONSTANTS
    Stories, Articles,   \* contents of the two types
    Leaves, StoryOf,     \* chapters, and the story of each
    Creators, CreatorOf, \* creators, and the one of each content
    Genres,              \* categories
    Tags, TagsOf,        \* tags, and those of each content: no route writes them
    PerPage,             \* rows of a page of a list
    HomeSize,            \* cards of a type on the home page
    Clicks               \* links that a crawler follows one after the other

Works == Stories \cup Articles

ASSUME DiscoveryAssumption ==
    /\ Stories \cap Articles = {} /\ IsFiniteSet(Works) /\ IsFiniteSet(Leaves)
    /\ StoryOf \in [Leaves -> Stories]
    /\ CreatorOf \in [Works -> Creators] /\ TagsOf \in [Works -> SUBSET Tags]
    /\ {PerPage, HomeSize, Clicks} \subseteq Nat \ {0}

VARIABLES
    work,       \* work[c]: the contents row
    leaf,       \* leaf[p]: the content_parts row
    genres      \* the categories that are not deleted

siteVars == <<work, leaf, genres>>

SiteInit ==
    /\ work = [c \in Works |-> [published |-> FALSE, public |-> FALSE, deleted |-> FALSE, of |-> {}]]
    /\ leaf = [p \in Leaves |-> [published |-> FALSE, deleted |-> FALSE]]
    /\ genres = Genres

-----------------------------------------------------------------------------
(***************************************************************************)
(* Queries                                                                 *)
(***************************************************************************)

\* publicWhere.
Public(c) == work[c].published /\ work[c].public /\ ~work[c].deleted

OfType(type) == {c \in IF type = "STORY" THEN Stories ELSE Articles : Public(c)}
ByCreator(u) == {c \in Works : Public(c) /\ CreatorOf[c] = u}
InGenre(g)   == {c \in Works : Public(c) /\ g \in work[c].of}
Tagged(t)    == {c \in Works : Public(c) /\ t \in TagsOf[c]}

ChaptersOf(c)  == {p \in Leaves : StoryOf[p] = c /\ leaf[p].published /\ ~leaf[p].deleted}
CreatorsAtWork == {u \in Creators : ByCreator(u) # {}}

\* Page n of rows that are listed in some fixed order.
Rows(set, n) ==
    LET list == SetToSeq(set)
    IN {list[k] : k \in {j \in DOMAIN list : (n - 1) * PerPage < j /\ j <= n * PerPage}}

\* The pages of a list.
PagesOf(set) == {n \in 1..Cardinality(set) : (n - 1) * PerPage < Cardinality(set)}

-----------------------------------------------------------------------------
(***************************************************************************)
(* Pages: of what kind, about which row, and the number in a list          *)
(***************************************************************************)

PageAt(type, of, n) == [type |-> type, of |-> of, n |-> n]
PagesFor(type, set) == {PageAt(type, r, 1) : r \in set}

Home     == PageAt("home", "all", 1)
Sections == PagesFor("section", {"STORY", "ARTICLE"})
Others   == {PageAt("creators", "all", 1), PageAt("genres", "all", 1)}

Turns(page, set) == {[page EXCEPT !.n = k] : k \in {page.n - 1, page.n + 1} \cap PagesOf(set)}

\* SiteHeader, on every page.
Header == {Home} \cup Sections \cup Others

\* Some of each type; the few categories and creators on it are left out, as is every
\* link to related items: they only help the crawler.
HomeLinks == UNION {PagesFor("item", {c \in OfType(type) : \E k \in 1..HomeSize :
                                         k \in DOMAIN SetToSeq(OfType(type)) /\ SetToSeq(OfType(type))[k] = c})
                    : type \in {"STORY", "ARTICLE"}}

SectionLinks(page) == PagesFor("item", Rows(OfType(page.of), page.n)) \cup Turns(page, OfType(page.of))

\* A story names its categories, also those that were deleted, its tags and a page of
\* its chapters; an article names none of these.
ItemLinks(page) ==
    LET c == page.of
    IN PagesFor("creator", {CreatorOf[c]}) \cup
       IF c \in Articles THEN {}
       ELSE PagesFor("genre", work[c].of) \cup PagesFor("tag", TagsOf[c])
            \cup PagesFor("chapter", Rows(ChaptersOf(c), page.n)) \cup Turns(page, ChaptersOf(c))

\* (and the chapters beside it, which the story lists as well)
ChapterLinks(p) == PagesFor("item", {StoryOf[p]}) \cup PagesFor("creator", {CreatorOf[StoryOf[p]]})

CreatorLinks(u) == PagesFor("item", ByCreator(u))
GenreLinks(page) == PagesFor("item", Rows(InGenre(page.of), page.n)) \cup Turns(page, InGenre(page.of))
TagLinks(t) == PagesFor("item", Tagged(t))
CreatorListLinks == PagesFor("creator", CreatorsAtWork)
GenreListLinks == PagesFor("genre", genres)

LinksOn(page) ==
    Header \cup
    CASE page.type = "home"     -> HomeLinks
      [] page.type = "section"  -> SectionLinks(page)
      [] page.type = "item"     -> ItemLinks(page)
      [] page.type = "chapter"  -> ChapterLinks(page.of)
      [] page.type = "creator"  -> CreatorLinks(page.of)
      [] page.type = "genre"    -> GenreLinks(page)
      [] page.type = "tag"      -> TagLinks(page.of)
      [] page.type = "creators" -> CreatorListLinks
      [] page.type = "genres"   -> GenreListLinks

\* Not notFound().
Found(page) ==
    CASE page.type = "item"    -> Public(page.of)
      [] page.type = "chapter" -> Public(StoryOf[page.of]) /\ page.of \in ChaptersOf(StoryOf[page.of])
      [] page.type = "genre"   -> page.of \in genres
      [] OTHER -> TRUE

-----------------------------------------------------------------------------
(***************************************************************************)
(* Heads and sitemaps                                                      *)
(***************************************************************************)

MinToIndex == 2

GenreHead(g) == g \in genres /\ Cardinality(InGenre(g)) >= MinToIndex
TagHead(t)   == Cardinality(Tagged(t)) >= MinToIndex

\* It does not look at deletedAt, of the story or of the chapter.
ChapterHead(p) == work[StoryOf[p]].published /\ work[StoryOf[p]].public /\ leaf[p].published

\* The head says "index".
SaysIndex(page) ==
    CASE page.type = "item"    -> Public(page.of)
      [] page.type = "chapter" -> ChapterHead(page.of)
      [] page.type = "genre"   -> GenreHead(page.of)
      [] page.type = "tag"     -> TagHead(page.of)
      [] OTHER -> TRUE

\* buildStaticPagesEntries: the list of articles is not among them.
StaticPages == {Home, PageAt("section", "STORY", 1)} \cup Others

\* All the pages of a sitemap: PublicLists reads them one by one.
ItemEntries    == PagesFor("item", OfType("STORY") \cup OfType("ARTICLE"))
ChapterEntries == PagesFor("chapter", {p \in Leaves : Public(StoryOf[p]) /\ p \in ChaptersOf(StoryOf[p])})
CreatorEntries == PagesFor("creator", CreatorsAtWork)

\* Mutant: _count without its filter.
AnyInGenre == PagesFor("genre", {g \in genres : Cardinality({c \in Works : g \in work[c].of}) >= MinToIndex})

GenreEntries == PagesFor("genre", {g \in genres : Cardinality(InGenre(g)) >= MinToIndex})
TagEntries   == PagesFor("tag", {t \in Tags : Cardinality(Tagged(t)) >= MinToIndex})

InSitemap == StaticPages \cup ItemEntries \cup ChapterEntries \cup CreatorEntries \cup GenreEntries \cup TagEntries

-----------------------------------------------------------------------------
(***************************************************************************)
(* Changes; a request that was checked before a deletion may be carried    *)
(* out after it                                                            *)
(***************************************************************************)

Write(c, row) == work' = [work EXCEPT ![c] = row] /\ UNCHANGED <<leaf, genres>>

\* The creator publishes, unpublishes, changes the visibility or the categories, deletes.
EditWork(c) ==
    \/ Write(c, [work[c] EXCEPT !.published = TRUE, !.public = TRUE])
    \/ Write(c, [work[c] EXCEPT !.published = FALSE])
    \/ Write(c, [work[c] EXCEPT !.public = ~@])
    \/ \E chosen \in SUBSET genres : Write(c, [work[c] EXCEPT !.of = chosen])
    \/ Write(c, [work[c] EXCEPT !.published = FALSE, !.deleted = TRUE])

\* A moderator publishes, unpublishes, deletes and restores.
ModerateWork(c) ==
    \/ Write(c, [work[c] EXCEPT !.published = ~@])
    \/ Write(c, [work[c] EXCEPT !.published = FALSE, !.deleted = TRUE])
    \/ Write(c, [work[c] EXCEPT !.deleted = FALSE])

EditLeaf(p) ==
    /\ leaf' \in {[leaf EXCEPT ![p].published = ~@], [leaf EXCEPT ![p] = [published |-> FALSE, deleted |-> TRUE]]}
    /\ UNCHANGED <<work, genres>>

DropGenre(g) == g \in genres /\ genres' = genres \ {g} /\ UNCHANGED <<work, leaf>>

SiteNext ==
    \/ \E c \in Works : EditWork(c) \/ ModerateWork(c)
    \/ \E p \in Leaves : EditLeaf(p)
    \/ \E g \in Genres : DropGenre(g)

SiteSpec == SiteInit /\ [][SiteNext]_siteVars

-----------------------------------------------------------------------------
(***************************************************************************)
(* Properties                                                              *)
(***************************************************************************)

\* The pages that may be indexed: further pages of a list, the list of articles, and
\* creators without public work are not meant.
AllPages ==
    StaticPages \cup PagesFor("item", Works) \cup PagesFor("chapter", Leaves) \cup PagesFor("genre", Genres)
    \cup PagesFor("tag", Tags) \cup PagesFor("creator", CreatorsAtWork)

\* What a crawler knows when it has followed every link that it knew.
Follow(known) == known \cup UNION {LinksOn(page) : page \in {q \in known : Found(q)}}

\* The pages it knows after so many clicks; it starts at the home page.
Known[k \in 0..Clicks] == IF k = 0 THEN {Home} ELSE Follow(Known[k - 1])
Reached == Known[Clicks]

\* Only stories link to their tags.
Orphan(page) == page.type = "tag" /\ Tagged(page.of) \cap Stories = {}

\* The sitemaps name exactly the pages that exist and say "index".
SitemapsExact == InSitemap = {page \in AllPages : Found(page) /\ SaysIndex(page)}

\* But for such tags, a crawler reaches each of them by links, too.
CrawlerArrives == {page \in InSitemap : ~Orphan(page)} \subseteq Reached

\* docs/SEO.md, "Sitemaps" and "Robots": both.
SitemapsAgree == SitemapsExact /\ CrawlerArrives
=============================================================================
