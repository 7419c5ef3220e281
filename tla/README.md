# ContentHub: a TLA+ verification of the platform

ContentHub is a publishing platform (stories with chapters, articles) with
creators, moderation, view counting and revenue sharing. It consists of a Fastify
API (`apps/api`), a BullMQ worker (`apps/worker`), a Next.js front end
(`apps/web`) and a set of packages over PostgreSQL (`packages/database`, Prisma 5)
and Redis. This directory models what depends on order, concurrency and failure:
wallets and payouts, the life of contents, reports and moderation, slugs and
saved versions, the view pipeline and the revenue pool, accounts and sessions,
comments, the autosaving editor, the admin console, and the public pages. Paths
below are relative to the repository's root, or short names of files found there.

## 1. Inventory

Every API request is a sequence of awaited database operations. Nothing locks
across awaits; the requests of one or several API processes interleave at every
`await`. Only what is inside `prisma.$transaction` commits together, at
PostgreSQL's default isolation, READ COMMITTED. There is no retry of a failed
transaction anywhere. In the browser, requests overlap unless a button is
disabled, answers come in any order, and an answer may be lost after its request
took effect.

| component | state | operations | interacts with | what is hard |
|---|---|---|---|---|
| Wallet ledger (`packages/revenue/src/ledger.ts`) | `wallets`, `wallet_transactions` | `appendEntry`, `releasePendingToAvailable` | the admin routes (the release: nobody yet) | read-modify-write of absolute balances, the unique index of the first credit, rollbacks |
| Payouts, adjustments, onboarding (`admin.ts`, `creator.ts`) | `payouts`, `creator_profiles` | status changes, adjustment, `POST /creator/profile` | wallet ledger | a balance checked outside the transaction, a status written after it, a crash between the two |
| Content lifecycle (`content.ts`, `public.ts`) | `contents`, `content_parts`: status, visibility, deletion | create, patch, publish, unpublish, delete; the readers | moderation, revisions, views | checks several awaits before the write; readers of several SELECTs |
| Moderation and reports (`packages/moderation`, `admin.ts`) | reports, actions, user status | file, review, reject, act | contents, sessions, comments | read-check-write of the report status |
| Revisions, slugs, positions, redirects (`content.ts`) | `content_versions`, slugs, positions, `redirects` | create, rename, save, add a chapter | contents, categories | `max + 1` numbering, unique slugs, renames back and forth |
| View pipeline (`ChapterViewTracker.tsx`, `events.ts`, `packages/analytics`, `apps/worker`) | a Redis queue, `content_views` | beacon, enqueue, aggregate | contents, revenue pool | jobs that stall and run twice, increments, restarts |
| Revenue pool (`allocation.ts`, `money.ts`) | none | split by percentage, allocate by views | views, revenue configuration | remainders, ties, rounded percentages |
| Revenue configuration (`admin.ts`, `admin/revenue`) | `revenue_configs` | store a version | revenue pool | version by `max + 1`, the sum of rounded percentages |
| Sessions, CSRF, accounts (`packages/auth`, `plugins/auth.ts`, `routes/auth.ts`, `use-session.ts`) | `sessions`, `users`, the cookie, what each tab knows | register, login, logout, verify; suspend | every route | tabs that share a cookie, a suspension while a login runs |
| Comments (`comments.ts`, `Comments.tsx`) | `comments`, a text in a form | post, reply, delete | accounts | a parent deleted between check and insert, a retry after a lost answer |
| Editor (`ContentPartEditorForm.tsx`, `Editor.tsx`) | the form's text, timer, id | autosave, save, publish, preview, upload | contents, categories | overlapping saves, the page that is replaced after a create |
| Categories (`creator.ts`, `CategoryPicker.tsx`) | `categories`, the picker's lists | find or create, rename, delete, choose | contents, sitemaps | names created at once, slugs of deleted rows, stale closures |
| Admin console (`apps/web/src/app/admin`) | a list read earlier, a filter | load, act, reload | admin routes | acting on a row that has moved on |
| Public pages (`app/(public)`, `public-data.ts`) | none of their own | item, chapter, list, author, category and tag pages | contents, categories | several reads of one page; offset pages of a changing list |
| Sitemaps and robots (`sitemap-providers.ts`, `packages/seo`) | none of their own | index, entries, head of each page | the same rows | separate queries that must agree |
| Search, metadata, JSON-LD, llms.txt | none | queries and formatting | contents | nothing that changes state |
| Storage (`packages/storage`) | files | put, validate | editor | file I/O |

For each, what makes it correct is the properties of section 3. Every component
and its status is in `PROJECT.json`, with all the hazards, each at its line.

## 2. Modules

```
WalletRows                 rows and arithmetic (pure)
  |- AtomicLedger          what class WalletLedger promises (abstract)
  |- WalletLedger          its transactions, statement by statement
       |- Payouts          the requests that call it
            |- WalletProofs
ContentLifecycle           items, chapters, readers
  |- Moderation            reports, actions, audit trail, on top of it
       |- ContentProofs
RevisionHistory            slugs, redirects, positions, versions
  |- RevisionProofs
ViewCounter                what content_views promises (abstract)
  |- ViewPipeline          browser, queue, worker
       |- SharedPool       what it counts, shared out by RevenuePool
            |- ViewProofs
RevenuePool                splitting money (pure)
  |- RevenueConfigs        the stored splits
  |- RevenueProofs         sums, and every division of money
Accounts                   sessions, tabs, the cookie
  |- Comments              routes and forms, on top of it
       |- CommentsProofs
EditorForm                 the autosaving form
  |- EditorProofs
AdminConsole               a page of the console
PublicLists                reading a list page by page
  |- ReaderPages           the pages of one item
Discovery                  sitemaps, heads and links of all pages
Taxonomy                   categories and their picker
SmallSystems               RevenueConfigs, Taxonomy, AdminConsole, PublicLists,
  |                        ReaderPages and Discovery side by side
  |- PagesProofs
MCWalletLedger, MCPayouts, MCContentLifecycle, MCModeration, MCRevisionHistory,
MCViewPipeline, MCComments, MCEditorForm, MCPages            finite instances
```

`WalletLedger` *implements* `AtomicLedger` and `ViewPipeline` *implements*
`ViewCounter` (`INSTANCE ... WITH`, the abstract specification a property of a
run). `Payouts`, `Moderation` and `Comments` *compose*: they extend the module
below them and conjoin its actions with their own state; `SharedPool` hands the
counter of ViewPipeline to `AllocateCreatorPool`. `SmallSystems` holds six that
share no state and runs each in turn.

How states and actions correspond to the code:

* **WalletLedger.** A wallet is the record of the `balance_*` columns in cents, a
  ledger the sequence of a creator's `wallet_transactions` in commit order. A call
  is a transaction whose program counter stands before its next SQL statement:
  `select`, `insert` (the second half of the emulated upsert), `entry`, `update`,
  `commit`. What it wrote is invisible until `Commit`; `locked` holds the row lock
  or the uncommitted unique-index entry that other writers wait for. `Abort` is
  the 5 s timeout of an interactive transaction or a lost connection. The columns
  are 64 bits wide and nothing comes near that, so amounts are integers.
* **Payouts.** One handler per concurrent request; `step` is the await it is at.
  `Record` writes the payout row after the ledger call, `SetStatus` is the
  FAILED/PROCESSING branch, which looks at nothing, `Crash` loses the process at any
  await (a commit whose reply is lost is `Commit` and then `Crash`). No route
  inserts `payouts`, so `RequestPayout` is external.
* **ContentLifecycle.** Of the rows, what the routes decide on. A request reads, one
  action per SELECT, and then writes in one action: a single statement, or a
  transaction that reads nothing and takes its locks in one order. A PATCH of
  several fields is patches of one field each. A reader is one action per SELECT.
* **Moderation.** `applyModerationAction` is a transaction that writes values it did not
  read: `Record` inserts the audit row, whose time stamp gives it its place in the trail;
  `Apply` takes the locks, writes effect and report and commits; `Rollback` undoes the
  row. `state` and `until` of a row say whether it was committed, and how long the trail
  was then. `transitionReportStatus` is `CheckTransition` and
  `WriteTransition`. The target and the action of `ActOnReport` come from the
  request and need not match the report, as in the route.
* **RevisionHistory.** `stage` is the await of a request: candidates of
  `uniqueSlug` one SELECT at a time, the highest position, then the statements of
  the transaction (redirect, categories, row, version). `asked` is the history of the
  choices of categories that were committed, with what each could delete. Slugs are model values in
  the order in which they are tried; `slugify`'s rules for characters are left out.
* **ViewPipeline.** `page` and `level` are the tracker in a reader's tab, `job` the
  event in the queue and the step of its run, `ghost` a run that has lost its lock and
  goes on, `up` the worker's process. One day.
* **RevenuePool.** The two functions in integer arithmetic, with percentages in
  hundredths as `money.ts` rounds them; a tie for the largest share is a choice,
  since the order of rows of a query without `orderBy` is. `FairAllocation` says what
  an allocation owes: the whole pool, nothing negative, shares in proportion.
* **Accounts, Comments.** `session` are the rows, `cookie` what all tabs send,
  `shown[w]` what `useSession` read when tab `w` was mounted; tokens are numbers and
  a CSRF token is the session it is tied to. A request is let in, or not, when it
  arrives, and each check after that is a step. `box` is the text in a form, which can
  be edited while a post runs; a page is left only between requests.
* **EditorForm.** `form` is the React state and refs of the mounted form, `calls` its
  requests with their payloads as of the click, `row` the items. Routes are one step
  (ContentLifecycle and RevisionHistory have their insides). `hurried` remembers
  that something was done while a write was under way; `early` holds the edits made
  before the session was known that nothing has taken along since.
* **AdminConsole.** `row` is the stored row, `shown` the list on the page, `calls` loads
  and actions on their way, with the lists they bring; `since` of a list is what happened
  after it was read. Clicks, filters and answers overlap as they like. The four pages are
  one module with different buttons and guards.
* **PublicLists, ReaderPages.** `recent` is the result of the query at this moment; a
  visit reads it page by page. `request` is the page being built: head and body
  read the rows separately; `walk` is a reader who follows the links.
* **Discovery.** The rows, and for each page the set of links on it, what its head
  says, and what the sitemaps name: the operators are the queries. `Known[k]` is
  what a crawler has found after `k` clicks.
* **RevenueConfigs, Taxonomy.** One step per await of the routes; the picker of one
  creator keeps the closures (`selected` of a request) that React keeps. `selected`
  says how often each id is in the list, since a created category can be put in twice.

## 3. Runs

| run | specification | what it shows |
|---|---|---|
| `WalletRace` | every interleaving, fair | balances descend from recorded balances; no negative pending balance; every call settles |
| `WalletSerial` | calls on one creator do not overlap | running total, totals by summation, implements `AtomicLedger` |
| `WalletLostUpdate` | every interleaving | **violation**: two appends fork the running total |
| `PayoutRace` | every interleaving, crashes | status never ahead of the ledger; reversals follow debits |
| `PayoutSerial` | one request per creator, no crash, paid payouts left alone | covered debits, nothing debited or refunded twice, a debit reaches the payout |
| `ContentRace` | no moderators, no patch during a publish | article and part agree; deleted bodies withheld; published means complete |
| `ModerationRace` | no transition is overtaken | every status goes back to a row of the trail; acted on stays resolved |
| `Revisions` | every interleaving, rollbacks, fair | gapless versions, redirects lead home, chapters in order, categories kept, requests end |
| `Views` | lost beacons, stalls, restarts, fair | implements `ViewCounter`; jobs settle; the pool is shared fairly |
| `Accounts` | two tabs, suspension, lost answers | a tab acts for the user it shows; texts are stored once and cleared only for a reason; the suspended stay quiet |
| `Editor` | two requests under way, a lost answer, fair | "saved" is true; edits are neither lost nor doubled, and settle |
| `Pages` | the six small systems | the ten properties of AdminConsole, PublicLists, ReaderPages, RevenueConfigs, Taxonomy and Discovery |

**Bounds, and why they are enough.**

* `WalletRace`: one creator, two calls, all five kinds, two entries. Two suffice for
  every pair of statements to meet and for every wait. `WalletSerial`: two
  creators, since there the question is what calls on *different* ones do.
* `PayoutRace`, `PayoutSerial`: two payouts of 1 and 2, grants of 2, so that the
  wallet covers each alone and not both; four entries allow a debit, a reversal and
  a second debit. `PayoutSerial` adds a correction of -1, which may overdraw alone.
* `ContentRace`: an article with its part, a story with a chapter, two requests, one
  reader; otherwise unbounded. `ModerationRace`: a story, an account, a comment, a
  report, two moderators, two recorded actions, enough for two opposite ones.
* `Revisions`: two overlapping requests; a title, the same in capitals and another
  one, so that slugs collide, come back and are freed; three versions and redirects
  over all (`MaxWrites`): two renames back and forth, or saves that collide; three
  choices of categories (`MaxChoices`): two that overlap and one before or after.
* `Views`: two readings of one chapter (a counter of two), one slot, one retry,
  which is BullMQ's default. Pools of 1, 10 and 10000 cents among three creators
  reach shares below a cent, ties and remainders.
* `Accounts`: an administrator with an earlier comment, a user who has yet to
  register, two tabs, two sessions, so that a
  login can replace a session and a suspension can meet it; one lost answer; two drafts
  (`MaxDrafts`), so that one can be typed while the other is posted, and two posts
  (`TwoPosts`).
* `Editor`: two edits, two requests under way, one lost answer. The run does not
  continue from a `hurried` state (`CONSTRAINT Careful`): the properties,
  `EditsSettle` included, hold of it by their own words, so nothing is hidden. An edit before the session is
  known is not hurried: the run goes on with it.
* `Pages`: two calls of the console at a time, five statuses to filter by (`Filters`), no
  end to clicks (on the payouts alone, three calls were checked, too); four items on pages of two, two changes a visit;
  two submissions, three versions; four chapters, two of them added at once, two
  changes a visit; three category ids, names that differ in case only, three
  requests; a story, two articles, lists of one row a page (so that all lists turn),
  the two rows that a category or tag needs, and as many clicks as the site is deep.

**Symmetry** is over handlers or moderators, which no property names, and only in
runs without liveness. **Deadlock** is checked in every run.

**Fairness**, where a run has a liveness property. Weak fairness on the statements
of an open transaction and on the steps of a request: PostgreSQL runs each
statement it is sent, and the event loop resumes each settled promise. Strong fairness on statements that can
wait (the INSERT of a unique key, the UPDATE of a locked row): waiters are queued,
so a wait is not overtaken for ever. In `ViewPipeline`, weak fairness on the steps
of a run and on the worker's restart, strong fairness on taking a job: BullMQ hands
out waiting jobs in their order. In `EditorForm`, weak fairness on timers, on the
replacement of a page and on answers. Nobody is assumed to click, to retry or to
send anything, and nothing is assumed of `Abort`, `Crash`, `Stall` or `Stop`.

**Assumed of the callers**, where a run says so. The code enforces none of these.

* `NoOverlap`: no two open ledger calls on one creator.
* `OnePerCreator`, `KeepsPaid`: one payout request per creator at a time; nobody sets
  a payout to FAILED or PROCESSING once it is paid, or while a request runs.
* `PatchesApart`: no patch of a description or body while a publish of the same item
  is between check and write.
* `Exclusive`: nothing changes a report between check and write of its transition.
* `hurried` (EditorForm, Taxonomy): the properties speak of users who wait for an answer
  before the next step that writes. What happens otherwise is in section 6.

## 4. Proofs

Proved with TLAPS for every value of the constants, no bound on anything, from
the named assumptions on the constants that the modules state.

| theorem | under | by the inductive invariant |
|---|---|---|
| `TypeCorrect` | `Spec` of the ledger | `TInv`: types, and an open transaction has a call |
| `BalancesDescendAlways` | `Spec` | `DInv`: every row a transaction *read* held a recorded balance, which stays recorded although the row becomes stale |
| `PendingNeverNegativeAlways` | `Spec`, if credits of pending revenue are not negative | `PInv`: the row a release overwrites *with* passed its check |
| `ChainedWhenSerial`, `ReadsCurrentWhenSerial` | `SerialSpec` | `SInv`: the row read is the row in the table until the commit |
| `RebuildableWhenSerial` | `SerialSpec` | `SInv` and `Rebuilt`: a creator without a wallet has an empty ledger, and an entry more credits the sum as it credits the row |
| `SerialImplementsAtomic` | `SerialSpec` | the same; `Commit` is the atomic step, all other statements stutter |
| `AdminImplementsLedger`, `AdminTypeCorrect` | `AdminSpec` | `AInv`: a handler's step agrees with its call, and the call with its request |
| `StatusIsLedgeredAlways`, `ReversalFollowsDebitAlways` | `AdminSpec`, crashes included | `LInv`: a finished call has left its entry, and a reversal under way has its debit |
| `PayoutsCoveredInTurns` | `TurnsSpec`: one request per creator | `VInv`: what a debit under way has read still covers it |
| `SettledOnceWhenCareful` | `CarefulStep`: besides, no crash, paid payouts left alone | `OInv`: debits less reversals are what the status says, give or take the call under way |
| `TurnsImplementAtomic` | `TurnsSpec`, crashes included | the requests are calls of `SerialSpec` |
| `LifecycleTypeCorrect` | `Spec` of the lifecycle | `IInv`: requests that passed a check are about rows that exist, and rows stay |
| `DeletedBodiesWithheld` | `Spec`, moderators included | `DInv`: what a reader found deleted stays deleted; publishing a deleted chapter changes its status only |
| `ArticlePartFollows` | `OwnerSpec` | `PInv`: every transaction on an article writes its item and its part alike |
| `PublishedWhenComplete` | `ApartOwnerSpec`: no moderators, no patch during a publish | `CInv`: what a publish found complete is complete when it writes |
| `ModerationImplementsLifecycle`, `ModerationTypeCorrect` | `ModerationSpec` | types of reports, accounts, trail and open transitions |
| `AuditAccountsAlways` | `ModerationSpec` | `MInv`: `AuditAccounts` with types; an open review or rejection never resolves, and of an account's rows the one committed last was followed by none that was recorded after it |
| `ActedOnStaysResolved` | `ExclusiveSpec` | `EInv`: an open transition is still allowed, so it is not about a resolved report |
| `Typed`, `HistoryStaysComplete` | `Spec` of RevisionHistory, rollbacks included | `RInv`: whoever holds a row's lock has read its highest version, and nobody else holds it |
| `OrderKept` | the same | `OInv`: the chapters of an item that a request has found stay, below the position it has read |
| `CategoriesStay` | the same | `KInv`: what an open update has not deleted of its item's categories was chosen by updates that committed since it deleted |
| `OldSlugsLead` | the same | `DInv`: a slug that an item had has its redirect, or the transaction that takes it away writes one |
| `PipelineTypeCorrect`, `PipelineImplementsCounter` | `Spec` of ViewPipeline | `VInv`: a job is sent as its page was; a step of a run is one of the counter's or a stutter, as its credit (what it may still count) says |
| `PoolHandedOut` | no state: any pool, any number of creators and views | the remainder is what the floors leave; sums by recursion over the creators |
| `FairlyAllocated` | the same, up to 141 creators | each floor is within a cent and half a hundredth of a percent; the largest share can give back what n - 1 others got too much while n (n - 1) <= 20000 |
| `ManyOverdraw` | 155 creators with equal views | a counterexample: that bound, or one close to it, is needed |
| `SharedAmongFew` | `Spec` of ViewPipeline, up to 141 creators | the counter is a natural number, whatever was lost or repeated |
| `TypesAndThreads` | `Spec` of Comments, on Accounts | `CInv`: a parent that was checked is a comment of the first level |
| `RequestsActAsShown`, `SuspensionIsImmediate` | the same, any number of tabs | `AInv`: a CSRF token names the session it was made for, and the user of a session never changes |
| `PostsStoredOnce` | the same | `CInv`: the comments with a text are counted by the request that brings it and its lost answers |
| `VersionsStayInOrder` | `ConfigSpec`, any number of submissions | `ConfigInv`: the version a submission has read to use is that of a stored row or the next one, and the unique index lets in only the next |
| `StoredSplitsWhole` | `ConfigSpec`, any splits and any pool | `ConfigInv`: each row is a split that was let through, rounded; its sum is from 9998 to 10002 |
| `NamesOnce`, `LinksKeepMeaning` | `TaxonomySpec`, all creators | `TableInv`: slugs are given out once; a creation under way has seen every row of its name but those made since |
| `SelectedAsChosen` | the same, for a creator who waits | `ChoiceInv`: the list, or the request and the list it was sent from, hold what was chosen |
| `ConsoleRestsOnStored` | `ConsoleSpec`, any number of clicks and loads that overlap | `ConsoleInv`: a list read before an action of the page was applied has another coming that will be read, or was read, after it, unless a failure or another list ended that |
| `FewAreMissed` | `ListSpec`, any list, page size and visit | `ListInv`: what is passed by and what is out of reach are no more than the changes |
| `PagesSayTheSame` | `ReaderSpec` | `ReaderInv`: while nothing changes, head and body have read the rows as they are |
| `WalkPassesNoChapter` | `ReaderSpec` | `WalkInv`: every steady chapter before the reader has been seen; the nearest chapter exists by well-foundedness |
| `SitemapsAlwaysAgree`, `SiteAlwaysAgrees` | `SiteSpec`, from as many clicks as the site is deep (`EnoughClicks`) | `SiteInv`: types; then each page of a list is a click after the one before, and each row is on one of them |
| `FormShowsTheStored`, `NoEditIsLost` | `Spec` of EditorForm, for a creator who waits | `EditorInv`: one write at a time, of the form on the screen; its draft takes nothing from its item, and an edit is in as many other items as answers were lost |

None of the properties is inductive by itself: each speaks of the tables, and the
next table is decided by what an open request read some steps ago. The added
conjuncts say what of that reading is still true when it is used. `WalletProofs`
and `ContentProofs` prove that every behaviour of a composition is one of the
component, and inherit its theorems.

Several theorems cover more than their run: `ContentRace` and `ModerationRace`
each check all their properties under one specification, the strongest assumption
that any of them needs. The type invariants and `ReadsCurrent` are proved, and no run
repeats them; `TypeOK` of EditorForm documents its state: `EditorInv` implies its
types while nobody hurries, and nothing is claimed of it otherwise.

**Constants.** The theorems rest on the named assumptions only. Those that a proof
asked for are as weak as the code justifies: values that stand for "nothing" are no
numbers, rows or forms (`EditorAssumption`), the sets of tables are finite, a story's
first chapter is among its chapters (`1 \in Chapters`), a split has three parts of
which none is negative (`ConfigAssumption`), and the creators who share are finitely many.

**Sums.** A fold of the community modules is a recursive function over the subsets of
a finite set, and no rule of induction is at hand for it. `Recursion` shows that such a
function exists, from the least element of a set of numbers: were there a size of
subset up to which it cannot be computed, take the first one and add a step to the
one before; `OneMoreClick` does so for the clicks of a crawler. `SumWithMore` and `SumBound` follow for sums of functions, `SumAppend` for
the sum of a ledger.

**Model-checked only.** Liveness (`CallsReturn`, `DebitIsRecorded`, `RequestsEnd`,
`JobsSettle`, `EditsSettle`), since ENABLED and fairness are beyond the prover. Every
safety invariant and action property of the runs is stated by a theorem, and both
refinements are; `TypeOK` of EditorForm is neither checked by a run nor claimed.

## 5. Finding

**Lost updates of a wallet** (`WalletLostUpdate`, `ledger.ts:48`). The wallet is
read without a lock and overwritten with values computed from that read. Two
appends that overlap record the balance of one of them only. The class comment
(`ledger.ts:14-16`) and `docs/REVENUE.md:65-74` promise consistency. A
`SELECT ... FOR UPDATE`, or increments, would make `NoOverlap` true.

## 6. Observations without a run

Seen while modelling. Those that contradict a property are why it is stated
under an assumption or with an exception.

*Money.*

* Two approvals overdraw a wallet: the check (`admin.ts:347`) reads the balance before
  the ledger's transaction, while `docs/ARCHITECTURE.md:241-243` promises the refusal.
* A crash after the debit and before the payout says PAID, or PROCESSING on a paid
  payout, allows a second debit (`admin.ts:358-359`).
* A release writes no ledger entry (`ledger.ts:69`), so `available` and `pending`
  cannot be rebuilt one by one, although `docs/REVENUE.md:73-74` says so. Their sum can.
* `docs/API.md:110` asks for percentages of exactly 100; the code lets 0.01 pass, and
  `Decimal(5,2)` may store a sum of 99.99. With every share below a cent the
  remainder may go to a creator without views (`allocation.ts:48`).
* The shares of many creators may not be payable: percentages rounded up hand out more
  than there is, and the largest share gives it back (`money.ts:41-44`). Of 155 creators
  with equal views, at a pool of 1,000,000 cents, one is allocated -1000 (`ManyOverdraw`);
  up to 141 creators, no share is negative (`FairlyAllocated`). Nothing calls
  `splitRevenuePool` or `allocateCreatorPool` yet.
* A double click on the revenue page makes two versions, or books an adjustment twice.

*Contents and moderation.*

* A PATCH between the check of a publish and its write publishes an incomplete item
  (`content.ts:245-252`, `docs/API.md:40`).
* A moderator's PUBLISH or RESTORE writes the item only (`actions.ts:58-70`): an
  article may become public without text, a deleted item PUBLISHED.
* Acting resolves a rejected report, and a late rejection overwrites RESOLVED
  (`actions.ts:49`, `reports.ts:40`); `reports.test.ts:47` calls it terminal. An action
  on a COMMENT or CONTENT_PART resolves its report and changes nothing else.
* NOINDEX has no effect: nothing hands `seoNoindex` to `getRobotsMetadata`, and the
  sitemaps do not ask for it.
* The item and its parts are two SELECTs (`public.ts:55-60`). Neighbours of a chapter
  are chosen by status only (`public.ts:95`, `public-data.ts:71-72`), so one
  published while it was deleted is linked and gone.
* Nothing reads `redirects`, though `docs/SEO.md:168-171` promises a 301. A rename to
  a new title, back, and to the new one again fails with 500; so does every rename of
  an item whose freed slug another one took. Overlapping updates may leave the
  union of two choices of categories.
* An article page mounts the tracker without a part ([itemSlug]/page.tsx:103) and
  `aggregate.ts:23` drops such events: readings of articles are never counted.

*Accounts and comments.*

* Logging out while suspended revokes nothing (`auth.ts:74`). Creating a profile sets
  the role to CREATOR, of moderators and administrators, too (`creator.ts:57`).
* `AuthNav` goes on showing a user who has logged out. A reply to a comment deleted
  meanwhile is stored and never shown. The answer to a post clears what was typed while it
  ran, stored or not (`Comments.tsx:54`; `StoredOnce` names it as an exception).

*Browser.*

* `URLSearchParams` turns an absent filter into "undefined": "All" on the payout and
  report pages is refused (422), and users and stories need both filters. Lists
  show fifty rows and have no further page.
* Editor: returning from the preview shows the text of the mount, leaving clears the timer, and
  actions while a save is under way may lose or double text. The timer of an edit made before
  the session is known calls a save that returns at once and is not set again
  (`ContentPartEditorForm.tsx:79-81`, `:109-114`): without a later edit or press of a button the
  text is in no save, and the form does not say so. `EditsSettle` claims nothing of it until
  then (`Due`), and that it settles afterwards.
* Console: after a failed action nothing is loaded again, so the list may show the row from
  before an action that was applied; only the page of the payouts says that it failed, until
  the next click, even one that is not carried out (`payouts/page.tsx:36`). Of two loads the
  later answer stays, whichever was read first. `RestsOnStored` names these exceptions; a click
  before the page has come to rest acts on what it shows.
* Moderation: the trail is ordered by time stamps taken before the lock of the account, so the
  later of two rows may not be the action that decided (`actions.ts:29`, `:43`, `:45`);
  `AuditAccounts` says which rows may be.
* Categories: a deleted one stays selected, unseen, and makes every save of the item
  fail, although `CategoryPicker.tsx:77` says that tagged content is unaffected;
  creating one that is chosen already doubles its id (422). An answer overwrites the
  selection of its click (`:45`, `:83`). Renaming in case only appends "-2".
* Public pages: an item shows chips of deleted categories, whose pages are gone. A
  tag that only articles carry is in the sitemap and linked from nowhere, since an
  article's page links neither tags nor categories. `buildStaticPagesEntries` omits
  `/tin-tuc`. `sitemap-authors.xml` has one page of 10,000; an author without
  public work says "index" and is in no sitemap. The head of a chapter's page does
  not look at `deletedAt`.

## 7. Not modelled

* Search, metadata, JSON-LD, breadcrumbs, llms.txt, layout: queries and formatting of rows
  modelled elsewhere; they change no state.
* Storage: file I/O behind a validation; the upload request is a step of EditorForm.
* JWT, password hashing, seed data, the unused payment provider.
* Of the modelled parts: the rules for characters of slugs; rate limits; the texts of
  contents beyond present or not (or which edits); the form of a chapter, which
  saves as that of an article by other routes; the time of a
  schedule, on which no worker acts; the text search and the counters of the console; view counts on pages.

## 8. Plan

Done: everything in section 2, and a theorem for every safety property. What is left,
in order of importance:

1. `TypeOK` of EditorForm also when the creator hurries.
2. A bound on the creators closer to where shares turn negative, between 141 and 155.
