# Verification of the procurement portal

The portal collects price lists of furniture-fittings suppliers, matches their
rows to product cards and compares prices. It consists of four Go services over
one Postgres database (a schema each), an S3 bucket for photos, Kratos for
sessions and a Next.js web application. This directory holds TLA+ models of the
parts where steps of several actors meet, the TLC runs over small instances, and
TLAPS proofs for every instance.

    tlc -workers 2 -config Gallery.cfg MCGallery.tla
    tlc -workers 2 -config Portal.cfg MCPortal.tla
    tlapm GalleryProofs.tla

## 1. Inventory

| Component | State | Operations | What makes it correct |
|---|---|---|---|
| catalog: photo gallery (`matching.go`, `product_image.go`, `s3.go`) | rows of `catalog.product_images`, objects `products/*`, the channel `photoCh`, the migration goroutine | upload, delete, reorder, read, download by link, migrate to S3 | a photo is in one place; a key never refers to a removed object; no photo without a card; limit of 10; downloads only for cards without photos; the queue drains, the migration ends |
| catalog: matching (`matching.go`, `match.go`, `product.go`) | `catalog.products`, `catalog.offer_matches`; reads `importer.supplier_offers` | suggest, confirm, create a card from a row, unmatch, automatic run | a match leads to a card and to a row; no duplicate cards; a run does not touch what people decided; runs end, and repeated runs finish the list |
| catalog: categories (`category.go`) | tree `catalog.categories`, `catalog.category_mappings` | create, rename, move, delete, map, apply mappings | the tree has no cycle; mappings refer to categories; products placed by hand stay |
| catalog: suppliers (`supplier.go`) | `catalog.suppliers` | create, update, delete, list | names are unique; what a deleted supplier leaves behind is inert |
| catalog and import: admin wipe (`admin.go`, `batch.go`) | all of the above | two calls, each a transaction, then `DeletePrefix` | all or nothing per service; nothing newer is damaged |
| import (`batch.go`, `parser/`) | `importer.import_batches`, `importer.supplier_offers` | preview, process a file, list, wipe | a batch and its rows appear together; cells are read the way people write them |
| pricing (`price.go`) | none; live join over both schemas | compare, minimum prices | the latest price list of a supplier counts; in stock first, then cheaper |
| gateway | none; sessions are in Kratos | REST to gRPC, roles, wipe, users | admin routes need the role admin; a half-done wipe |
| web application: pages | what each page shows, its timers, which buttons are out, the handlers that wait for an answer | loads, searches that wait for a pause, forms, panels, optimistic updates | nothing is sent twice; nothing stays busy; what is asked for is what is entered; what is deleted was asked about |
| web application: shell and login | whether somebody is known to be logged in, the flow of Kratos | check of the session, login, logout, redirects | the redirects end |
| web application: tree of categories | none; computed from the list | tree, its flat list, counters, paths | no category is missing; the counters are those of the database |
| shared `internal/postgres` | pool, transaction in the context | `WithinTx`, migrations | rollback on error and panic, reuse of an outer transaction |

Interactions. The gateway calls the services by gRPC. The catalogue reads the
importer's tables and pricing reads both, in SQL, without foreign keys between
schemas. Inside the catalogue, a match starts the download of a photo through
`photoCh`; one goroutine works the channel off and calls the same
`AddProductImage` as users do. A second goroutine, started with the service,
moves photos from Postgres to S3. A wipe is a call of the import service, then
one of the catalogue, then a purge of the bucket.

What is hard. All transactions run at READ COMMITTED and lock nothing by hand, so
a check and the write after it are separate in time. Objects of the bucket are
written before the row commits and removed after it. The channel and the pending
removals are lost in a restart. Automatic runs decide rows of a page read
earlier, while other runs and people change rows, matches and cards. In the
browser every handler that awaits a call goes on in a page that has changed: its
answer may be late, be overtaken, be lost after the server has acted, or come to
a panel that shows another card by now.

## 2. Modules

| Module | Models | Proofs |
|---|---|---|
| `Gallery`, `MCGallery` | the photo gallery with uploads, worker, migration, deletions, wipe, restart | `GalleryProofs` |
| `Matching`, `MCMatching` | matching and automatic runs, people's operations, wipe | `MatchingProofs` |
| `Forest` | abstract: a forest that is grown, moved in one step, pruned | |
| `Categories`, `MCCategories` | the categories, moves in two statements, cascades, mappings, the category of a card | `CategoriesProofs` |
| `CategoryTree` | the browser's tree, list, counters and paths over the same table | `CategoriesProofs` |
| `Registry` | abstract: suppliers entered and renamed under names nobody else has | |
| `SupplierTable` | the suppliers, created in two statements under a unique index | `PricesProofs` |
| `Pricing` | the choice of the cheapest offer and of the lowest price, as operators | `PricesProofs` |
| `Prices`, `MCPrices` | suppliers, imports, matches, wipes, and the two price queries over them | `PricesProofs` |
| `WebCalls` | handlers of a page that wait for an answer | `PortalCallsProofs` |
| `MatchingPage`, `ImportsPage`, `CatalogPage`, `ProductPage`, `ComparePage`, `ProductsPage`, `CategoriesPage`, `SuppliersPage`, `UsersPage` | a page each, with its server | the four modules of `Portal` |
| `EditSheet`, `ImagesSheet`, `WipeDialog` | the panels of a card and the dialog of a wipe | `PortalCallsProofs`, `PortalPanelsProofs` |
| `SessionShell` | the shell around the pages and the login page | |
| `ComparePrices`, `Pager` | the sorted table of prices, the footer of a table, as operators and actions of the pages | `PortalListsProofs` |
| `Portal`, `MCPortal` | one browser tab: all of the pages above over the same variables | `PortalProofs`, `PortalCallsProofs`, `PortalPanelsProofs`, `PortalListsProofs` |

### Gallery

One action per SQL statement or S3 call. Rows are split into what a reader can
see: `rows` (committed), `bytes` (data in Postgres) and `keyed` (an S3 key). An
uncommitted photo is in `photo[a]` of the call that inserted it, and visible to
nobody else. `AddProductImage` is `AddCount`, `AddInsert`, `AddPutOriginal`,
`AddPutThumb`, `AddCommit`; `AddFail` is every error, timeout or panic, which
`WithinTx` turns into a rollback, and which leaves the objects. The worker's call
is the same actions for `PhotoWorker`, after `TakePhotoTask` (the task is taken
and the photos of the card are counted) and the stage `fetching`. The foreign key
of `product_images` is a guard: an uncommitted photo keeps its card from being
deleted (`Locked`), and the DELETE cascades to what is committed when it gets the
lock. `DeleteProduct` is `DeleteProductRead` (the keys), `DeleteProductCommit`
and, one object at a time, `CleanObject`, which may fail silently, as
`S3Store.Delete` does. A wipe is `WipeCommit`, then `WipePurge`, which removes
any part of what is in the bucket at that time. `Restart` forgets everything in
memory and may switch S3 on or off; with S3 the migration starts again.

Simplifications: one wipe at a time and one DeleteProduct per card at a time; a
user's call names a card when it counts; `S3Store.Put` is atomic, and an S3 error
never stores the object (an orphan more would change no property); positions and
reads are left out.

### Matching

A price list (`RowNum`), cards with a name and an article, and the table of
matches (`match`, `by`). An automatic run goes through the stages `list`
(`ListPage`), `article` (`FindByArticle`), `name` (`Suggest`) and `decided`
(`ApplyMatch`, `ApplyCreate`, `ApplySkip`, `ApplyError`), so that anything can
happen between what it reads and what it writes. `Advance` carries the loop: the
next row, the next page if the page has changed something, or the end.
`CreateProductFromOffer` is one transaction and one step. `RunFail` is any other
error, a cancelled request or a crash.

Similarity of names is a relation of three grades: `High` (at least 0.7), `Gray`
(from 0.45) and the rest, which includes "no candidate". Which of several
candidates is the best is left open, and so is which of several cards of one
article is the oldest; both are more behaviours than the code has.
The photo queue is a counter here; its contents are `Gallery`'s part. `dropped` is
history: the cards whose last task did not fit (`EnqueuePhoto`). A run enqueues the
task after the row is matched and later runs take unmatched rows only, so nothing
but a row of another price list, or a person, asks for that photo again; in
`matching_dropped` two rows without anything in common make a card each, and the
second one's task finds the queue full.

### Categories and Forest

`Forest` says what the categories promise: a category is made under one that
exists, is moved anywhere but into its own subtree, and goes with its subtree.
`Categories` has the statements. A move is `CheckCycle` (the recursive query) and
`UpdateParent`, with anything in between: creations, moves to the top
(`UpdateRoot`, which checks nothing), deletions with their cascades, mappings,
wipes, and moves of other requests. `moving[w]` holds what request `w` will
write; if its row or its new parent has gone, the UPDATE fails or writes nothing.
The recursive query over `parent_id` is `Below`, the smallest set with the
category in it that takes in the children of its members. Names and the order of
siblings are left out. `Goods` are the cards and `RawOf` the supplier categories
of their rows; a card made from a row (`CreateProductFromOffer`) takes the id of a
deleted one. The code reads the mapping and inserts the card in two statements of one
transaction; here they are one step, so that a mapping never changes between them.
`ImplementsForest` says that `Categories` implements `Forest`, with
`parent` as it is; it holds for one mover and `categories_cycle` shows that it
does not for two. `CategoryTree` computes, over the same table, what
`web/lib/catalog.ts` and `category-tree.tsx` compute: `TreeIsWhole` and
`TotalsAgree` compare it with the database's own answers. The walks of the tree are
recursive functions of a category and, for the list, of a depth: the code passes the
depth down the calls, and so does `Flat`.

### Suppliers and prices

`SupplierTable` has the creation of a supplier as `ExistsByName`, `InsertSupplier`
and `CreateCommit` (or `CreateFail`), for any number of requests. The unique index
is the guard of the insert: it waits for an uncommitted row of the same name and
fails on a committed one. `Registry` is the same table with a creation in one
step; `ImplementsRegistry` is the refinement. Names are names up to case.

`Prices` adds what prices are computed from. An import is open between
`ProcessBegin` and `ProcessCommit`; its number stands for `created_at`, which is
the begin of the transaction. A wipe is `WipeImports` and then `WipeCatalog` or
`WipeFail`. The two queries are `OffersByProduct` and `MinByProducts`: sets of
possible answers, since DISTINCT ON may take any of several rows of one list.
`CompareByProduct` is the loop of the service. Currencies are left out, and the
code compares prices without looking at them. The page's own price "от" is
`MinBase` of `ComparePrices`, so that `SummaryAgrees` relates three pieces of code.

### The web portal

Each entry of `pending` is a handler that awaits `apiFetch` or `apiUpload`: what
it asked for and, once the server has dealt with it, the answer. `Serve(c)` is the
server: it acts on `db` and answers, or acts and its answer is lost, or is never
reached. `Continue(c)` is the handler from the await on, with the state of the
page as it is by then. Calls overtake each other both ways. `ui` holds the hooks
of the page and its panels (`useState`, timers, refs), named as in the source where
the name is not a verb; user actions are guarded by what the page disables or hides.
A `finally` or an error branch is part of the continuation. `db` is what of the
server's state the page reads.

`Portal` is the tab: `page` says which page is visited, and the module of that
page gives meaning to `ui`, `db` and `pending`. In the code a page that is left
loses its state, so a behaviour visits one. The panels `EditSheet` and
`ImagesSheet` are pages here, each over the list it is opened from, because one
component serves all the cards: its state outlives a close and the next card opens
in it.

"Выйти" can be pressed again while the first logout is under way, which
`SessionShell` leaves out: a second answer would lead to the same page of Kratos.

Left out of the pages: texts of errors and toasts, layout, the grid and table
views, columns, sorting and selected rows, which columns of a file mean what,
where a category hangs (`Categories` has it), folded branches of the tree, and the
pixels of compressed photos.

## 3. Runs

| Run | Result | Shows |
|---|---|---|
| `gallery` | pass | bytes, keys and objects stay consistent through uploads, deletions, a wipe, the migration and a restart; no photo outlives its card; never two downloaded photos; the queue drains and the migration ends |
| `gallery_limit` | pass | the limit is overshot by at most the number of users' uploads |
| `gallery_wipe` | violation | a purge removes objects of photos newer than the wipe |
| `matching_sequential` | pass | one run at a time makes no duplicates, failures and a person's change included; matches lead to live cards; runs end, and repeated runs finish the list |
| `matching_duplicates` | violation | two runs make duplicates |
| `matching_starved` | violation | a page of gray rows hides the rest for ever |
| `matching_dropped` | violation | a photo whose task did not fit into the queue is not asked for again |
| `categories_forest` | pass | with one mover the statements implement the forest; nothing dangles; sorting by hand stays; the browser's tree and counters agree with the database |
| `categories_cycle` | violation | two movers make a cycle |
| `prices` | pass | racing creations keep names unique; the comparison picks a best offer; the two price queries agree |
| `portal` | pass | every page and panel: nothing is sent twice, forgotten, deleted unasked, or busy for ever; redirects end |
| `portal_photos` | violation | the panel of one card deletes a photo of another |

The violations are disagreements between the code and its own comments;
PROJECT.json quotes each line. More of them follow from the models, hold by the
steps that are there, and have no run:

* the limit of photos can be exceeded (`OvershootBounded` says by how much;
  `matching.go:282` says it is kept), and a manual photo may join the downloaded
  one while it is being fetched (`matching.go:68`);
* an object of a rolled-back upload is never overwritten, because each attempt has
  a new id (`matching.go:286`); a photo deleted while it is being migrated ends the
  migration for all photos until the next start;
* a run replaces a match that a manager made after the run read its page;
* the transaction around the check and the insert of a supplier does not prevent
  the race that its comment names (`supplier.go:47`); the index does, and its error
  is not translated to "exists already" there;
* the price "от" of the showcase counts suppliers that were deleted, which the
  comparison does not (`price.go:63` calls the joins the same); the newest price
  list that counts is the newest with a row matched to the card, so an old price
  stays until the new list is matched; two rows of one list for one card are a tie
  that each query breaks for itself;
* answers that are late are applied: on the matching page the rows of the batch
  selected before, on the showcase the list of the filter before, on the compare
  page the prices of the card before, on the imports page a preview after another
  supplier was selected;
* two changes of a mapping, or two moves of a photo, may reach the server swapped;
* a failed logout leaves the portal as if nothing was pressed.

Bounds. In `Gallery`, `Images` bounds the photos ever made: ids are never reused,
so two or three suffice for one photo of each kind to meet every other actor.
`Thumbed` is one photo or none. One card is enough: what happens to one card reads
nothing of another. `QueueCap`, `MaxImagesPerProduct`, `MigrationBatch` and
`PageLimit` are 1000, 10, 20 and 500 in the code; small values bring their limits
within reach, and batches of one make the migration and the runs re-read.
`MaxRestarts` is one where restarts matter. In `Matching`, `MaxHuman` and
`MaxFails` bound what people do and how often a run fails; `Cards` is large enough
for a card per row and one of a person's, and when ids run out anyway the insert
counts as failed. Card ids are reused once nothing refers to them. A page of two
is shorter than the list of three and longer than what is left to the managers.
`Categories` has three categories and one mover, enough for a chain, a branch, and
a subtree that is deleted under a waiting move; the cycle is looked for with four
and two movers. In `Prices`, three imports of two suppliers let a list be
superseded while the other supplier's stays; `PriceLists` has a list of one row
without a base price and one of two rows in which the cheaper is out of stock.
`Portal` has two handlers at a time (`MaxCalls`), enough for one to overtake another
and for either to come to a page the other has changed. It has
two cards, of which one has photos, two batches with a row each, two values per
field of a filter, pages of one or two rows, and a server that makes one card, one
category, or one batch more. `gallery_limit` and `prices` use symmetry in ids and
names that no definition tells apart.

Deadlock is checked in every run but those of `Portal`: a page on which every call
has been answered, and whose forms have been used up to the bounds, rests for good
when its user stops.

Fairness. `FairSpec` of `Gallery` is weakly fair to the worker and the migration:
both are goroutines of the process, a download has its own timeout within the
45 s of `photoWorker`, and a statement or a call of S3 ends by an answer or an
error. Users, deletions and wipes have no fairness. `RetrySpec` of `Matching` is
weakly fair to a run that has begun (a request that is served until it returns) and
to the worker, and presses the button again, which is what the comments suppose; a
person's operations have no fairness. `FairSpec` of `Portal` is weakly fair to
every call, which ends by an answer or an error of the network, to the handler
that waits for it, which the browser runs, and to timers. Nothing obliges the user
or the server to succeed.

## 4. Proofs

`GalleryProofs` proves `Spec => []IInv`, and from it the properties of
`gallery` and `gallery_limit`. The safety properties are
not inductive by themselves:

* `NoPhotoWithoutCard` and `CleanupIsDead` need to know what an uncommitted photo
  is: a fresh id of a card that the lock keeps alive, known to no other call, no
  key list and no batch (`TxInv`, `DelKeysInv`);
* `OnlyPurgeDangles` needs the objects the migration has stored for the photo it
  is about to key (`MigInv`). That `DeletePrefix` cannot harm them is the
  observation of `WipeInv`: between the commit of a wipe and its purge Postgres
  holds no bytes, because with a store new photos carry none;
* `FetchedAtMostOnce` needs that the worker, from its count to its commit, works
  for a card without a downloaded photo (`WorkerInv`), which is true because there
  is one worker;
* `OvershootBounded` has an argument of its own: the photos of a card plus the
  calls that have counted it stay below the limit plus the number of calls.

`MatchingProofs` proves `MatchesLeadToCards` for any number of runs. The invariant is
small because the upsert checks the row and the card in the statement that writes, and
the foreign key cascades: whatever stale verdicts the runs hold, nothing has to be known
of them. `TypesStay` does need to know what runs hold: that they have a row to
work on (`AtRow`), and that a verdict that can be applied names a card.

`OneRunMakesNoDuplicates` assumes `OneRun`, at most one run at a time, and follows the
verdict "make a card" from the read to the write. The two reads it stands on, no
card of the article and no card of a like name, were empty when the run made them;
`ReadStays` says that they still are of the cards runs have made, for the row in hand,
whoever else acts: people add, change and delete cards, but a card they have touched is
not one of the run's any more, and the only maker of such cards is the run itself. The page of rows is a
set here and the row in hand the one of the lowest `RowNum`, which the proof needs to
exist and to be one.

`CategoriesProofs` proves, for any number of categories, cards and movers, that
nothing dangles and that sorting by hand stays, and, for one mover, that
`Categories` implements `Forest` and makes no cycle. The step that carries the
refinement is an invariant about the waiting move: from its check on, the new
parent is not below the category, although others create, prune and move to the top
meanwhile. It rests on lemmas about `Below`: what one change of `parent` does to the
smallest closed set. That every category stays rooted is shown for the set of
categories under the roots, which every step of `Forest` leaves whole; `Below` makes
both arguments ones about closed sets, without induction.

The two theorems about the browser's tree, `TreeShowsAll` and `CountersAgree`, are
about recursive functions over a table that is only known to be a forest. The
induction the library offers cannot be used here, so each argument takes a least
counterexample (`SmallestNat`, `SmallestSet`, from the well-foundedness of the
naturals). The measure is `Height`, the size of the set below a category, which falls
from a category to its child because there is no cycle (`HeightFalls`): this is where
`EveryNodeRooted` comes in, and with it the assumption of one mover. By the
measure the recursive functions exist and are unique, and the following is shown of them.
What lies below a category is the category and, disjoint from each other, what lies
below its children (`BelowSplits`, `SiblingsApart`); so the sum over the children of
the counters is the number of cards of the whole (`CountsAddUp`), and the total over
the roots counts every card that has a category once. The piece of the flat list that a
category heads contains what is below it and nothing else, each at a depth
that is the length of its path, and each after its parent (`BranchesPlaced`,
`ListsAreWhole`).

`PricesProofs` proves `CreationIsAtomic`: the statements of any number of racing
creations implement `Registry`. Its invariant `Guarded` says that an uncommitted
row has an id and a name that no other row has, committed or not.

`ComparisonPicksBest` is a proof of a loop. After `n` offers the mark is on an offer
among them that has a price of the tier and that none of them beats, or on none if none
of them has such a price (`BestUpTo`); the two conditions of the loop's `if`, in stock
before not, then cheaper, are an order, which the step needs.
`ShowcaseAgreesWithPage` compares three computations over one state: the SQL of the
showcase, the SQL of the card's page, and the page's own minimum over the sorted rows.
Given that no supplier was deleted and no list has two rows for the card, there is one
row for each supplier in both queries, and what remains is that the sequence the page
gets has the same prices as the set the showcase reduces. `ListsTyped` supplies the types.

The proofs about `Portal` hold for any number of handlers that wait and for any data.
`Portal`'s next step is that of one page, so every theorem is put together from an
invariant for each page that the property speaks of, and the remark that the
others never make a statement about it.

* `PortalProofs`: `NoChangeIsLost`. While the showcase is visited, the filter on the
  screen is the one that was asked for last, or a timer with it is running.
  `TypesOfPagesStay`, the types of all thirteen pages. `TypeOK` is inductive on the panel of
  a card alone: on most of the others it is about what an answer brings, so the invariant of a
  page (`MatchTypes`, `ShowTypes`, ...) also says of every entry of the table of
  calls what its handler carries along and what its answer may be (`RowCall`, `ShowCall`, ...).
  `Says` is the shape of a step: one entry changes and the others say what they
  said. Three pages need more. A row has a state of its own exactly while it is on the
  screen, which holds after each render (`RenderTypes`). The photo that is shown large is one of
  the photos, whichever were deleted while the parts of the page were on their way
  (`RemainingIsList`). A card's gallery is within its limit after a photo is taken out of the
  middle or the order is changed (`WithoutIsGallery`, `OrderIsGallery`).
* `PortalCallsProofs`: `FormsAreSentOnce`. What a flag of the page says (saving,
  creating, deleting) is compared with the set of calls that the flag stands for:
  `OneFor(S, flag)`, at most one call is in `S`, and none while the flag is down. Each
  action is shown to add to `S` only with the flag down, to raise it with the call, and
  to lower it only in the continuation of that call. A late answer of an earlier press
  cannot lower it, because there is no earlier call left. The lemmas on calls
  (`AskChanges`, `AwaitChanges`, `ReturnChanges`) say what a step does to
  the table of handlers, and serve the two modules below.
* `PortalPanelsProofs`: for the panel of a card, the photos, the suppliers, the
  run on the matching page and the wipe, the same sets, but of several kinds of calls that
  share a flag (a loading of photos that ends an upload is part of the upload).
  `DoneIsMatched`, an action property, needs that an answer to "confirm" or "create" is
  that of a row that the server has matched, or a failure (`MatchAnswers`).
  `DeletionIsAsked` needs that the question on the screen was asked for the card on the
  screen, although the panel may have been closed and opened on another since.
* `PortalListsProofs`: the open matching cards, the page of a table, the table of prices. `TablesShowRows` says that a page number never points
  behind the end of its list; lists shrink under it by deletions and by answers to other
  questions, and the invariant needs to know how long the lists are that answers carry
  (`ListAnswers`). `CheapestIsCheapest` is about the sorted list, of which the marked row is the
  first: the sort is a permutation of the rows, by counting (an injection of a finite set
  into itself meets every element), and is ordered.

Assumptions, each checked by TLC: `GalleryAssumption` (finitely many photos and
uploads, positive limits, the worker is not an upload, `None` is no id);
`MatchingAssumption` (rows have numbers of their own, a name and perhaps an article, the
grades of likeness are disjoint and a name is like itself); `CategoriesAssumption`
(`None` and `NoRow` are no categories, and the table is finite, as are the cards);
`SupplierAssumption` and `PricesAssumption` (`None` is no supplier and no name;
suppliers are finitely many and can be listed, price lists are sequences of offers);
`CallsAssumption`, `PortalAssumption` and `OffersAssumption` (the values the pages open
with can be chosen, `None` is no filter and no batch, files of a form fit the limit, a
table has pages of some length, prices are below the constant that stands for "no price");
`TypesAssumption` (`None` is no role and not the state of a row, limits are numbers,
candidates, listings and photos are lists, and no card starts with more photos than may be).
The theorems about one mover assume `OneMover`: `Movers` has at most one element; the one
about one run assumes `OneRun`. The runs `categories_cycle` and `matching_duplicates` show
that neither can be dropped.

Only model-checked: liveness (`FullQueueDrains`, `MigrationEnds`, `RunsEnd`,
`RestIsProcessed`, `BusyEnds`, `NavigationEnds`), since the prover does not reach
fairness. Every invariant and every action property of a passing run has a theorem.

## 5. Not modelled

Generated code, API adapters, deployment and the component library of the web have
no state of the portal's. The parser of price lists is pure: how a cell is read and
which header proposes which column are in the plan. Roles are a check in front of
each route. The sidebar, the guide and the start page are links and text. The window
in which a transaction that makes a card from a row is open while both halves of a
wipe pass is left out of `Matching`: its steps are atomic there. Positions of photos
are `ImagesSheet`'s only.

## 6. Plan

1. Done: `Gallery`, `Matching`, `Categories` with `Forest`, `Prices` with
   `Registry`, the pages with `Portal`, and the proofs above.
2. Done: a theorem for every safety invariant and action property of the passing runs.
3. `ImportValues`: the proposal of columns, stock phrases and prices as operators.
4. `PhotoQueue`: an abstract queue of downloads that both `Gallery` and `Matching`
   implement; positions of photos in `Gallery`.
5. `TxManager`: nested transactions and the pool; `Roles`: the gateway's routes.
