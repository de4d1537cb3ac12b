------------------------------ MODULE Matching -----------------------------
(***************************************************************************)
(* Matching rows of one price list to product cards: the table             *)
(* catalog.offer_matches, the automatic run over the unmatched rows        *)
(* (AutoProcessBatch), and what people do at the same time: confirm a      *)
(* match, make a card from a row or by hand, edit or delete a card, take a *)
(* match back, wipe the data.                                              *)
(*                                                                         *)
(* Similarity of names (pg_trgm) is abstracted to the three outcomes the   *)
(* thresholds autoMatchScore and createBelowScore tell apart: High, Gray   *)
(* and, for every other pair, too low or no candidate at all.              *)
(***************************************************************************)
EXTENDS Naturals, FiniteSets

CONSTANTS
  Offers,        \* rows of the price list
  RowNum,        \* row_num of a row
  Cards,         \* ids of product cards
  OldCards,      \* those in the catalogue before the price list came
  Names, OfferName,      \* what a row is called
  Articles, OfferArticle,\* the article of a row, None if it has none
  High, Gray,    \* pairs of names at least autoMatchScore alike, and between
  Linked,        \* rows with a photo link
  Runs,          \* concurrent AutoProcessBatch requests
  PageLimit,     \* maxUnmatchedLimit, 500 in the code
  QueueCap,      \* capacity of photoCh, 1000 in the code
  MaxHuman,      \* bound on the number of managers' operations
  MaxFails,      \* bound on the number of runs that fail
  None

ASSUME MatchingAssumption ==
  /\ IsFiniteSet(Offers)
  /\ RowNum \in [Offers -> Nat]
  /\ \A o, p \in Offers : RowNum[o] = RowNum[p] => o = p
  /\ OfferName \in [Offers -> Names]
  /\ OfferArticle \in [Offers -> Articles \cup {None}]
  /\ High \subseteq Names \X Names /\ \A n \in Names : <<n, n>> \in High
  /\ \A m, n \in Names : <<m, n>> \in High => <<n, m>> \in High
  /\ Gray \subseteq Names \X Names /\ Gray \cap High = {}
  /\ OldCards \subseteq Cards
  /\ Linked \subseteq Offers
  /\ PageLimit \in Nat \ {0} /\ QueueCap \in Nat \ {0}
  /\ MaxHuman \in Nat /\ MaxFails \in Nat
  /\ None \notin Cards \cup Offers \cup Articles

VARIABLES
  offers,      \* rows of importer.supplier_offers
  cards,       \* rows of catalog.products
  cardName,    \* their names
  cardArticle, \* their articles
  match,       \* catalog.offer_matches: the card of a row, None if unmatched
  by,          \* matched_by: who wrote the match
  made,        \* history: cards as a run made them, not edited since
  stage,       \* where each run is
  todo,        \* rows of its page still to visit
  skipped,     \* rows it has left to the managers
  progress,    \* whether its page has changed anything
  verdict,     \* what it has decided on the row it is at
  pending,     \* number of tasks in photoCh
  dropped,     \* cards whose photo task did not fit
  wiping,      \* an admin wipe has deleted the rows and not yet the cards
  humans, fails

cardVars  == <<cards, cardName, cardArticle, made>>
matchVars == <<match, by>>
runVars   == <<stage, todo, skipped, progress, verdict>>
photoVars == <<pending, dropped>>
vars == <<offers, cardVars, matchVars, runVars, photoVars, wiping, humans,
          fails>>

NoVerdict == [kind |-> "none", card |-> None]

Init ==
  /\ offers = Offers
  /\ cards = OldCards
  /\ cardName \in [Cards -> Names \cup {None}]
  /\ cardArticle \in [Cards -> Articles \cup {None}]
  /\ \A c \in Cards \ OldCards : cardName[c] = None /\ cardArticle[c] = None
  /\ \A c \in OldCards : cardName[c] # None
  /\ match = [o \in Offers |-> None]
  /\ by = [o \in Offers |-> "nobody"]
  /\ made = {}
  /\ stage = [r \in Runs |-> "idle"]
  /\ todo = [r \in Runs |-> {}]
  /\ skipped = [r \in Runs |-> {}]
  /\ progress = [r \in Runs |-> FALSE]
  /\ verdict = [r \in Runs |-> NoVerdict]
  /\ pending = 0
  /\ dropped = {}
  /\ wiping = FALSE
  /\ humans = 0
  /\ fails = 0

----------------------------------------------------------------------------
(* Statements of the repositories *)

Unmatched == {o \in offers : match[o] = None}

\* The first PageLimit unmatched rows by row_num.
Page ==
  {o \in Unmatched :
     Cardinality({p \in Unmatched : RowNum[p] < RowNum[o]}) < PageLimit}

\* The row a run is at: its page is visited in the order of row_num.
Current(r) == CHOOSE o \in todo[r] : \A p \in todo[r] : RowNum[o] <= RowNum[p]

\* Cards FindByArticle may return: it compares non-empty articles.
ArticleCards(o) ==
  {c \in cards : OfferArticle[o] # None /\ cardArticle[c] = OfferArticle[o]}

\* Cards whose name is in the given relation to the name of a row.
Alike(o, pairs) == {c \in cards : <<cardName[c], OfferName[o]>> \in pairs}

\* A variant: the upsert is not joined with the card.
UpsertBlind(o, c, who) ==
  /\ o \in offers
  /\ match' = [match EXCEPT ![o] = c]
  /\ by' = [by EXCEPT ![o] = who]

\* The upsert by offer_id, joined with the row and the card.
Upsert(o, c, who) ==
  /\ o \in offers
  /\ c \in cards
  /\ match' = [match EXCEPT ![o] = c]
  /\ by' = [by EXCEPT ![o] = who]

\* A variant: the queue has no limit.
EnqueuePhotoUnbounded(o, c) ==
  IF o \notin Linked THEN UNCHANGED photoVars
  ELSE pending' = pending + 1 /\ dropped' = dropped \ {c}

\* enqueuePhoto: the send never blocks; a task that does not fit is dropped.
EnqueuePhoto(o, c) ==
  IF o \notin Linked THEN UNCHANGED photoVars
  ELSE IF pending < QueueCap
       THEN pending' = pending + 1 /\ dropped' = dropped \ {c}
       ELSE dropped' = dropped \cup {c} /\ UNCHANGED pending

\* Ids a new card may get: no card has them, and no run remembers them.
Fresh == Cards \ (cards \cup {verdict[r].card : r \in Runs})

InsertCard(c, n, a) ==
  /\ cards' = cards \cup {c}
  /\ cardName' = [cardName EXCEPT ![c] = n]
  /\ cardArticle' = [cardArticle EXCEPT ![c] = a]

\* A card made from a row, and its match, in one transaction.
CreateFromOffer(o, n, a, who) ==
  /\ o \in offers
  /\ \E c \in Fresh :
       /\ InsertCard(c, n, a)
       /\ made' = IF who = "auto" THEN made \cup {c} ELSE made
       /\ match' = [match EXCEPT ![o] = c]
       /\ by' = [by EXCEPT ![o] = who]
       /\ EnqueuePhoto(o, c)

----------------------------------------------------------------------------
(* AutoProcessBatch *)

\* A variant: the set of skipped rows outlives the request.
StartRunRemember(r) ==
  /\ stage[r] = "idle"
  /\ stage' = [stage EXCEPT ![r] = "list"]
  /\ UNCHANGED <<offers, cardVars, matchVars, todo, skipped, progress, verdict,
                 photoVars, wiping, humans, fails>>

StartRun(r) ==
  /\ stage[r] = "idle"
  /\ stage' = [stage EXCEPT ![r] = "list"]
  /\ skipped' = [skipped EXCEPT ![r] = {}]
  /\ UNCHANGED <<offers, cardVars, matchVars, todo, progress, verdict,
                 photoVars, wiping, humans, fails>>

\* One turn of the outer loop: read a page; rows left to the managers before
\* are passed over. With nothing to visit there is no progress, and the run ends.
ListPage(r) ==
  /\ stage[r] = "list"
  /\ LET page == Page \ skipped[r]
     IN  /\ todo' = [todo EXCEPT ![r] = page]
         /\ stage' = [stage EXCEPT ![r] = IF page = {} THEN "idle" ELSE "article"]
  /\ progress' = [progress EXCEPT ![r] = FALSE]
  /\ UNCHANGED <<offers, cardVars, matchVars, skipped, verdict, photoVars,
                 wiping, humans, fails>>

\* A variant: articles are not looked up.
FindByArticleNever(r) ==
  /\ stage[r] = "article"
  /\ stage' = [stage EXCEPT ![r] = "name"]
  /\ UNCHANGED <<offers, cardVars, matchVars, todo, skipped, progress, verdict,
                 photoVars, wiping, humans, fails>>

\* Step 1 of autoProcessOffer, FindByArticle: one article decides.
FindByArticle(r) ==
  /\ stage[r] = "article"
  /\ LET found == ArticleCards(Current(r))
     IN  IF found = {}
         THEN stage' = [stage EXCEPT ![r] = "name"] /\ UNCHANGED verdict
         ELSE \E c \in found :
                /\ verdict' = [verdict EXCEPT ![r] = [kind |-> "match", card |-> c]]
                /\ stage' = [stage EXCEPT ![r] = "decided"]
  /\ UNCHANGED <<offers, cardVars, matchVars, todo, skipped, progress,
                 photoVars, wiping, humans, fails>>

\* What the best candidate makes of a row: a name alike enough is matched, an
\* unlike one gets a card, as does a row with no candidate, and a row that is
\* gone has none.
NameVerdicts(o) ==
  CASE o \in offers /\ Alike(o, High) # {} ->
         {[kind |-> "match", card |-> c] : c \in Alike(o, High)}
    [] o \in offers /\ Alike(o, High) = {} /\ Alike(o, Gray) # {} ->
         {[kind |-> "skip", card |-> None]}
    [] OTHER -> {[kind |-> "create", card |-> None]}

\* Step 2, Suggest with one candidate.
Suggest(r) ==
  /\ stage[r] = "name"
  /\ \E v \in NameVerdicts(Current(r)) : verdict' = [verdict EXCEPT ![r] = v]
  /\ stage' = [stage EXCEPT ![r] = "decided"]
  /\ UNCHANGED <<offers, cardVars, matchVars, todo, skipped, progress,
                 photoVars, wiping, humans, fails>>

\* The next row, the next page after progress, or the end of the run.
Advance(r, changed) ==
  /\ todo' = [todo EXCEPT ![r] = @ \ {Current(r)}]
  /\ progress' = [progress EXCEPT ![r] = @ \/ changed]
  /\ verdict' = [verdict EXCEPT ![r] = NoVerdict]
  /\ stage' = [stage EXCEPT ![r] =
       IF todo[r] # {Current(r)} THEN "article"
       ELSE IF progress[r] \/ changed THEN "list" ELSE "idle"]

ApplyMatch(r) ==
  /\ stage[r] = "decided" /\ verdict[r].kind = "match"
  /\ Upsert(Current(r), verdict[r].card, "auto")
  /\ EnqueuePhoto(Current(r), verdict[r].card)
  /\ Advance(r, TRUE)
  /\ UNCHANGED <<offers, cardVars, skipped, wiping, humans, fails>>

ApplyCreate(r) ==
  /\ stage[r] = "decided" /\ verdict[r].kind = "create"
  /\ LET o == Current(r) IN CreateFromOffer(o, OfferName[o], OfferArticle[o], "auto")
  /\ Advance(r, TRUE)
  /\ UNCHANGED <<offers, skipped, wiping, humans, fails>>

\* A variant: a row left to the managers counts as progress.
ApplySkipAsProgress(r) ==
  /\ stage[r] = "decided" /\ verdict[r].kind = "skip"
  /\ Advance(r, TRUE)
  /\ UNCHANGED <<offers, cardVars, matchVars, skipped, photoVars,
                 wiping, humans, fails>>

ApplySkip(r) ==
  /\ stage[r] = "decided" /\ verdict[r].kind = "skip"
  /\ skipped' = [skipped EXCEPT ![r] = @ \cup {Current(r)}]
  /\ Advance(r, FALSE)
  /\ UNCHANGED <<offers, cardVars, matchVars, photoVars, wiping, humans, fails>>

EndRun(r) ==
  /\ stage' = [stage EXCEPT ![r] = "idle"]
  /\ todo' = [todo EXCEPT ![r] = {}]
  /\ verdict' = [verdict EXCEPT ![r] = NoVerdict]

\* The row or the card of a verdict is gone: ErrOfferNotFound ends the run. So
\* does an insert once the model has no id left for a card.
ApplyError(r) ==
  /\ stage[r] = "decided"
  /\ \/ verdict[r].kind = "match" /\ verdict[r].card \notin cards
     \/ verdict[r].kind # "skip" /\ Current(r) \notin offers
     \/ verdict[r].kind = "create" /\ Fresh = {}
  /\ EndRun(r)
  /\ UNCHANGED <<offers, cardVars, matchVars, skipped, progress, photoVars,
                 wiping, humans, fails>>

\* Any other error, a cancelled request or a crash: what is done stays done.
RunFail(r) ==
  /\ stage[r] # "idle"
  /\ fails < MaxFails
  /\ fails' = fails + 1
  /\ EndRun(r)
  /\ UNCHANGED <<offers, cardVars, matchVars, skipped, progress, photoVars,
                 wiping, humans>>

----------------------------------------------------------------------------
(* Managers, admins and the photo worker *)

\* What people do is bounded by MaxHuman; none of it touches the runs.
Human ==
  /\ humans < MaxHuman
  /\ humans' = humans + 1
  /\ UNCHANGED <<runVars, fails>>

ConfirmMatch(o, c) ==
  /\ Human
  /\ Upsert(o, c, "human")
  /\ EnqueuePhoto(o, c)
  /\ UNCHANGED <<offers, cardVars, wiping>>

\* The name and the article of the row can be replaced by the manager's.
CreateProductFromOffer(o, n, a) ==
  /\ Human
  /\ CreateFromOffer(o, n, a, "human")
  /\ UNCHANGED <<offers, wiping>>

Unmatch(o) ==
  /\ Human
  /\ match[o] # None
  /\ match' = [match EXCEPT ![o] = None]
  /\ by' = [by EXCEPT ![o] = "nobody"]
  /\ UNCHANGED <<offers, cardVars, photoVars, wiping>>

CreateProduct(n, a) ==
  /\ Human
  /\ \E c \in Fresh : InsertCard(c, n, a)
  /\ UNCHANGED <<offers, made, matchVars, photoVars, wiping>>

UpdateProduct(c, n, a) ==
  /\ Human
  /\ c \in cards
  /\ InsertCard(c, n, a)
  /\ made' = made \ {c}
  /\ UNCHANGED <<offers, matchVars, photoVars, wiping>>

\* Rows of cards gone, with the matches that go by cascade. What a deleted card
\* was called is forgotten, and so is the photo it did not get.
DropCards(gone) ==
  /\ cards' = cards \ gone
  /\ cardName' = [c \in Cards |-> IF c \in gone THEN None ELSE cardName[c]]
  /\ cardArticle' = [c \in Cards |-> IF c \in gone THEN None ELSE cardArticle[c]]
  /\ made' = made \ gone
  /\ dropped' = dropped \ gone
  /\ match' = [o \in Offers |-> IF match[o] \in gone THEN None ELSE match[o]]
  /\ by' = [o \in Offers |-> IF match[o] \in gone THEN "nobody" ELSE by[o]]

DeleteProduct(c) ==
  /\ Human
  /\ c \in cards
  /\ DropCards({c})
  /\ UNCHANGED <<offers, pending, wiping>>

\* An admin wipe: the import service deletes its rows, then the catalogue
\* service its cards, each in a transaction; the second call may fail.
WipeImports ==
  /\ Human
  /\ offers' = {}
  /\ wiping' = TRUE
  /\ UNCHANGED <<cardVars, matchVars, photoVars>>

WipeCatalog ==
  /\ wiping
  /\ wiping' = FALSE
  /\ DropCards(cards)
  /\ UNCHANGED <<offers, runVars, pending, humans, fails>>

WipeCatalogFail ==
  /\ wiping
  /\ wiping' = FALSE
  /\ UNCHANGED <<offers, cardVars, matchVars, runVars, photoVars, humans,
                 fails>>

\* photoWorker has done with a task.
TakePhotoTask ==
  /\ pending > 0
  /\ pending' = pending - 1
  /\ UNCHANGED <<offers, cardVars, matchVars, runVars, dropped, wiping, humans,
                 fails>>

----------------------------------------------------------------------------

RunStep(r) ==
  \/ ListPage(r)
  \/ FindByArticle(r)
  \/ Suggest(r)
  \/ ApplyMatch(r)
  \/ ApplyCreate(r)
  \/ ApplySkip(r)
  \/ ApplyError(r)

CardFields == Names \X (Articles \cup {None})

HumanStep ==
  \/ \E o \in Offers, c \in Cards : ConfirmMatch(o, c)
  \/ \E o \in Offers, f \in CardFields : CreateProductFromOffer(o, f[1], f[2])
  \/ \E o \in Offers : Unmatch(o)
  \/ \E f \in CardFields : CreateProduct(f[1], f[2])
  \/ \E c \in Cards, f \in CardFields : UpdateProduct(c, f[1], f[2])
  \/ \E c \in Cards : DeleteProduct(c)
  \/ WipeImports

Next ==
  \/ \E r \in Runs : StartRun(r)
  \/ \E r \in Runs : RunStep(r)
  \/ \E r \in Runs : RunFail(r)
  \/ HumanStep
  \/ WipeCatalog
  \/ WipeCatalogFail
  \/ TakePhotoTask

Spec == Init /\ [][Next]_vars

\* A run that has begun goes on, and so does the photo worker.
FairSpec == Spec /\ WF_vars(TakePhotoTask)
                 /\ \A r \in Runs : WF_vars(RunStep(r))

\* Managers press the button again, as the comments tell them to.
RetrySpec == FairSpec /\ \A r \in Runs : WF_vars(StartRun(r))

----------------------------------------------------------------------------
(* Properties *)

\* The variables have their types.
TypeOK ==
  /\ offers \subseteq Offers
  /\ cards \subseteq Cards
  /\ cardName \in [Cards -> Names \cup {None}]
  /\ cardArticle \in [Cards -> Articles \cup {None}]
  /\ made \subseteq cards
  /\ match \in [Offers -> Cards \cup {None}]
  /\ by \in [Offers -> {"nobody", "auto", "human"}]
  /\ stage \in [Runs -> {"idle", "list", "article", "name", "decided"}]
  /\ todo \in [Runs -> SUBSET Offers]
  /\ skipped \in [Runs -> SUBSET Offers]
  /\ progress \in [Runs -> BOOLEAN]
  /\ verdict \in [Runs -> [kind : {"none", "match", "create", "skip"},
                           card : Cards \cup {None}]]
  /\ pending \in 0..QueueCap
  /\ dropped \subseteq cards
  /\ wiping \in BOOLEAN
  /\ humans \in 0..MaxHuman /\ fails \in 0..MaxFails

\* A match is to a live card, though runs hold verdicts on cards that people
\* delete meanwhile, and a row is matched if and only if somebody matched it.
MatchedToLiveCard ==
  \A o \in Offers : /\ match[o] \in cards \cup {None}
                    /\ match[o] = None <=> by[o] = "nobody"

\* A run makes no second card for the same goods: no two cards made by runs
\* have names alike enough to be matched, or one article ("there will be no
\* duplicates inside a price list", AutoProcessBatch).
NoDuplicateCards ==
  \A c, d \in made : c # d =>
    /\ <<cardName[c], cardName[d]>> \notin High
    /\ cardArticle[c] # None => cardArticle[c] # cardArticle[d]

\* An unmatched row that a run would decide without a manager.
Clear(o) ==
  /\ o \in Unmatched
  /\ ArticleCards(o) = {} => [kind |-> "skip", card |-> None] \notin NameVerdicts(o)

\* Repeated runs finish what a failed or partial run has left: no row a run
\* could decide waits for ever.
RestIsProcessed == \A o \in Offers : Clear(o) ~> ~Clear(o)

\* A photo whose task did not fit into the queue is asked for again by a later
\* run ("фото докачается при следующем прогоне автообработки",
\* service/matching.go:43). The code does not keep this.
DroppedPhotosCome == \A c \in Cards : (c \in dropped) ~> (c \notin dropped)

\* Every run ends: re-reading the page after each change does not go on for ever.
RunsEnd == \A r \in Runs : []<>(stage[r] = "idle")
=============================================================================
