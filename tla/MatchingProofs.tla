--------------------------- MODULE MatchingProofs ---------------------------
(***************************************************************************)
(* What holds of Matching for every price list, every number of concurrent *)
(* runs and whatever people do meanwhile: a match always leads to a card   *)
(* that is there. And what holds of one run at a time: it makes no two     *)
(* cards of the same goods.                                                *)
(***************************************************************************)
EXTENDS Matching, WellFoundedInduction, TLAPS

\* The part of TypeOK the argument needs: the pages of the runs play no role,
\* because the upsert and the insert check the row themselves.
Types ==
  /\ offers \subseteq Offers
  /\ cards \subseteq Cards
  /\ match \in [Offers -> Cards \cup {None}]
  /\ by \in [Offers -> {"nobody", "auto", "human"}]

MatchInv == Types /\ MatchedToLiveCard

\* The upsert joined with the row and the card keeps every match on a live card.
LEMMA UpsertKeeps ==
  ASSUME MatchInv, NEW o, NEW c, NEW who \in {"auto", "human"},
         Upsert(o, c, who), cards' = cards, offers' = offers
  PROVE  MatchInv'
<1>1. o \in Offers /\ c \in cards /\ c \in Cards
  BY DEF MatchInv, Types, Upsert
<1>2. c # None
  BY <1>1, MatchingAssumption DEF MatchingAssumption
<1>3. Types'
  BY <1>1 DEF MatchInv, Types, Upsert
<1>4. MatchedToLiveCard'
  BY <1>1, <1>2 DEF MatchInv, Types, MatchedToLiveCard, Upsert
<1> QED
  BY <1>3, <1>4 DEF MatchInv

\* A card and its match, inserted in one transaction.
LEMMA CreateKeeps ==
  ASSUME MatchInv, NEW o, NEW n, NEW a, NEW who \in {"auto", "human"},
         CreateFromOffer(o, n, a, who), offers' = offers
  PROVE  MatchInv'
<1>1. o \in Offers
  BY DEF MatchInv, Types, CreateFromOffer
<1>2. PICK c \in Cards : /\ cards' = cards \cup {c}
                         /\ match' = [match EXCEPT ![o] = c]
                         /\ by' = [by EXCEPT ![o] = who]
  BY DEF CreateFromOffer, InsertCard, Fresh
<1>3. c # None
  BY <1>2, MatchingAssumption DEF MatchingAssumption
<1>4. Types'
  BY <1>1, <1>2 DEF MatchInv, Types
<1>5. MatchedToLiveCard'
  BY <1>1, <1>2, <1>3 DEF MatchInv, Types, MatchedToLiveCard
<1> QED
  BY <1>4, <1>5 DEF MatchInv

\* Cards leave together with the matches that point to them.
LEMMA DropKeeps ==
  ASSUME MatchInv, NEW gone \in SUBSET Cards, DropCards(gone), offers' = offers
  PROVE  MatchInv'
<1>1. Types'
  BY DEF MatchInv, Types, DropCards
<1>2. None \notin Cards
  BY MatchingAssumption DEF MatchingAssumption
<1>3. MatchedToLiveCard'
  BY <1>2 DEF MatchInv, Types, MatchedToLiveCard, DropCards
<1> QED
  BY <1>1, <1>3 DEF MatchInv

\* A card added or renamed by hand moves no match.
LEMMA InsertKeeps ==
  ASSUME MatchInv, NEW c \in Cards, NEW n, NEW a, InsertCard(c, n, a),
         offers' = offers, UNCHANGED matchVars
  PROVE  MatchInv'
  BY DEF MatchInv, Types, MatchedToLiveCard, InsertCard, matchVars

\* The steps of a run, whatever it has read before, keep the invariant.
LEMMA RunStepKeeps ==
  ASSUME MatchInv, NEW r \in Runs, RunStep(r)
  PROVE  MatchInv'
<1>1. CASE UNCHANGED <<offers, cardVars, matchVars>>
  BY <1>1 DEF MatchInv, Types, MatchedToLiveCard, cardVars, matchVars
<1>2. CASE ListPage(r)
  BY <1>1, <1>2 DEF ListPage
<1>3. CASE FindByArticle(r)
  BY <1>1, <1>3 DEF FindByArticle
<1>4. CASE Suggest(r)
  BY <1>1, <1>4 DEF Suggest
<1>5. CASE ApplyMatch(r)
  BY <1>5, UpsertKeeps DEF ApplyMatch, cardVars
<1>6. CASE ApplyCreate(r)
  BY <1>6, CreateKeeps DEF ApplyCreate
<1>7. CASE ApplySkip(r)
  BY <1>1, <1>7 DEF ApplySkip
<1>8. CASE ApplyError(r)
  BY <1>1, <1>8 DEF ApplyError
<1> QED
  BY <1>2, <1>3, <1>4, <1>5, <1>6, <1>7, <1>8 DEF RunStep

\* What people do keeps it too.
LEMMA HumanStepKeeps ==
  ASSUME MatchInv, HumanStep
  PROVE  MatchInv'
<1>1. ASSUME NEW o \in Offers, NEW c \in Cards, ConfirmMatch(o, c) PROVE MatchInv'
  BY <1>1, UpsertKeeps DEF ConfirmMatch, cardVars
<1>2. ASSUME NEW o \in Offers, NEW n, NEW a, CreateProductFromOffer(o, n, a)
      PROVE  MatchInv'
  BY <1>2, CreateKeeps DEF CreateProductFromOffer
<1>3. ASSUME NEW o \in Offers, Unmatch(o) PROVE MatchInv'
  BY <1>3 DEF Unmatch, MatchInv, Types, MatchedToLiveCard, cardVars
<1>4. ASSUME NEW n, NEW a, CreateProduct(n, a) PROVE MatchInv'
  BY <1>4, InsertKeeps DEF CreateProduct, Fresh
<1>5. ASSUME NEW c \in Cards, NEW n, NEW a, UpdateProduct(c, n, a) PROVE MatchInv'
  BY <1>5, InsertKeeps DEF UpdateProduct
<1>6. ASSUME NEW c \in Cards, DeleteProduct(c) PROVE MatchInv'
  BY <1>6, DropKeeps DEF DeleteProduct
<1>7. ASSUME WipeImports PROVE MatchInv'
  BY <1>7 DEF WipeImports, MatchInv, Types, MatchedToLiveCard, cardVars, matchVars
<1> QED
  BY <1>1, <1>2, <1>3, <1>4, <1>5, <1>6, <1>7 DEF HumanStep

\* One step of anybody.
LEMMA StepKeeps ==
  ASSUME MatchInv, [Next]_vars
  PROVE  MatchInv'
<1>1. CASE UNCHANGED <<offers, cardVars, matchVars>>
  BY <1>1 DEF MatchInv, Types, MatchedToLiveCard, cardVars, matchVars
<1>2. ASSUME NEW r \in Runs, StartRun(r) PROVE MatchInv'
  BY <1>1, <1>2 DEF StartRun
<1>3. ASSUME NEW r \in Runs, RunStep(r) PROVE MatchInv'
  BY <1>3, RunStepKeeps
<1>4. ASSUME NEW r \in Runs, RunFail(r) PROVE MatchInv'
  BY <1>1, <1>4 DEF RunFail
<1>5. ASSUME HumanStep PROVE MatchInv'
  BY <1>5, HumanStepKeeps
<1>6. ASSUME WipeCatalog PROVE MatchInv'
  <2>1. cards \in SUBSET Cards
    BY DEF MatchInv, Types
  <2> QED
    BY <1>6, <2>1, DropKeeps DEF WipeCatalog
<1>7. ASSUME WipeCatalogFail PROVE MatchInv'
  BY <1>1, <1>7 DEF WipeCatalogFail
<1>8. ASSUME TakePhotoTask PROVE MatchInv'
  BY <1>1, <1>8 DEF TakePhotoTask
<1>9. CASE UNCHANGED vars
  BY <1>1, <1>9 DEF vars
<1> QED
  BY <1>2, <1>3, <1>4, <1>5, <1>6, <1>7, <1>8, <1>9 DEF Next

\* A match leads to a live card and says who made it, in every reachable state,
\* whatever verdicts on deleted cards the runs hold: the join in the upsert and
\* the cascade of the foreign key are enough, no lock is needed.
THEOREM MatchesLeadToCards == Spec => []MatchedToLiveCard
<1>1. Init => MatchInv
  BY MatchingAssumption DEF MatchingAssumption, Init, MatchInv, Types, MatchedToLiveCard
<1>2. MatchInv /\ [Next]_vars => MatchInv'
  BY StepKeeps
<1>3. MatchInv => MatchedToLiveCard
  BY DEF MatchInv
<1> QED
  BY <1>1, <1>2, <1>3, PTL DEF Spec
----------------------------------------------------------------------------
(* The types of all the variables *)

\* A run that is at a row has one.
AtRow == \A r \in Runs : stage[r] \in {"article", "name", "decided"} => todo[r] # {}

\* A set of numbers has a smallest one.
LEMMA SmallestOfNats ==
  ASSUME NEW S \in SUBSET Nat, S # {}
  PROVE  \E n \in S : \A m \in S : n <= m
<1>1. PICK n \in S : \A m \in S : ~(<<m, n>> \in OpToRel(<, Nat))
  BY NatLessThanWellFounded, WFMin
<1>2. \A m \in S : ~(m < n)
  BY <1>1 DEF OpToRel
<1> QED
  BY <1>2

\* Of the rows a run still has to visit, one comes first.
LEMMA CurrentIsThere ==
  ASSUME NEW r \in Runs, todo[r] \subseteq Offers, todo[r] # {}
  PROVE  Current(r) \in todo[r] /\ Current(r) \in Offers
<1> DEFINE rows == {RowNum[o] : o \in todo[r]}
<1>1. rows \in SUBSET Nat /\ rows # {}
  BY MatchingAssumption DEF MatchingAssumption
<1>2. \E n \in rows : \A m \in rows : n <= m
  <2> HIDE DEF rows
  <2> QED
    BY <1>1, SmallestOfNats
<1>3. \E o \in todo[r] : \A p \in todo[r] : RowNum[o] <= RowNum[p]
  BY <1>2
<1> QED
  BY <1>3 DEF Current

\* TypeOK by parts: the rows and their matches, the cards and the photos
\* waited for, the runs, and what is counted.
MatchTypes ==
  /\ offers \subseteq Offers
  /\ match \in [Offers -> Cards \cup {None}]
  /\ by \in [Offers -> {"nobody", "auto", "human"}]
CardTypes ==
  /\ cards \subseteq Cards
  /\ cardName \in [Cards -> Names \cup {None}]
  /\ cardArticle \in [Cards -> Articles \cup {None}]
  /\ made \subseteq cards
  /\ pending \in 0..QueueCap
  /\ dropped \subseteq cards
Verdicts == [kind : {"none", "match", "create", "skip"}, card : Cards \cup {None}]
RunTypes ==
  /\ stage \in [Runs -> {"idle", "list", "article", "name", "decided"}]
  /\ todo \in [Runs -> SUBSET Offers]
  /\ skipped \in [Runs -> SUBSET Offers]
  /\ progress \in [Runs -> BOOLEAN]
  /\ verdict \in [Runs -> Verdicts]
  /\ AtRow
CountTypes ==
  wiping \in BOOLEAN /\ humans \in 0..MaxHuman /\ fails \in 0..MaxFails

TypeInv == MatchTypes /\ CardTypes /\ RunTypes /\ CountTypes

\* A task enters the queue only while there is room.
LEMMA EnqueueTypes ==
  ASSUME pending \in 0..QueueCap, dropped \subseteq cards, cards \subseteq cards',
         NEW o, NEW c \in cards', EnqueuePhoto(o, c)
  PROVE  pending' \in 0..QueueCap /\ dropped' \subseteq cards'
BY MatchingAssumption DEF MatchingAssumption, EnqueuePhoto, photoVars

LEMMA UpsertTypes ==
  ASSUME MatchTypes, CardTypes, NEW o, NEW c, NEW who \in {"auto", "human"},
         Upsert(o, c, who), EnqueuePhoto(o, c), UNCHANGED <<offers, cardVars>>
  PROVE  MatchTypes' /\ CardTypes'
<1>1. c \in cards /\ c \in Cards /\ o \in Offers /\ cards' = cards
  BY DEF MatchTypes, CardTypes, Upsert, cardVars
<1>2. MatchTypes'
  BY <1>1 DEF MatchTypes, Upsert
<1>3. pending' \in 0..QueueCap /\ dropped' \subseteq cards'
  BY <1>1, EnqueueTypes DEF CardTypes
<1> QED
  BY <1>2, <1>3 DEF CardTypes, cardVars

LEMMA InsertTypes ==
  ASSUME CardTypes, NEW c \in Cards, NEW n \in Names,
         NEW a \in Articles \cup {None}, InsertCard(c, n, a)
  PROVE  /\ cards' \subseteq Cards /\ cards \subseteq cards' /\ c \in cards'
         /\ cardName' \in [Cards -> Names \cup {None}]
         /\ cardArticle' \in [Cards -> Articles \cup {None}]
BY DEF CardTypes, InsertCard

LEMMA CreateTypes ==
  ASSUME MatchTypes, CardTypes, NEW o, NEW n \in Names,
         NEW a \in Articles \cup {None}, NEW who \in {"auto", "human"},
         CreateFromOffer(o, n, a, who), offers' = offers
  PROVE  MatchTypes' /\ CardTypes'
<1>1. PICK c \in Fresh :
        /\ InsertCard(c, n, a)
        /\ made' = IF who = "auto" THEN made \cup {c} ELSE made
        /\ match' = [match EXCEPT ![o] = c]
        /\ by' = [by EXCEPT ![o] = who]
        /\ EnqueuePhoto(o, c)
  BY DEF CreateFromOffer
<1>2. c \in Cards /\ o \in Offers
  BY DEF Fresh, MatchTypes, CreateFromOffer
<1>3. MatchTypes'
  BY <1>1, <1>2 DEF MatchTypes
<1>4. /\ cards' \subseteq Cards /\ cards \subseteq cards' /\ c \in cards'
      /\ cardName' \in [Cards -> Names \cup {None}]
      /\ cardArticle' \in [Cards -> Articles \cup {None}]
  BY <1>1, <1>2, InsertTypes
<1>5. pending' \in 0..QueueCap /\ dropped' \subseteq cards'
  BY <1>1, <1>4, EnqueueTypes DEF CardTypes
<1>6. made' \subseteq cards'
  BY <1>1, <1>4 DEF CardTypes
<1> QED
  BY <1>3, <1>4, <1>5, <1>6 DEF CardTypes

LEMMA DropTypes ==
  ASSUME MatchTypes, CardTypes, NEW gone, DropCards(gone),
         UNCHANGED <<offers, pending>>
  PROVE  MatchTypes' /\ CardTypes'
<1>1. MatchTypes'
  BY DEF MatchTypes, DropCards
<1>2. CardTypes'
  BY DEF CardTypes, DropCards
<1> QED
  BY <1>1, <1>2

\* The verdict on a row names a card that was in the catalogue when it was read.
LEMMA NameVerdictsTypes ==
  ASSUME CardTypes, NEW o PROVE NameVerdicts(o) \subseteq Verdicts
<1>1. Alike(o, High) \subseteq Cards
  BY DEF CardTypes, Alike
<1>2. {[kind |-> "match", card |-> c] : c \in Alike(o, High)} \subseteq Verdicts
  BY <1>1 DEF Verdicts
<1>3. \A k \in {"skip", "create"} : [kind |-> k, card |-> None] \in Verdicts
  BY DEF Verdicts
<1> QED
  BY <1>2, <1>3 DEF NameVerdicts

LEMMA AdvanceTypes ==
  ASSUME TypeInv, NEW r \in Runs, stage[r] = "decided", NEW changed \in BOOLEAN,
         Advance(r, changed), skipped' \in [Runs -> SUBSET Offers]
  PROVE  RunTypes'
<1>1. RunTypes
  BY DEF TypeInv
<1>2. Current(r) \in todo[r]
  BY <1>1, CurrentIsThere DEF RunTypes, AtRow
<1>3. /\ todo' \in [Runs -> SUBSET Offers]
      /\ progress' \in [Runs -> BOOLEAN]
      /\ stage' \in [Runs -> {"idle", "list", "article", "name", "decided"}]
  BY <1>1 DEF RunTypes, Advance
<1>4. verdict' \in [Runs -> Verdicts]
  BY <1>1 DEF RunTypes, Advance, NoVerdict, Verdicts
<1>5. AtRow'
  <2> SUFFICES ASSUME NEW s \in Runs, stage'[s] \in {"article", "name", "decided"}
               PROVE  todo'[s] # {}
    BY DEF AtRow
  <2>1. CASE s # r
    BY <1>1, <2>1 DEF RunTypes, Advance, AtRow
  <2>2. CASE s = r
    <3>1. todo[r] # {Current(r)}
      BY <1>1, <2>2 DEF RunTypes, Advance
    <3>2. todo'[r] = todo[r] \ {Current(r)}
      BY <1>1 DEF RunTypes, Advance
    <3> QED
      BY <1>2, <2>2, <3>1, <3>2
  <2> QED
    BY <2>1, <2>2
<1> QED
  BY <1>3, <1>4, <1>5 DEF RunTypes

LEMMA EndRunTypes ==
  ASSUME RunTypes, NEW r \in Runs, EndRun(r), UNCHANGED <<skipped, progress>>
  PROVE  RunTypes'
<1>1. verdict' \in [Runs -> Verdicts]
  BY DEF RunTypes, EndRun, NoVerdict, Verdicts
<1>2. AtRow'
  BY DEF RunTypes, EndRun, AtRow
<1> QED
  BY <1>1, <1>2 DEF RunTypes, EndRun

LEMMA RunStepTypes == ASSUME TypeInv, NEW r \in Runs, RunStep(r) PROVE TypeInv'
<1> USE DEF TypeInv
<1>1. CASE ListPage(r)
  <2>1. RunTypes'
    <3> DEFINE page == Page \ skipped[r]
    <3>1. page \subseteq Offers
      BY DEF Page, Unmatched, MatchTypes
    <3>2. /\ todo' = [todo EXCEPT ![r] = page]
          /\ stage' = [stage EXCEPT ![r] = IF page = {} THEN "idle" ELSE "article"]
          /\ progress' = [progress EXCEPT ![r] = FALSE]
          /\ UNCHANGED <<skipped, verdict>>
      BY <1>1 DEF ListPage
    <3> HIDE DEF page
    <3> QED
      BY <3>1, <3>2 DEF RunTypes, AtRow
  <2> QED
    BY <1>1, <2>1 DEF ListPage, MatchTypes, CardTypes, CountTypes, cardVars,
                      matchVars, photoVars
<1>2. CASE FindByArticle(r) \/ Suggest(r)
  <2>1. RunTypes'
    <3>1. CASE FindByArticle(r) /\ UNCHANGED verdict
      BY <1>2, <3>1 DEF FindByArticle, RunTypes, AtRow
    <3>2. CASE FindByArticle(r) /\ ~UNCHANGED verdict
      <4>1. PICK c \in ArticleCards(Current(r)) :
              /\ verdict' = [verdict EXCEPT ![r] = [kind |-> "match", card |-> c]]
              /\ stage' = [stage EXCEPT ![r] = "decided"]
        BY <3>2 DEF FindByArticle
      <4>2. [kind |-> "match", card |-> c] \in Verdicts
        BY DEF Verdicts, ArticleCards, CardTypes
      <4> QED
        BY <3>2, <4>1, <4>2 DEF FindByArticle, RunTypes, AtRow
    <3>3. CASE Suggest(r)
      <4>1. PICK v \in NameVerdicts(Current(r)) : verdict' = [verdict EXCEPT ![r] = v]
        BY <3>3 DEF Suggest
      <4>2. v \in Verdicts
        BY NameVerdictsTypes
      <4> QED
        BY <3>3, <4>1, <4>2 DEF Suggest, RunTypes, AtRow
    <3> QED
      BY <1>2, <3>1, <3>2, <3>3
  <2> QED
    BY <1>2, <2>1 DEF FindByArticle, Suggest, MatchTypes, CardTypes, CountTypes,
                      cardVars, matchVars, photoVars
<1>3. CASE ApplyMatch(r)
  <2>1. MatchTypes' /\ CardTypes'
    BY <1>3, UpsertTypes DEF ApplyMatch
  <2>2. RunTypes'
    BY <1>3, AdvanceTypes DEF ApplyMatch, RunTypes
  <2> QED
    BY <1>3, <2>1, <2>2 DEF ApplyMatch, CountTypes
<1>4. CASE ApplyCreate(r)
  <2>1. Current(r) \in Offers
    BY <1>4 DEF ApplyCreate, CreateFromOffer, MatchTypes
  <2>2. /\ OfferName[Current(r)] \in Names
        /\ OfferArticle[Current(r)] \in Articles \cup {None}
    BY <2>1, MatchingAssumption DEF MatchingAssumption
  <2>3. MatchTypes' /\ CardTypes'
    BY <1>4, <2>2, CreateTypes DEF ApplyCreate
  <2>4. RunTypes'
    BY <1>4, AdvanceTypes DEF ApplyCreate, RunTypes
  <2> QED
    BY <1>4, <2>3, <2>4 DEF ApplyCreate, CountTypes
<1>5. CASE ApplySkip(r)
  <2>1. Current(r) \in Offers
    BY <1>5, CurrentIsThere DEF ApplySkip, RunTypes, AtRow
  <2>2. skipped' \in [Runs -> SUBSET Offers]
    BY <1>5, <2>1 DEF ApplySkip, RunTypes
  <2>3. RunTypes'
    BY <1>5, <2>2, AdvanceTypes DEF ApplySkip
  <2> QED
    BY <1>5, <2>3 DEF ApplySkip, MatchTypes, CardTypes, CountTypes, cardVars,
                      matchVars, photoVars
<1>6. CASE ApplyError(r)
  <2>1. RunTypes'
    BY <1>6, EndRunTypes DEF ApplyError
  <2> QED
    BY <1>6, <2>1 DEF ApplyError, MatchTypes, CardTypes, CountTypes, cardVars,
                      matchVars, photoVars
<1> QED
  BY <1>1, <1>2, <1>3, <1>4, <1>5, <1>6 DEF RunStep

LEMMA HumanStepTypes == ASSUME TypeInv, HumanStep PROVE TypeInv'
<1> USE DEF TypeInv
<1>1. RunTypes' /\ humans' \in 0..MaxHuman /\ fails' = fails
  <2>1. Human
    BY DEF HumanStep, ConfirmMatch, CreateProductFromOffer, Unmatch, CreateProduct,
           UpdateProduct, DeleteProduct, WipeImports
  <2>2. MaxHuman \in Nat
    BY MatchingAssumption DEF MatchingAssumption
  <2> QED
    BY <2>1, <2>2 DEF Human, CountTypes, RunTypes, AtRow, runVars
<1>2. MatchTypes' /\ CardTypes' /\ wiping' \in BOOLEAN
  <2>1. ASSUME NEW o \in Offers, NEW c \in Cards, ConfirmMatch(o, c)
        PROVE  MatchTypes' /\ CardTypes' /\ wiping' \in BOOLEAN
    BY <2>1, UpsertTypes DEF ConfirmMatch, CountTypes
  <2>2. ASSUME NEW o \in Offers, NEW n \in Names, NEW a \in Articles \cup {None},
               CreateProductFromOffer(o, n, a)
        PROVE  MatchTypes' /\ CardTypes' /\ wiping' \in BOOLEAN
    BY <2>2, CreateTypes DEF CreateProductFromOffer, CountTypes
  <2>3. ASSUME NEW o \in Offers, Unmatch(o)
        PROVE  MatchTypes' /\ CardTypes' /\ wiping' \in BOOLEAN
    BY <2>3 DEF Unmatch, MatchTypes, CardTypes, CountTypes, cardVars, photoVars
  <2>4. ASSUME NEW n \in Names, NEW a \in Articles \cup {None}, CreateProduct(n, a)
        PROVE  MatchTypes' /\ CardTypes' /\ wiping' \in BOOLEAN
    <3>1. PICK c \in Fresh : InsertCard(c, n, a)
      BY <2>4 DEF CreateProduct
    <3>2. /\ cards' \subseteq Cards /\ cards \subseteq cards'
          /\ cardName' \in [Cards -> Names \cup {None}]
          /\ cardArticle' \in [Cards -> Articles \cup {None}]
      BY <3>1, InsertTypes DEF Fresh
    <3> QED
      BY <2>4, <3>2 DEF CreateProduct, MatchTypes, CardTypes, CountTypes, matchVars,
                        photoVars
  <2>5. ASSUME NEW c \in Cards, NEW n \in Names, NEW a \in Articles \cup {None},
               UpdateProduct(c, n, a)
        PROVE  MatchTypes' /\ CardTypes' /\ wiping' \in BOOLEAN
    <3>1. /\ cards' \subseteq Cards /\ cards \subseteq cards'
          /\ cardName' \in [Cards -> Names \cup {None}]
          /\ cardArticle' \in [Cards -> Articles \cup {None}]
      BY <2>5, InsertTypes DEF UpdateProduct
    <3> QED
      BY <2>5, <3>1 DEF UpdateProduct, MatchTypes, CardTypes, CountTypes, matchVars,
                        photoVars
  <2>6. ASSUME NEW c \in Cards, DeleteProduct(c)
        PROVE  MatchTypes' /\ CardTypes' /\ wiping' \in BOOLEAN
    BY <2>6, DropTypes DEF DeleteProduct, CountTypes
  <2>7. ASSUME WipeImports
        PROVE  MatchTypes' /\ CardTypes' /\ wiping' \in BOOLEAN
    BY <2>7 DEF WipeImports, MatchTypes, CardTypes, cardVars, matchVars, photoVars
  <2> QED
    BY <2>1, <2>2, <2>3, <2>4, <2>5, <2>6, <2>7 DEF HumanStep, CardFields
<1> QED
  BY <1>1, <1>2 DEF CountTypes

LEMMA StepTypes == ASSUME TypeInv, [Next]_vars PROVE TypeInv'
<1> USE DEF TypeInv
<1>1. ASSUME NEW r \in Runs, StartRun(r) PROVE TypeInv'
  <2>1. RunTypes'
    BY <1>1 DEF StartRun, RunTypes, AtRow
  <2> QED
    BY <1>1, <2>1 DEF StartRun, MatchTypes, CardTypes, CountTypes, cardVars, matchVars,
                      photoVars
<1>2. ASSUME NEW r \in Runs, RunStep(r) PROVE TypeInv'
  BY <1>2, RunStepTypes
<1>3. ASSUME NEW r \in Runs, RunFail(r) PROVE TypeInv'
  <2>1. RunTypes'
    BY <1>3, EndRunTypes DEF RunFail
  <2>2. fails' \in 0..MaxFails
    BY <1>3, MatchingAssumption DEF MatchingAssumption, RunFail, CountTypes
  <2> QED
    BY <1>3, <2>1, <2>2 DEF RunFail, MatchTypes, CardTypes, CountTypes, cardVars,
                            matchVars, photoVars
<1>4. CASE HumanStep
  BY <1>4, HumanStepTypes
<1>5. CASE WipeCatalog
  <2>1. MatchTypes' /\ CardTypes'
    BY <1>5, DropTypes DEF WipeCatalog
  <2> QED
    BY <1>5, <2>1 DEF WipeCatalog, RunTypes, AtRow, CountTypes, runVars
<1>6. ASSUME WipeCatalogFail \/ TakePhotoTask \/ UNCHANGED vars PROVE TypeInv'
  <2>1. UNCHANGED <<offers, cardVars, matchVars, runVars, dropped, humans, fails>>
    BY <1>6 DEF WipeCatalogFail, TakePhotoTask, vars, photoVars
  <2>2. QueueCap \in Nat /\ pending \in 0..QueueCap
    BY MatchingAssumption DEF MatchingAssumption, CardTypes
  <2>3. pending' = pending \/ (pending > 0 /\ pending' = pending - 1)
    BY <1>6 DEF WipeCatalogFail, TakePhotoTask, vars, photoVars
  <2>4. pending' \in 0..QueueCap
    BY <2>2, <2>3
  <2>5. wiping' \in BOOLEAN
    BY <1>6 DEF WipeCatalogFail, TakePhotoTask, vars, CountTypes
  <2> QED
    BY <2>1, <2>4, <2>5 DEF MatchTypes, CardTypes, RunTypes, AtRow, CountTypes,
                            cardVars, matchVars, runVars
<1> QED
  BY <1>1, <1>2, <1>3, <1>4, <1>5, <1>6 DEF Next

LEMMA InitTypes == Init => TypeInv
<1> SUFFICES ASSUME Init PROVE MatchTypes /\ CardTypes /\ RunTypes /\ CountTypes
  BY DEF TypeInv
<1>1. RunTypes
  BY DEF Init, RunTypes, AtRow, NoVerdict, Verdicts
<1>2. MatchTypes
  BY DEF Init, MatchTypes
<1>3. CardTypes
  BY MatchingAssumption DEF MatchingAssumption, Init, CardTypes
<1>4. CountTypes
  <2>1. MaxHuman \in Nat /\ MaxFails \in Nat
    BY MatchingAssumption DEF MatchingAssumption
  <2>2. humans \in 0..MaxHuman /\ fails \in 0..MaxFails
    BY <2>1 DEF Init
  <2>3. wiping \in BOOLEAN
    BY DEF Init
  <2> QED
    BY <2>2, <2>3 DEF CountTypes
<1> QED
  BY <1>1, <1>2, <1>3, <1>4

\* The variables have their types, for any number of runs: the queue of photos
\* stays within its capacity, and a run that decides a row has one to decide.
THEOREM TypesStay == Spec => []TypeOK
<1>1. Init => TypeInv
  BY InitTypes
<1>2. TypeInv /\ [Next]_vars => TypeInv'
  BY StepTypes
<1>3. TypeInv => TypeOK
  BY DEF TypeInv, TypeOK, MatchTypes, CardTypes, RunTypes, CountTypes, Verdicts
<1> QED
  BY <1>1, <1>2, <1>3, PTL DEF Spec

----------------------------------------------------------------------------
(* One run at a time makes no duplicates *)

OneRun == \A r, s \in Runs : r = s

SameArticle(c, o) == OfferArticle[o] # None /\ cardArticle[c] = OfferArticle[o]
SameName(c, o) == <<cardName[c], OfferName[o]>> \in High

Creating(r) == stage[r] = "decided" /\ verdict[r].kind = "create"

\* What a run has read of its row stays true of the cards it has made until it
\* writes: people add, change and delete cards, but a card they have touched is
\* not one of the run's any more.
ReadStays ==
  \A r \in Runs : Current(r) \in offers =>
    \A c \in made :
      /\ stage[r] = "name" \/ Creating(r) => ~SameArticle(c, Current(r))
      /\ Creating(r) => ~SameName(c, Current(r))

DuplicateInv == TypeInv /\ ReadStays /\ NoDuplicateCards

\* The run stands still, and the cards it has made are what they were, or are
\* its own no more.
LEMMA OthersKeepReads ==
  ASSUME DuplicateInv, UNCHANGED <<stage, todo, verdict>>,
         offers' \subseteq offers, made' \subseteq made,
         \A c \in made' : cardName'[c] = cardName[c] /\ cardArticle'[c] = cardArticle[c]
  PROVE  ReadStays' /\ NoDuplicateCards'
<1>1. \A r \in Runs : Current(r)' = Current(r) /\ Creating(r)' = Creating(r)
  BY DEF Current, Creating
<1>2. \A c \in made', o \in offers : /\ SameArticle(c, o)' = SameArticle(c, o)
                                     /\ SameName(c, o)' = SameName(c, o)
  BY DEF SameArticle, SameName
<1>3. ReadStays'
  BY <1>1, <1>2 DEF DuplicateInv, ReadStays
<1>4. NoDuplicateCards'
  BY DEF DuplicateInv, NoDuplicateCards
<1> QED
  BY <1>3, <1>4

\* A card added by hand is none of those the runs have made.
LEMMA FreshIsNotMade ==
  ASSUME TypeInv, NEW c \in Fresh PROVE c \notin made
BY DEF TypeInv, CardTypes, Fresh

LEMMA HumanKeepsReads ==
  ASSUME DuplicateInv, HumanStep PROVE ReadStays' /\ NoDuplicateCards'
<1>1. UNCHANGED <<stage, todo, verdict>>
  BY DEF HumanStep, ConfirmMatch, CreateProductFromOffer, Unmatch, CreateProduct,
         UpdateProduct, DeleteProduct, WipeImports, Human, runVars
<1>2. offers' \subseteq offers
  BY DEF HumanStep, ConfirmMatch, CreateProductFromOffer, Unmatch, CreateProduct,
         UpdateProduct, DeleteProduct, WipeImports
<1> DEFINE Kept == /\ made' \subseteq made
                   /\ \A c \in made' : /\ cardName'[c] = cardName[c]
                                       /\ cardArticle'[c] = cardArticle[c]
<1>3. /\ cardName \in [Cards -> Names \cup {None}]
      /\ cardArticle \in [Cards -> Articles \cup {None}]
      /\ made \subseteq Cards
  BY DEF DuplicateInv, TypeInv, CardTypes
<1>4. ASSUME NEW c \in Cards, NEW n, NEW a, InsertCard(c, n, a),
             made' \subseteq made \ {c}
      PROVE  Kept
  BY <1>3, <1>4 DEF InsertCard
<1>5. ASSUME NEW o \in Offers, NEW n, NEW a, CreateProductFromOffer(o, n, a)
      PROVE  Kept
  <2>1. PICK c \in Fresh : InsertCard(c, n, a) /\ made' = made
    BY <1>5 DEF CreateProductFromOffer, CreateFromOffer
  <2> QED
    BY <1>4, <2>1, FreshIsNotMade DEF DuplicateInv, Fresh
<1>6. ASSUME NEW n, NEW a, CreateProduct(n, a) PROVE Kept
  <2>1. PICK c \in Fresh : InsertCard(c, n, a) /\ made' = made
    BY <1>6 DEF CreateProduct
  <2> QED
    BY <1>4, <2>1, FreshIsNotMade DEF DuplicateInv, Fresh
<1>7. ASSUME NEW c \in Cards, NEW n, NEW a, UpdateProduct(c, n, a) PROVE Kept
  BY <1>4, <1>7 DEF UpdateProduct
<1>8. ASSUME NEW c \in Cards, DeleteProduct(c) PROVE Kept
  BY <1>3, <1>8 DEF DeleteProduct, DropCards
<1>9. ASSUME UNCHANGED cardVars PROVE Kept
  BY <1>9 DEF cardVars
<1>10. Kept
  <2> HIDE DEF Kept
  <2> QED
    BY <1>5, <1>6, <1>7, <1>8, <1>9
       DEF HumanStep, ConfirmMatch, Unmatch, WipeImports
<1> QED
  BY <1>1, <1>2, <1>10, OthersKeepReads

\* What the run reads of the cards it has made.
LEMMA ReadIsTrue ==
  ASSUME DuplicateInv, OneRun, NEW r \in Runs, FindByArticle(r) \/ Suggest(r)
  PROVE  ReadStays' /\ NoDuplicateCards'
<1>1. UNCHANGED <<offers, cards, cardName, cardArticle, made, todo>>
  BY DEF FindByArticle, Suggest, cardVars
<1>2. Current(r)' = Current(r)
  BY <1>1 DEF Current
<1>3. NoDuplicateCards'
  BY <1>1 DEF DuplicateInv, NoDuplicateCards
<1>4. ReadStays'
  <2> SUFFICES ASSUME Current(r) \in offers, NEW c \in made
               PROVE  /\ stage'[r] = "name" \/ Creating(r)' => ~SameArticle(c, Current(r))
                      /\ Creating(r)' => ~SameName(c, Current(r))
    BY <1>1, <1>2 DEF OneRun, ReadStays, SameArticle, SameName
  <2>1. /\ stage \in [Runs -> {"idle", "list", "article", "name", "decided"}]
        /\ verdict \in [Runs -> Verdicts]
        /\ c \in cards
    BY DEF DuplicateInv, TypeInv, RunTypes, CardTypes
  <2>2. CASE FindByArticle(r)
    <3>1. CASE ArticleCards(Current(r)) = {}
      <4>1. stage'[r] = "name"
        BY <2>1, <2>2, <3>1 DEF FindByArticle
      <4>2. ~SameArticle(c, Current(r))
        BY <2>1, <3>1 DEF ArticleCards, SameArticle
      <4> QED
        BY <4>1, <4>2 DEF Creating
    <3>2. CASE ArticleCards(Current(r)) # {}
      <4>1. stage'[r] = "decided" /\ verdict'[r].kind = "match"
        BY <2>1, <2>2, <3>2 DEF FindByArticle
      <4> QED
        BY <4>1 DEF Creating
    <3> QED
      BY <3>1, <3>2
  <2>3. CASE Suggest(r)
    <3>1. stage'[r] = "decided" /\ verdict'[r] \in NameVerdicts(Current(r))
      BY <2>1, <2>3 DEF Suggest
    <3>2. ~SameArticle(c, Current(r))
      BY <2>3 DEF Suggest, DuplicateInv, ReadStays
    <3>3. ASSUME SameName(c, Current(r)) PROVE verdict'[r].kind = "match"
      <4>1. Alike(Current(r), High) # {}
        BY <2>1, <3>3 DEF Alike, SameName
      <4> QED
        BY <3>1, <4>1 DEF NameVerdicts
    <3> QED
      BY <3>1, <3>2, <3>3 DEF Creating
  <2> QED
    BY <2>2, <2>3
<1> QED
  BY <1>3, <1>4

\* After a row the run is at no row it has read about.
LEMMA NothingIsRead ==
  ASSUME OneRun, NEW r \in Runs, stage'[r] \notin {"name", "decided"}
  PROVE  ReadStays'
BY DEF OneRun, ReadStays, Creating

\* The card a run makes is like none of those it has made.
LEMMA CreateMakesNoTwin ==
  ASSUME DuplicateInv, OneRun, NEW r \in Runs, ApplyCreate(r)
  PROVE  NoDuplicateCards'
<1> DEFINE o == Current(r)
<1>1. o \in offers /\ Creating(r)
  BY DEF ApplyCreate, CreateFromOffer, Creating
<1>2. PICK new \in Fresh : /\ InsertCard(new, OfferName[o], OfferArticle[o])
                           /\ made' = made \cup {new}
  BY DEF ApplyCreate, CreateFromOffer
<1>3. new \in Cards /\ new \notin made
  BY <1>2, FreshIsNotMade DEF DuplicateInv, Fresh
<1>4. \A c \in made : ~SameArticle(c, o) /\ ~SameName(c, o)
  BY <1>1 DEF DuplicateInv, ReadStays
<1>5. /\ cardName'[new] = OfferName[o] /\ cardArticle'[new] = OfferArticle[o]
      /\ \A c \in made : cardName'[c] = cardName[c] /\ cardArticle'[c] = cardArticle[c]
  BY <1>2, <1>3 DEF InsertCard, DuplicateInv, TypeInv, CardTypes
<1>6. \A m, n : <<m, n>> \in High => <<n, m>> \in High
  BY MatchingAssumption DEF MatchingAssumption
<1>7. ASSUME NEW c \in made
      PROVE  /\ <<cardName'[c], cardName'[new]>> \notin High
             /\ <<cardName'[new], cardName'[c]>> \notin High
             /\ cardArticle'[c] # None => cardArticle'[c] # cardArticle'[new]
             /\ cardArticle'[new] # None => cardArticle'[c] # cardArticle'[new]
  BY <1>4, <1>5, <1>6, <1>7 DEF SameArticle, SameName
<1>8. ASSUME NEW c \in made, NEW d \in made, c # d
      PROVE  /\ <<cardName'[c], cardName'[d]>> \notin High
             /\ cardArticle'[c] # None => cardArticle'[c] # cardArticle'[d]
  BY <1>5, <1>8 DEF DuplicateInv, NoDuplicateCards
<1> QED
  BY <1>2, <1>7, <1>8 DEF NoDuplicateCards

LEMMA RunKeepsReads ==
  ASSUME DuplicateInv, OneRun, NEW r \in Runs,
         StartRun(r) \/ RunStep(r) \/ RunFail(r)
  PROVE  ReadStays' /\ NoDuplicateCards'
<1>1. CASE FindByArticle(r) \/ Suggest(r)
  BY <1>1, ReadIsTrue
<1>2. ASSUME ~(FindByArticle(r) \/ Suggest(r)) PROVE ReadStays'
  <2>1. stage \in [Runs -> {"idle", "list", "article", "name", "decided"}]
    BY DEF DuplicateInv, TypeInv, RunTypes
  <2>2. ASSUME NEW changed, Advance(r, changed)
        PROVE  stage'[r] \notin {"name", "decided"}
    BY <2>1, <2>2 DEF Advance
  <2>3. stage'[r] \notin {"name", "decided"}
    BY <1>2, <2>1, <2>2 DEF RunStep, StartRun, ListPage, ApplyMatch, ApplyCreate,
                            ApplySkip, ApplyError, RunFail, EndRun
  <2> QED
    BY <2>3, NothingIsRead
<1>3. CASE ApplyCreate(r)
  <2>1. ~(FindByArticle(r) \/ Suggest(r))
    BY <1>3 DEF ApplyCreate, FindByArticle, Suggest
  <2> QED
    BY <1>2, <1>3, <2>1, CreateMakesNoTwin
<1>4. ASSUME ~(FindByArticle(r) \/ Suggest(r)), ~ApplyCreate(r)
      PROVE  NoDuplicateCards'
  <2>1. UNCHANGED cardVars
    BY <1>4 DEF RunStep, StartRun, ListPage, ApplyMatch, ApplySkip, ApplyError, RunFail
  <2> QED
    BY <2>1 DEF cardVars, DuplicateInv, NoDuplicateCards
<1> QED
  BY <1>1, <1>2, <1>3, <1>4

LEMMA StepKeepsReads ==
  ASSUME DuplicateInv, OneRun, [Next]_vars PROVE ReadStays' /\ NoDuplicateCards'
<1>1. ASSUME NEW r \in Runs, StartRun(r) \/ RunStep(r) \/ RunFail(r)
      PROVE  ReadStays' /\ NoDuplicateCards'
  BY <1>1, RunKeepsReads
<1>2. CASE HumanStep
  BY <1>2, HumanKeepsReads
<1>3. CASE WipeCatalog
  <2>1. /\ UNCHANGED <<stage, todo, verdict, offers>>
        /\ made' = made \ cards
    BY <1>3 DEF WipeCatalog, DropCards, runVars
  <2>2. made' = {}
    BY <2>1 DEF DuplicateInv, TypeInv, CardTypes
  <2> QED
    BY <2>1, <2>2, OthersKeepReads
<1>4. CASE WipeCatalogFail \/ TakePhotoTask \/ UNCHANGED vars
  <2>1. UNCHANGED <<stage, todo, verdict, offers, made, cardName, cardArticle>>
    BY <1>4 DEF WipeCatalogFail, TakePhotoTask, vars, runVars, cardVars
  <2> QED
    BY <2>1, OthersKeepReads
<1> QED
  BY <1>1, <1>2, <1>3, <1>4 DEF Next

\* An automatic run makes no second card for the same goods, whatever people do
\* between what it reads and what it writes, as long as no other run is under
\* way: "there will be no duplicates inside a price list" needs just that.
THEOREM OneRunMakesNoDuplicates ==
  ASSUME OneRun PROVE Spec => []NoDuplicateCards
<1>1. Init => DuplicateInv
  <2> SUFFICES ASSUME Init PROVE DuplicateInv
    OBVIOUS
  <2>1. TypeInv
    BY InitTypes
  <2> QED
    BY <2>1 DEF Init, DuplicateInv, ReadStays, NoDuplicateCards
<1>2. DuplicateInv /\ [Next]_vars => DuplicateInv'
  BY StepTypes, StepKeepsReads DEF DuplicateInv
<1>3. DuplicateInv => NoDuplicateCards
  BY DEF DuplicateInv
<1> QED
  BY <1>1, <1>2, <1>3, PTL DEF Spec
=============================================================================
