------------------------------- MODULE Portal -------------------------------
(* The web portal in one browser tab. One page or panel is used at a time,   *)
(* and its calls end with it or with their answers; each is a module of its  *)
(* own over the same variables. A behaviour is a visit of one of them.       *)
EXTENDS WebCalls, Sequences, FiniteSets

CONSTANTS
  Pages,                                             \* the pages of a run
  Products, Photos, NewPhotos, MaxImages, MaxFiles,  \* cards and their photos
  PagePhotos,                                        \* the page of a card
  PriceOffers, Cards, Ranking, NewCard,
  Suppliers, ExcelSuppliers, Files,                  \* price lists
  Batches, OldBatches, Offers, OfferBatch,
  Queries, Prices, Choices, NoQuery, NoPrice, Usual, \* the showcase's filter
  SupplierChoices, Listing,
  Searches, NoSearch, Total, PageSize,               \* the list of the cards
  FormFiles, MaxNewCards,
  Nodes, Raw,                                        \* the categories
  SupplierIds, MaxUsers, Sizes, NoTable, Roles       \* suppliers, users, sessions

\* The values the pages open with are among those that can be chosen.
ASSUME PortalAssumption ==
  /\ ExcelSuppliers \subseteq Suppliers
  /\ OldBatches \subseteq Batches /\ None \notin Batches
  /\ NoQuery \in Queries /\ NoPrice \in Prices /\ Usual \in Choices
  /\ None \notin [query : Queries, price : Prices, choice : Choices]
  /\ NoSearch \in Searches /\ Total \in [Searches -> Nat]
  /\ FormFiles \subseteq 0..MaxImages
  /\ PageSize \in Nat \ {0} /\ Sizes \subseteq Nat \ {0} /\ Sizes # {}
  /\ IsFiniteSet(SupplierIds)

VARIABLES
  page,    \* the page or panel that is visited
  ui,      \* the state of its components
  db       \* what of the server's state the page reads and changes
vars == <<page, ui, db, pending>>

M == INSTANCE MatchingPage
I == INSTANCE ImportsPage
C == INSTANCE CatalogPage
D == INSTANCE ProductPage WITH Photos <- PagePhotos
P == INSTANCE ComparePage
L == INSTANCE ProductsPage
E == INSTANCE EditSheet
F == INSTANCE ImagesSheet
K == INSTANCE CategoriesPage
V == INSTANCE SuppliersPage
U == INSTANCE UsersPage
W == INSTANCE WipeDialog
S == INSTANCE SessionShell

\* A card has a list of offers, and Infinity, which stands for no price in a sort,
\* is above every price.
ASSUME OffersAssumption ==
  \A p \in Products : PriceOffers[p] \in Seq([P!Tiers -> 0..(P!NoLimit - 1)])

\* No value is taken for None; photos, candidates and listings are lists.
ASSUME TypesAssumption ==
  /\ None \notin Roles
  /\ None \notin [selected : Cards \cup {None}, call : Calls \cup {None}]
  /\ {MaxUsers, MaxNewCards, MaxImages} \subseteq Nat
  /\ Ranking \in [Offers -> Seq(Cards)] /\ Listing \in [C!Filters -> Seq(Products)]
  /\ Photos \in [Products -> Seq(F!AllPhotos)]
  /\ \A p \in Products : /\ Len(Photos[p]) <= MaxImages
                         /\ PagePhotos[p] \in Seq(F!PhotosOf(PagePhotos[p]))

Init ==
  /\ page \in Pages
  /\ page = "matching" => M!Init
  /\ page = "imports" => I!Init
  /\ page = "catalog" => C!Init
  /\ page = "product" => D!Init
  /\ page = "compare" => P!Init
  /\ page = "products" => L!Init
  /\ page = "edit" => E!Init
  /\ page = "photos" => F!Init
  /\ page = "categories" => K!Init
  /\ page = "suppliers" => V!Init
  /\ page = "users" => U!Init
  /\ page = "wipe" => W!Init
  /\ page = "session" => S!Init

Next ==
  /\ UNCHANGED page
  /\ \/ page = "matching" /\ M!Next
     \/ page = "imports" /\ I!Next
     \/ page = "catalog" /\ C!Next
     \/ page = "product" /\ D!Next
     \/ page = "compare" /\ P!Next
     \/ page = "products" /\ L!Next
     \/ page = "edit" /\ E!Next
     \/ page = "photos" /\ F!Next
     \/ page = "categories" /\ K!Next
     \/ page = "suppliers" /\ V!Next
     \/ page = "users" /\ U!Next
     \/ page = "wipe" /\ W!Next
     \/ page = "session" /\ S!Next

Serve(c) ==
  /\ UNCHANGED page
  /\ \/ page = "matching" /\ M!Serve(c)
     \/ page = "imports" /\ I!Serve(c)
     \/ page = "catalog" /\ C!Serve(c)
     \/ page = "product" /\ D!Serve(c)
     \/ page = "compare" /\ P!Serve(c)
     \/ page = "products" /\ L!Serve(c)
     \/ page = "edit" /\ E!Serve(c)
     \/ page = "photos" /\ F!Serve(c)
     \/ page = "categories" /\ K!Serve(c)
     \/ page = "suppliers" /\ V!Serve(c)
     \/ page = "users" /\ U!Serve(c)
     \/ page = "wipe" /\ W!Serve(c)
     \/ page = "session" /\ S!Serve(c)

Continue(c) ==
  /\ UNCHANGED page
  /\ \/ page = "matching" /\ M!Continue(c)
     \/ page = "imports" /\ I!Continue(c)
     \/ page = "catalog" /\ C!Continue(c)
     \/ page = "product" /\ D!Continue(c)
     \/ page = "compare" /\ P!Continue(c)
     \/ page = "products" /\ L!Continue(c)
     \/ page = "edit" /\ E!Continue(c)
     \/ page = "photos" /\ F!Continue(c)
     \/ page = "categories" /\ K!Continue(c)
     \/ page = "suppliers" /\ V!Continue(c)
     \/ page = "users" /\ U!Continue(c)
     \/ page = "wipe" /\ W!Continue(c)
     \/ page = "session" /\ S!Continue(c)

\* Every call comes to its answer, be it the network's error, and the browser
\* runs the handler that waits for it. Nothing obliges the user.
Timer == \/ page = "catalog" /\ C!TimerFires
         \/ page = "products" /\ L!TimerFires
Fairness ==
  /\ \A c \in Calls : WF_vars(Serve(c)) /\ WF_vars(Continue(c))
  /\ WF_vars(UNCHANGED page /\ Timer)
Spec == Init /\ [][Next]_vars
FairSpec == Spec /\ Fairness

(* The properties are stated, and explained, in the modules of the pages.    *)

TypeOK ==
  /\ page = "matching" => M!TypeOK
  /\ page = "imports" => I!TypeOK
  /\ page = "catalog" => C!TypeOK
  /\ page = "product" => D!TypeOK
  /\ page = "compare" => P!TypeOK
  /\ page = "products" => L!TypeOK
  /\ page = "edit" => E!TypeOK
  /\ page = "photos" => F!TypeOK
  /\ page = "categories" => K!TypeOK
  /\ page = "suppliers" => V!TypeOK
  /\ page = "users" => U!TypeOK
  /\ page = "wipe" => W!TypeOK
  /\ page = "session" => S!TypeOK

\* The page of matching never starts an automatic run next to another: two would
\* make duplicate cards.
OneRunAtATime == page = "matching" => M!OneRunAtATime

\* A row leaves the list of unmatched rows by itself only when it is matched.
DoneIsMatched == [][page = "matching" => M!DoneIsMatched]_vars

\* The matching cards that are open belong to rows on the screen, whichever of
\* two price lists answers last.
OpenMatchesAreShown == page = "imports" => I!OpenMatchesAreShown

\* What a form sends is sent once for a press: its button is out until the last
\* call of its handler has ended, whatever is pressed and answered meanwhile.
SentOnce ==
  /\ page = "imports" => I!SentOnce
  /\ page = "products" => L!SentOnce
  /\ page = "categories" => K!SentOnce
  /\ page = "users" => U!SentOnce
  /\ page = "session" => S!SentOnce

\* No change of the showcase's filter is lost between typing, the pause after it
\* and the calls.
FilterIsAsked == page = "catalog" => C!FilterIsAsked

\* The price that is called the cheapest is the cheapest, in the head of the
\* page and in the table.
CheapestIsMarked ==
  /\ page = "product" => D!CheapestIsMarked
  /\ page = "compare" => P!CheapestIsMarked

\* A card is deleted only after a question about it.
AskedBeforeDelete == page = "edit" => E!AskedBeforeDelete

\* A panel does not save and delete at the same time, closed and opened again or
\* not.
OneCallOfPanel ==
  /\ page = "edit" => E!OneCallOfPanel
  /\ page = "suppliers" => V!OneCallOfPanel

\* An upload or a deletion of photos is not started next to another.
OneChangeAtATime == page = "photos" => F!OneChangeAtATime

\* A table with rows never shows an empty page.
PageHasRows == page = "suppliers" => V!PageHasRows

\* A wipe, and that of the suppliers with it, is confirmed in the dialog that
\* sends it.
WipeIsEnteredAnew == page = "wipe" => W!WipeIsEnteredAnew

\* The panel of a card's photos deletes photos of that card only ("Панель
\* управления галереей карточки", components/product-images-sheet.tsx:31).
RemovesOwnPhoto == page = "photos" => F!RemovesOwnPhoto

\* "Инициализация: если уже есть активная сессия — на главную (иначе будет петля
\* «мигания»)" (app/auth/login/page.tsx:47): once no call fails any more, and
\* nobody comes in or goes out, the browser stays where it is.
NavigationEnds ==
  (/\ <>[][page = "session" => S!NoneFails]_vars
   /\ \E s \in Roles \cup {None} : <>[](page = "session" => S!SessionIs(s)))
  => \E v \in BOOLEAN : <>[](page = "session" => S!AtVisit(v))

\* What the page shows as busy: a list, its next page or its prices, work that
\* was asked for, in the page or in a panel of it, or the buttons of a row.
Indicators == {"list", "more", "prices", "work", "panel"} \cup Offers
Busy ==
  CASE page = "matching" -> M!Busy
    [] page = "imports" -> I!Busy
    [] page = "catalog" -> C!Busy
    [] page = "product" -> D!Busy
    [] page = "compare" -> P!Busy
    [] page = "products" -> L!Busy
    [] page = "edit" -> E!Busy
    [] page = "photos" -> F!Busy
    [] page = "categories" -> K!Busy
    [] page = "suppliers" -> V!Busy
    [] page = "users" -> U!Busy
    [] page = "wipe" -> W!Busy
    [] page = "session" -> S!Busy

\* Nothing stays busy: every indicator goes, and every disabled button comes
\* back, on every path of the handlers, errors and overtaking answers included.
BusyEnds == \A x \in Indicators : []<>(x \notin Busy)
=============================================================================
