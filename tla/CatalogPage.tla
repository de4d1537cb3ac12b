---------------------------- MODULE CatalogPage -----------------------------
(* The showcase (web/app/(app)/catalog/page.tsx): a list of cards by a       *)
(* filter, page after page, with the best prices following each page. What   *)
(* is typed waits for 300 ms without another key, what is chosen is asked    *)
(* for at once. How a card looks is left out.                                *)
EXTENDS WebCalls, Sequences, FiniteSets

CONSTANTS
  Products,
  Queries, Prices, Choices,          \* values of the fields
  NoQuery, NoPrice, Usual,           \* the values they open with
  SupplierChoices,                   \* need the list of suppliers
  Listing,                           \* what the server lists for a filter
  PageSize

VARIABLES ui, db
vars == <<ui, db, pending>>

Filters == [query : Queries, price : Prices, choice : Choices]

\* load: the filter of the moment goes with the call. `asked` remembers the
\* last first page that was asked for.
Load(u, f, offset) ==
  /\ Ask("list", [filter |-> f, offset |-> offset])
  /\ ui' = IF offset = 0 THEN [u EXCEPT !.refreshing = TRUE, !.asked = f]
                         ELSE [u EXCEPT !.more = TRUE]
  /\ UNCHANGED db

\* The page opens with its first load and the list of suppliers under way.
Init ==
  LET f == [query |-> NoQuery, price |-> NoPrice, choice |-> Usual]
  IN /\ ui = [filter |-> f, timer |-> None, asked |-> f, suppliers |-> FALSE,
              products |-> None, total |-> 0, priced |-> {}, ready |-> FALSE,
              refreshing |-> TRUE, more |-> FALSE]
     /\ pending = Opening(<<Request("list", [filter |-> f, offset |-> 0]),
                            Request("suppliers", None)>>)
     /\ db = None

\* As a slip: the effect that loads at once does not stop the timer.
FilterChangedTimerRuns(f) ==
  IF f.query # ui.filter.query \/ f.price # ui.filter.price
  THEN ui' = [ui EXCEPT !.filter = f, !.timer = f] /\ UNCHANGED <<db, pending>>
  ELSE Load([ui EXCEPT !.filter = f], f, 0)

\* The effect over the filter: its clean-up stops the timer of the change
\* before; a change of what is typed starts another, any other loads at once.
FilterChanged(f) ==
  IF f.query # ui.filter.query \/ f.price # ui.filter.price
  THEN ui' = [ui EXCEPT !.filter = f, !.timer = f] /\ UNCHANGED <<db, pending>>
  ELSE Load([ui EXCEPT !.filter = f, !.timer = None], f, 0)

Type(q, p) ==
  /\ <<q, p>> # <<ui.filter.query, ui.filter.price>>
  /\ q = ui.filter.query \/ p = ui.filter.price
  /\ FilterChanged([ui.filter EXCEPT !.query = q, !.price = p])

Choose(v) ==
  /\ v # ui.filter.choice /\ (v \in SupplierChoices => ui.suppliers)
  /\ FilterChanged([ui.filter EXCEPT !.choice = v])

FiltersActive == ui.filter.price # NoPrice \/ ui.filter.choice # Usual

\* The reset leaves the search alone. A reset price is a typed change.
ResetFilters ==
  /\ FiltersActive
  /\ FilterChanged([ui.filter EXCEPT !.price = NoPrice, !.choice = Usual])

TimerFires == ui.timer # None /\ Load([ui EXCEPT !.timer = None], ui.timer, 0)

CanMore == ui.products # None /\ Len(ui.products) \in 1..(ui.total - 1) /\ ~ui.more

ShowMore == CanMore /\ Load(ui, ui.filter, Len(ui.products))

(* The server: an offset past the end gives an empty page. *)

ServeList(c) ==
  /\ Waiting(c) /\ pending[c].op = "list"
  /\ LET a == pending[c].arg
         all == Listing[a.filter]
         last == IF a.offset + PageSize < Len(all) THEN a.offset + PageSize ELSE Len(all)
     IN Reply(c, [page |-> SubSeq(all, a.offset + 1, last), total |-> Len(all)])
  /\ UNCHANGED <<ui, db>>

ServePrices(c) ==
  /\ Waiting(c) /\ pending[c].op = "prices"
  /\ Reply(c, pending[c].arg)
  /\ UNCHANGED <<ui, db>>

ServeSuppliers(c) ==
  /\ Waiting(c) /\ pending[c].op = "suppliers"
  /\ Reply(c, "ok")
  /\ UNCHANGED <<ui, db>>

RefuseCall(c) == Refuse(c) /\ UNCHANGED <<ui, db>>

(* The continuations. *)

Loaded(u) == [u EXCEPT !.refreshing = FALSE, !.more = FALSE]

IdsOf(s) == {s[i] : i \in DOMAIN s}

\* A first page replaces the list and its prices, a further one is appended to
\* whatever list is there by now; then the prices of the page are asked for.
OnList(c) ==
  /\ Ok(c) /\ pending[c].op = "list"
  /\ LET d == pending[c].ans
         shown == IF ui.products = None THEN <<>> ELSE ui.products
         u == IF pending[c].arg.offset = 0
              THEN [ui EXCEPT !.products = d.page, !.total = d.total,
                              !.priced = {}, !.ready = FALSE]
              ELSE [ui EXCEPT !.products = shown \o d.page, !.total = d.total]
     IN IF d.page = <<>>
        THEN ui' = Loaded([u EXCEPT !.ready = TRUE]) /\ Return(c)
        ELSE ui' = Loaded(u) /\ Await(c, "prices", IdsOf(d.page))
  /\ UNCHANGED db

\* As a slip: the catch of load leaves the spinner.
OnListErrorSpins(c) ==
  /\ Answered(c) /\ ~Ok(c) /\ pending[c].op = "list"
  /\ Return(c)
  /\ UNCHANGED <<ui, db>>

OnListError(c) ==
  /\ Answered(c) /\ ~Ok(c) /\ pending[c].op = "list"
  /\ ui' = Loaded(ui)
  /\ Return(c)
  /\ UNCHANGED db

\* Prices are not critical: without them the cards show none.
OnPrices(c) ==
  /\ Answered(c) /\ pending[c].op = "prices"
  /\ ui' = [ui EXCEPT !.ready = TRUE, !.priced = IF Ok(c) THEN @ \cup pending[c].ans ELSE @]
  /\ Return(c)
  /\ UNCHANGED db

OnSuppliers(c) ==
  /\ Answered(c) /\ pending[c].op = "suppliers"
  /\ ui' = [ui EXCEPT !.suppliers = Ok(c)]
  /\ Return(c)
  /\ UNCHANGED db

UserStep ==
  \/ \E q \in Queries, p \in Prices : Type(q, p)
  \/ \E v \in Choices : Choose(v)
  \/ ResetFilters
  \/ ShowMore
Serve(c) == ServeList(c) \/ ServePrices(c) \/ ServeSuppliers(c) \/ RefuseCall(c)
Continue(c) == OnList(c) \/ OnListError(c) \/ OnPrices(c) \/ OnSuppliers(c)

Next ==
  \/ UserStep
  \/ TimerFires
  \/ \E c \in Calls : Serve(c) \/ Continue(c)
Spec == Init /\ [][Next]_vars

TypeOK ==
  /\ ui.filter \in Filters /\ ui.asked \in Filters /\ ui.timer \in Filters \cup {None}
  /\ ui.products # None => IdsOf(ui.products) \subseteq Products
  /\ ui.priced \subseteq Products /\ ui.total \in Nat

\* No change of the filter is lost between the timer and the calls: either the
\* filter on the screen is the one last asked for, or a timer with exactly that
\* filter runs, whatever typing, choosing and resetting went before.
FilterIsAsked ==
  IF ui.timer = None THEN ui.asked = ui.filter ELSE ui.timer = ui.filter

\* What the page shows as busy: the list, its next page, and the prices of the
\* cards on the screen.
Busy ==
  LET shown == [list |-> ui.refreshing, more |-> ui.more,
                prices |-> ui.products # None /\ ~ui.ready]
  IN {x \in DOMAIN shown : shown[x]}
=============================================================================
