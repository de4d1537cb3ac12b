---------------------------- MODULE ComparePage -----------------------------
(* The page "Сравнение цен" (web/app/(app)/compare/page.tsx): a card is      *)
(* looked for as its name is typed, picked from the list, and the prices of  *)
(* its suppliers are shown in the table of ComparePrices.                    *)
EXTENDS WebCalls, ComparePrices

CONSTANTS
  Products,
  PriceOffers     \* the offers of a card, in the order of the server

VARIABLES ui, db
vars == <<ui, db, pending>>

\* The table is on the screen, and with it its choice of the tier.
TableShown(u) ==
  ~u.loading /\ u.selected # None /\ u.cmp # None /\ PriceOffers[u.cmp] # <<>>

Render(u) == [u EXCEPT !.tier = IF TableShown(u) THEN @ ELSE "base"]

Init ==
  /\ ui = [results |-> {}, selected |-> None, cmp |-> None, loading |-> FALSE, tier |-> "base"]
  /\ pending = NoCalls
  /\ db = None

\* Each key forgets the card and looks for the text; an empty text for nothing.
TypeQuery ==
  /\ ui' = Render([ui EXCEPT !.selected = None, !.cmp = None])
  /\ Ask("search", None)
  /\ UNCHANGED db
ClearQuery ==
  /\ ui' = Render([ui EXCEPT !.selected = None, !.cmp = None, !.results = {}])
  /\ UNCHANGED <<db, pending>>

Pick(p) ==
  /\ p \in ui.results /\ ui.selected = None
  /\ Ask("prices", p)
  /\ ui' = Render([ui EXCEPT !.selected = p, !.results = {}, !.loading = TRUE, !.cmp = None])
  /\ UNCHANGED db

ChooseTier(t) ==
  /\ TableShown(ui)
  /\ ui' = [ui EXCEPT !.tier = t]
  /\ UNCHANGED <<db, pending>>

(* The server: which cards a text finds is left open. *)

ServeSearch(c) ==
  /\ Waiting(c) /\ pending[c].op = "search"
  /\ \E found \in SUBSET Products : Reply(c, found)
  /\ UNCHANGED <<ui, db>>

ServePrices(c) ==
  /\ Waiting(c) /\ pending[c].op = "prices"
  /\ Reply(c, "ok")
  /\ UNCHANGED <<ui, db>>

RefuseCall(c) == Refuse(c) /\ UNCHANGED <<ui, db>>

(* The continuations. *)

OnSearch(c) ==
  /\ Answered(c) /\ pending[c].op = "search"
  /\ ui' = [ui EXCEPT !.results = IF Ok(c) THEN pending[c].ans ELSE {}]
  /\ Return(c)
  /\ UNCHANGED db

\* After at least 550 ms; the answer is not asked which card it is of.
OnPrices(c) ==
  /\ Answered(c) /\ pending[c].op = "prices"
  /\ ui' = Render([ui EXCEPT !.loading = FALSE, !.cmp = IF Ok(c) THEN pending[c].arg ELSE @])
  /\ Return(c)
  /\ UNCHANGED db

UserStep ==
  \/ TypeQuery
  \/ ClearQuery
  \/ \E p \in Products : Pick(p)
  \/ \E t \in Tiers : ChooseTier(t)
Serve(c) == ServeSearch(c) \/ ServePrices(c) \/ RefuseCall(c)
Continue(c) == OnSearch(c) \/ OnPrices(c)

Next == UserStep \/ \E c \in Calls : Serve(c) \/ Continue(c)
Spec == Init /\ [][Next]_vars

TypeOK ==
  /\ ui.results \subseteq Products
  /\ {ui.selected, ui.cmp} \subseteq Products \cup {None}
  /\ ui.tier \in Tiers /\ (ui.tier # "base" => TableShown(ui))

\* The row marked as the cheapest is the first of the table, and no supplier
\* sells the card for less at the tier on the screen; no row is marked only if
\* no supplier has a price of that tier.
CheapestIsMarked ==
  TableShown(ui) =>
    LET rows == Sorted(PriceOffers[ui.cmp], ui.tier)
        prices == {rows[i][ui.tier] : i \in DOMAIN rows} \ {0}
    IN IF prices = {} THEN rows[1][ui.tier] = 0
       ELSE rows[1][ui.tier] \in prices /\ \A p \in prices : rows[1][ui.tier] <= p

\* What the page shows as busy.
Busy == IF ui.loading THEN {"list"} ELSE {}
=============================================================================
