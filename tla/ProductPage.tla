---------------------------- MODULE ProductPage -----------------------------
(* The page of one card (web/app/(app)/catalog/[id]/page.tsx): the card, its *)
(* photos, the categories and the prices are four calls, and the page shows  *)
(* all of them or an error. The category path is left to Categories.         *)
EXTENDS WebCalls, ComparePrices

CONSTANTS
  Products, PriceOffers,
  Photos        \* the photos of a card, the cover first

VARIABLES
  ui,
  db            \* the cards and photos that somebody else has deleted meanwhile
vars == <<ui, db, pending>>

Parts == {"card", "images", "categories", "prices"}

\* Promise.all is one call to wait for: `arg` has the parts not answered yet.
Init ==
  /\ \E p \in Products :
       ui = [id |-> p, loading |-> TRUE, shown |-> FALSE, images |-> <<>>,
             active |-> None, tier |-> "base"]
  /\ pending = Opening(<<Request("page", [left |-> Parts, images |-> <<>>])>>)
  /\ db = {}

Offered == PriceOffers[ui.id]

OpenPhoto(i) ==
  /\ ui.shown /\ Len(ui.images) > 1 /\ \E n \in DOMAIN ui.images : ui.images[n] = i
  /\ ui' = [ui EXCEPT !.active = i]
  /\ UNCHANGED <<db, pending>>

ChooseTier(t) ==
  /\ ui.shown /\ Offered # <<>>
  /\ ui' = [ui EXCEPT !.tier = t]
  /\ UNCHANGED <<db, pending>>

DeleteElsewhere(x) ==
  /\ x \notin db
  /\ db' = db \cup {x}
  /\ UNCHANGED <<ui, pending>>

\* The photos not deleted, each at the place that the ones before it leave it.
Remaining(s) ==
  LET kept == {n \in DOMAIN s : s[n] \notin db}
      At(k) == CHOOSE n \in kept : Cardinality({m \in kept : m <= n}) = k
  IN [k \in 1..Cardinality(kept) |-> s[At(k)]]

ServePart(c, part) ==
  /\ Waiting(c) /\ part \in pending[c].arg.left
  /\ LET left == pending[c].arg.left \ {part}
         images == IF part # "images" THEN pending[c].arg.images
                   ELSE IF ui.id \in db THEN <<>> ELSE Remaining(Photos[ui.id])
         ans == IF part = "card" /\ ui.id \in db THEN Failed
                ELSE IF left = {} THEN "ok" ELSE Sent
     IN pending' = [pending EXCEPT ![c].arg = [left |-> left, images |-> images], ![c].ans = ans]
  /\ UNCHANGED <<ui, db>>

\* The first part that fails fails the whole.
RefuseCall(c) == Refuse(c) /\ UNCHANGED <<ui, db>>

OnPage(c) ==
  /\ Answered(c)
  /\ LET s == pending[c].arg.images
         u == [ui EXCEPT !.loading = FALSE]
     IN ui' = IF ~Ok(c) THEN u
              ELSE [u EXCEPT !.shown = TRUE, !.images = s,
                             !.active = IF s = <<>> THEN None ELSE s[1]]
  /\ Return(c)
  /\ UNCHANGED db

UserStep ==
  \/ \E n \in DOMAIN ui.images : OpenPhoto(ui.images[n])
  \/ \E t \in Tiers : ChooseTier(t)
ElsewhereStep ==
  \E x \in {ui.id} \cup {Photos[ui.id][n] : n \in DOMAIN Photos[ui.id]} : DeleteElsewhere(x)
Serve(c) == RefuseCall(c) \/ \E part \in Parts : ServePart(c, part)
Continue(c) == OnPage(c)

Next == UserStep \/ ElsewhereStep \/ \E c \in Calls : Serve(c) \/ Continue(c)
Spec == Init /\ [][Next]_vars

TypeOK ==
  /\ ui.id \in Products /\ ui.tier \in Tiers
  /\ ui.shown => ~ui.loading
  /\ ui.active # None => \E n \in DOMAIN ui.images : ui.images[n] = ui.active

\* The price in the head of the page and the row marked as the cheapest are
\* computed apart, one from the offers and one from the sorted table; they are
\* the same price, also when some supplier has no retail price.
CheapestIsMarked ==
  (ui.shown /\ Offered # <<>>) => MinBase(Offered) = CheapestPrice(Offered, "base")

\* What the page shows as busy.
Busy == IF ui.loading THEN {"list"} ELSE {}
=============================================================================
