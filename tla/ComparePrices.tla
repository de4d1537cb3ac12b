--------------------------- MODULE ComparePrices ----------------------------
(* The table of the suppliers' prices (components/price-comparison-table.tsx)*)
(* and the price in the head of a card's page (catalog/[id]/page.tsx). An    *)
(* offer has a price per tier; 0 stands for "no such price".                 *)
EXTENDS Naturals, Sequences, FiniteSets

Tiers == {"base", "opt", "bulk"}
NoLimit == 1000      \* Infinity: above every price

\* As a slip: a missing price is sorted as the price 0.
KeyOfZero(o, t) == o[t]
Key(o, t) == IF o[t] = 0 THEN NoLimit ELSE o[t]

\* A stable sort: an offer's place is the number of those before it.
Place(offers, t, i) ==
  Cardinality({j \in DOMAIN offers :
     \/ Key(offers[j], t) < Key(offers[i], t)
     \/ Key(offers[j], t) = Key(offers[i], t) /\ j <= i})
Sorted(offers, t) ==
  [n \in DOMAIN offers |-> offers[CHOOSE i \in DOMAIN offers : Place(offers, t, i) = n]]

CheapestPrice(offers, t) == IF offers = <<>> THEN 0 ELSE Sorted(offers, t)[1][t]

\* The price "от" in the head of the page, 0 when there is none.
BasePrices(offers) == {offers[i]["base"] : i \in DOMAIN offers} \ {0}
MinBase(offers) ==
  IF BasePrices(offers) = {} THEN 0
  ELSE CHOOSE p \in BasePrices(offers) : \A q \in BasePrices(offers) : p <= q
=============================================================================
