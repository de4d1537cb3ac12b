------------------------------- MODULE Pricing -------------------------------
(* The pricing service's choice among the offers of a card (services/pricing:*)
(* service/price.go, repository/price.go). The cards, rows and matches they  *)
(* come from are in Prices.                                                  *)
EXTENDS Naturals, Sequences, FiniteSets

\* A row of a price list; 0 stands for "no such price".
PriceOffer == [base : Nat, opt : Nat, bulk : Nat, inStock : BOOLEAN]

\* As a slip: the price comes before the stock.
BetterPrice(a, b, t) ==
  IF a[t] # b[t] THEN a[t] < b[t] ELSE a.inStock /\ ~b.inStock
\* What is in stock comes first, then what is cheaper.
BetterOffer(a, b, t) ==
  IF a.inStock # b.inStock THEN a.inStock ELSE a[t] < b[t]

\* One turn of the loop: the best so far, 0 for none, and the next offer.
Considered(offers, t, best, i) ==
  IF offers[i][t] = 0 \/ (best # 0 /\ ~BetterOffer(offers[i], offers[best], t))
  THEN best ELSE i

\* The place of the best of the offers that have a price of this tier, 0 for
\* none: one pass over the list.
CompareByProduct(offers, t) ==
  LET best[i \in 0..Len(offers)] ==
        IF i = 0 THEN 0 ELSE Considered(offers, t, best[i - 1], i)
  IN best[Len(offers)]

\* COALESCE(min(price) FILTER (WHERE price > 0), 0)
Lowest(prices) ==
  LET given == prices \ {0}
  IN IF given = {} THEN 0 ELSE CHOOSE p \in given : \A q \in given : p <= q
=============================================================================
