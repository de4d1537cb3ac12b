------------------------------- MODULE Prices -------------------------------
(* Where the prices of a card come from: the suppliers, their imported price *)
(* lists (services/import: service/batch.go, repository/batch.go,            *)
(* repository/offer.go), the matches of rows to cards, and the two queries   *)
(* over them (services/pricing: repository/price.go). No table of prices is  *)
(* kept; every query joins what there is.                                    *)
EXTENDS SupplierTable, Pricing

CONSTANTS
  SupplierNum,    \* the suppliers' ids are in the order of these numbers
  Products,
  MaxBatches,     \* bounds the imports
  PriceLists      \* what a file can say: its rows, with prices and stock

ASSUME PricesAssumption ==
  /\ MaxBatches \in Nat
  /\ IsFiniteSet(Suppliers) /\ SupplierNum \in [Suppliers -> Nat]
  /\ \A s, t \in Suppliers : SupplierNum[s] = SupplierNum[t] => s = t
  /\ \A rows \in PriceLists : rows \in Seq(PriceOffer)

VARIABLES
  begun,          \* imports begun so far: created_at is the begin of the
                  \* transaction, so their numbers are in the order of it
  batch,          \* import_batches with their supplier_offers, and those of
                  \* transactions that are still open
  match,          \* offer_matches: the card of a row
  wiping          \* between the two calls of a wipe
importVars == <<begun, batch, match, wiping>>
vars == <<name, creating, begun, batch, match, wiping>>

Page == INSTANCE ComparePrices

Batches == 1..MaxBatches
RowNums == UNION {DOMAIN l : l \in PriceLists}
Rows == Batches \X RowNums
Visible(o) == batch[o[1]] # None /\ ~batch[o[1]].open /\ o[2] \in DOMAIN batch[o[1]].rows
Offer(o) == batch[o[1]].rows[o[2]]

Init ==
  /\ SuppliersInit
  /\ begun = 0
  /\ batch = [b \in Batches |-> None]
  /\ match = [o \in Rows |-> None]
  /\ wiping = FALSE

\* A new supplier's id is on no price list.
InsertNew(w, s) ==
  /\ InsertSupplier(w, s)
  /\ \A b \in Batches : batch[b] # None => batch[b].supplier # s
SupplierStep ==
  /\ \/ \E w \in Creators :
          \/ CreateCommit(w) \/ CreateFail(w)
          \/ \E n \in Names : ExistsByName(w, n)
          \/ \E s \in Suppliers : InsertNew(w, s)
     \/ \E s \in Suppliers : DeleteSupplier(s) \/ \E n \in Names : UpdateSupplier(s, n)
  /\ UNCHANGED importVars

\* The file is parsed and written in one transaction. Nothing asks whether the
\* supplier, which the page knew when it was opened, is still there.
ProcessBegin(s, rows) ==
  /\ begun < MaxBatches
  /\ name[s] # None \/ \E b \in Batches : batch[b] # None /\ batch[b].supplier = s
  /\ begun' = begun + 1
  /\ batch' = [batch EXCEPT ![begun + 1] = [supplier |-> s, rows |-> rows, open |-> TRUE]]
  /\ UNCHANGED <<name, creating, match, wiping>>
ProcessCommit(b) ==
  /\ batch[b] # None /\ batch[b].open
  /\ batch' = [batch EXCEPT ![b].open = FALSE]
  /\ UNCHANGED <<name, creating, begun, match, wiping>>
ProcessFail(b) ==
  /\ batch[b] # None /\ batch[b].open
  /\ batch' = [batch EXCEPT ![b] = None]
  /\ UNCHANGED <<name, creating, begun, match, wiping>>

ConfirmMatch(o, p) ==
  /\ Visible(o) /\ match' = [match EXCEPT ![o] = p]
  /\ UNCHANGED <<name, creating, begun, batch, wiping>>
Unmatch(o) ==
  /\ match[o] # None /\ match' = [match EXCEPT ![o] = None]
  /\ UNCHANGED <<name, creating, begun, batch, wiping>>

\* The matches of a card go with it.
DeleteProduct(p) ==
  /\ \E o \in Rows : match[o] = p
  /\ match' = [o \in Rows |-> IF match[o] = p THEN None ELSE match[o]]
  /\ UNCHANGED <<name, creating, begun, batch, wiping>>

\* A wipe: the imports, then, unless that call fails, the catalogue, with the
\* suppliers or without. An import that is open is not seen by either.
WipeImports ==
  /\ ~wiping /\ wiping' = TRUE
  /\ batch' = [b \in Batches |-> IF batch[b] # None /\ batch[b].open THEN batch[b] ELSE None]
  /\ UNCHANGED <<name, creating, begun, match>>
WipeCatalog ==
  /\ wiping /\ wiping' = FALSE
  /\ match' = [o \in Rows |-> None]
  /\ DeleteSuppliers \/ UNCHANGED suppliersVars
  /\ UNCHANGED <<begun, batch>>
WipeFail ==
  /\ wiping /\ wiping' = FALSE
  /\ UNCHANGED <<name, creating, begun, batch, match>>

Next ==
  \/ SupplierStep
  \/ \E s \in Suppliers, rows \in PriceLists : ProcessBegin(s, rows)
  \/ \E b \in Batches : ProcessCommit(b) \/ ProcessFail(b)
  \/ \E o \in Rows : Unmatch(o) \/ \E p \in Products : ConfirmMatch(o, p)
  \/ \E p \in Products : DeleteProduct(p)
  \/ WipeImports \/ WipeCatalog \/ WipeFail
Spec == Init /\ [][Next]_vars

-----------------------------------------------------------------------------
(* The queries. DISTINCT ON keeps one row per supplier, of the newest of the *)
(* price lists that have a row for the card; which of several rows of that   *)
(* list is left to Postgres.                                                 *)
MatchedRows(p) == {o \in Rows : match[o] = p /\ Visible(o)}
SupplierOf(o) == batch[o[1]].supplier
DistinctOn(rows) ==
  {f \in [{SupplierOf(o) : o \in rows} -> rows] :
     \A s \in DOMAIN f :
       /\ SupplierOf(f[s]) = s
       /\ \A o \in rows : SupplierOf(o) = s => o[1] <= f[s][1]}

\* ORDER BY o.supplier_id: an id's place is the number of those up to it.
PlaceOf(s, ids) == Cardinality({r \in ids : SupplierNum[r] <= SupplierNum[s]})
InOrder(ids) == [n \in 1..Cardinality(ids) |-> CHOOSE s \in ids : PlaceOf(s, ids) = n]

\* The offers of a card, in the order of the suppliers' ids. This query joins the
\* suppliers.
OffersByProduct(p) ==
  LET Listed(f) == [n \in DOMAIN InOrder(DOMAIN f) |-> Offer(f[InOrder(DOMAIN f)[n]])]
  IN {Listed(f) : f \in DistinctOn({o \in MatchedRows(p) : name[SupplierOf(o)] # None})}

Summary(rows) ==
  [minPrice |-> Lowest({Offer(o).base : o \in rows}), supplierCount |-> Cardinality(rows)]

\* As a slip: superseded price lists count.
MinOfAllRows(p) == {Summary(MatchedRows(p))}
\* The card in the showcase. This query does not join the suppliers.
MinByProducts(p) == {Summary({f[s] : s \in DOMAIN f}) : f \in DistinctOn(MatchedRows(p))}

\* A creation in its steps, next to others and to renaming, does what a creation
\* in one step would: no two suppliers have one name ("Проверка уникальности и
\* вставка — в одной транзакции", service/supplier.go:47).
ImplementsRegistry == R!Spec

\* Of the offers with a price of the tier the comparison picks one that none
\* beats: in stock if any is, and the cheapest of those ("среди них предложения
\* в наличии предпочтительнее", service/price.go:22), whatever their order.
CheapestIsBest ==
  \A p \in Products : \A offers \in OffersByProduct(p), t \in Page!Tiers :
    LET best == CompareByProduct(offers, t)
        priced == {i \in DOMAIN offers : offers[i][t] > 0}
    IN IF priced = {} THEN best = 0
       ELSE /\ best \in priced
            /\ \A i \in priced :
                 /\ offers[i].inStock => offers[best].inStock
                 /\ offers[i].inStock = offers[best].inStock => offers[best][t] <= offers[i][t]

\* The price "от" of the showcase is that of the head of the card's page, which
\* the page finds in the answer of the other query, and the number of suppliers
\* agrees, however often lists were replaced ("тот же живой джойн",
\* repository/price.go:63), while no supplier of the card has been deleted and no
\* price list has two rows for it.
SummaryAgrees ==
  \A p \in Products :
    (/\ \A o \in MatchedRows(p) : name[SupplierOf(o)] # None
     /\ \A o, q \in MatchedRows(p) : o[1] = q[1] => o = q)
    => \A offers \in OffersByProduct(p), sum \in MinByProducts(p) :
         /\ sum.minPrice = Page!MinBase(offers)
         /\ sum.supplierCount = Len(offers)
=============================================================================
