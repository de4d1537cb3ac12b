---------------------------- MODULE PricesProofs ----------------------------
(* The creation of suppliers in two statements implements the creation in    *)
(* one step of Registry, the comparison picks a best offer, and the two      *)
(* queries agree: for any number of requests, suppliers, lists and rows.     *)
EXTENDS Prices, FiniteSetTheorems, SequenceTheorems, WellFoundedInduction, TLAPS

Creation == [name : Names, id : Suppliers \cup {None}]

\* A row that is not yet committed has an id and a name that no other row has,
\* committed or not: what the unique index keeps up.
Guarded ==
  /\ name \in [Suppliers -> Names \cup {None}]
  /\ creating \in [Creators -> Creation \cup {None}]
  /\ \A w \in Creators : Inserted(w) =>
       /\ name[creating[w].id] = None
       /\ \A t \in Suppliers : name[t] # creating[w].name
  /\ \A v, w \in Creators : v # w /\ Inserted(v) /\ Inserted(w) =>
       /\ creating[v].id # creating[w].id
       /\ creating[v].name # creating[w].name

USE SupplierAssumption

LEMMA InitGuarded == Init => Guarded
  BY DEF Init, SuppliersInit, R!Init, Guarded, Inserted

\* Whoever gives up leaves the others as they were.
LEMMA LeavingKeepsGuarded ==
  ASSUME Guarded, NEW w \in Creators,
         creating' = [creating EXCEPT ![w] = None],
         \/ UNCHANGED name
         \/ Inserted(w) /\ name' = [name EXCEPT ![creating[w].id] = creating[w].name]
  PROVE  Guarded'
<1>1. \A v \in Creators : Inserted(v)' => v # w /\ Inserted(v) /\ creating'[v] = creating[v]
  BY DEF Guarded, Inserted
<1>2. CASE UNCHANGED name
  BY <1>1, <1>2 DEF Guarded
<1>3. CASE Inserted(w) /\ name' = [name EXCEPT ![creating[w].id] = creating[w].name]
  <2> DEFINE s == creating[w].id
             n == creating[w].name
  <2>1. s \in Suppliers /\ n \in Names
    BY <1>3 DEF Guarded, Inserted, Creation
  <2>2. name' \in [Suppliers -> Names \cup {None}] /\ creating' \in [Creators -> Creation \cup {None}]
    BY <1>3, <2>1 DEF Guarded
  <2>3. ASSUME NEW v \in Creators, Inserted(v)'
        PROVE  /\ name'[creating'[v].id] = None
               /\ \A t \in Suppliers : name'[t] # creating'[v].name
    <3>1. v # w /\ Inserted(v) /\ creating'[v] = creating[v]
      BY <1>1, <2>3
    <3>2. creating[v].id # s /\ creating[v].name # n
      BY <1>3, <3>1 DEF Guarded
    <3>3. creating[v].id \in Suppliers
      BY <3>1 DEF Guarded, Inserted, Creation
    <3> QED BY <1>3, <2>1, <3>1, <3>2, <3>3 DEF Guarded
  <2>4. \A v, u \in Creators : v # u /\ Inserted(v)' /\ Inserted(u)' =>
          creating'[v].id # creating'[u].id /\ creating'[v].name # creating'[u].name
    BY <1>1 DEF Guarded
  <2> QED BY <2>2, <2>3, <2>4 DEF Guarded
<1> QED BY <1>2, <1>3

LEMMA InsertKeepsGuarded ==
  ASSUME Guarded, NEW w \in Creators, NEW s \in Suppliers, InsertSupplier(w, s)
  PROVE  Guarded'
<1>1. creating[w] \in Creation /\ creating'[w] = [creating[w] EXCEPT !.id = s]
  BY DEF Guarded, InsertSupplier
<1>2. creating'[w] \in Creation /\ creating'[w].id = s /\ creating'[w].name = creating[w].name
  BY <1>1 DEF Creation
<1>3. \A v \in Creators \ {w} : creating'[v] = creating[v] /\ (Inserted(v)' <=> Inserted(v))
  BY DEF Guarded, InsertSupplier, Inserted
<1>4. name' = name /\ creating' \in [Creators -> Creation \cup {None}]
  BY <1>2 DEF Guarded, InsertSupplier
<1>5. name[s] = None /\ \A t \in Suppliers : name[t] # creating[w].name
  BY DEF InsertSupplier
<1>6. \A v \in Creators : Inserted(v) =>
        creating[v].id # s /\ creating[v].name # creating[w].name
  BY DEF InsertSupplier, Entry, InsertedAs
<1>7. \A v \in Creators : Inserted(v)' =>
        name'[creating'[v].id] = None /\ \A t \in Suppliers : name'[t] # creating'[v].name
  BY <1>2, <1>3, <1>4, <1>5 DEF Guarded
<1>8. \A v, u \in Creators : v # u /\ Inserted(v)' /\ Inserted(u)' =>
        creating'[v].id # creating'[u].id /\ creating'[v].name # creating'[u].name
  BY <1>2, <1>3, <1>6 DEF Guarded
<1> QED BY <1>4, <1>7, <1>8 DEF Guarded

LEMMA SuppliersKeepGuarded == ASSUME Guarded, [Next]_vars PROVE Guarded'
<1>1. CASE UNCHANGED suppliersVars
  BY <1>1 DEF Guarded, Inserted, suppliersVars
<1>2. ASSUME NEW w \in Creators, NEW n \in Names, ExistsByName(w, n) PROVE Guarded'
  <2>1. creating' \in [Creators -> Creation \cup {None}]
    BY <1>2 DEF ExistsByName, Guarded, Creation
  <2>2. \A v \in Creators : Inserted(v)' => v # w /\ Inserted(v) /\ creating'[v] = creating[v]
    BY <1>2 DEF ExistsByName, Guarded, Inserted
  <2> QED BY <1>2, <2>1, <2>2 DEF ExistsByName, Guarded
<1>3. ASSUME NEW w \in Creators, CreateCommit(w) \/ CreateFail(w) PROVE Guarded'
  BY <1>3, LeavingKeepsGuarded DEF CreateCommit, CreateFail
<1>4. ASSUME NEW w \in Creators, NEW s \in Suppliers, InsertNew(w, s) PROVE Guarded'
  BY <1>4, InsertKeepsGuarded DEF InsertNew
<1>5. ASSUME NEW s \in Suppliers, NEW n \in Names, UpdateSupplier(s, n) PROVE Guarded'
  <2>1. \A v \in Creators : Inserted(v)' =>
          Inserted(v) /\ creating'[v] = creating[v] /\ creating[v].name # n /\ creating[v].id # s
    BY <1>5 DEF UpdateSupplier, Inserted, InsertedAs, Guarded
  <2> QED BY <1>5, <2>1 DEF UpdateSupplier, Guarded, Inserted, Creation
<1>6. ASSUME NEW s \in Suppliers, DeleteSupplier(s) PROVE Guarded'
  BY <1>6 DEF DeleteSupplier, Guarded, Inserted, Creation
<1>7. CASE DeleteSuppliers
  BY <1>7 DEF DeleteSuppliers, Guarded, Inserted, Creation
<1>8. [Next]_vars => \/ UNCHANGED suppliersVars \/ SupplierStep \/ DeleteSuppliers
  BY DEF Next, vars, suppliersVars, ProcessBegin, ProcessCommit, ProcessFail, ConfirmMatch,
         Unmatch, DeleteProduct, WipeImports, WipeCatalog, WipeFail
<1> QED BY <1>1, <1>2, <1>3, <1>4, <1>5, <1>6, <1>7, <1>8 DEF SupplierStep

\* A step of a request is a step of Registry or changes no supplier.
LEMMA StepIsOfRegistry == ASSUME Guarded, [Next]_vars PROVE [R!Next]_name
<1> USE DEF R!Next, R!Known, R!Taken
<1>1. CASE UNCHANGED name
  BY <1>1
<1>2. ASSUME NEW w \in Creators, CreateCommit(w) PROVE R!Next
  <2> DEFINE s == creating[w].id
             n == creating[w].name
  <2>1. s \in Suppliers /\ n \in Names
    BY <1>2 DEF CreateCommit, Guarded, Inserted, Creation
  <2>2. R!Enter(s, n)
    BY <1>2, <2>1 DEF CreateCommit, Guarded, R!Enter
  <2> QED BY <2>1, <2>2
<1>3. ASSUME NEW s \in Suppliers, NEW n \in Names, UpdateSupplier(s, n) PROVE R!Next
  <2>1. R!Rename(s, n)
    BY <1>3 DEF UpdateSupplier, R!Rename
  <2> QED BY <2>1
<1>4. ASSUME NEW s \in Suppliers, DeleteSupplier(s) PROVE R!Next
  BY <1>4 DEF DeleteSupplier, R!Remove
<1>5. CASE DeleteSuppliers
  BY <1>5 DEF DeleteSuppliers, R!Clear
<1>6. \/ UNCHANGED name \/ DeleteSuppliers
      \/ \E w \in Creators : CreateCommit(w)
      \/ \E s \in Suppliers : DeleteSupplier(s) \/ \E n \in Names : UpdateSupplier(s, n)
  BY DEF Next, vars, suppliersVars, SupplierStep, ProcessBegin, ProcessCommit, ProcessFail,
         ConfirmMatch, Unmatch, DeleteProduct, WipeImports, WipeCatalog, WipeFail, CreateFail,
         ExistsByName, InsertNew, InsertSupplier
<1> QED BY <1>1, <1>2, <1>3, <1>4, <1>5, <1>6

\* A creation that checks and inserts in two statements, next to any number of
\* others, of renamings and deletions, is a creation in one step: the check does
\* not prevent the race ("чтобы не словить гонку", service/supplier.go:47), the
\* unique index does.
THEOREM CreationIsAtomic == Spec => ImplementsRegistry
<1>1. Init => R!Init
  BY DEF Init, SuppliersInit
<1> QED BY <1>1, InitGuarded, SuppliersKeepGuarded, StepIsOfRegistry, PTL
        DEF Spec, ImplementsRegistry, R!Spec

----------------------------------------------------------------------------
(* The choice among the offers of a card *)

\* Every argument by induction below looks at the least counterexample.
LEMMA SmallestNat ==
  ASSUME NEW X \in SUBSET Nat, X # {} PROVE \E n \in X : \A m \in X : n <= m
<1>1. PICK n \in X : \A m \in X : ~(<<m, n>> \in OpToRel(<, Nat))
  BY NatLessThanWellFounded, WFMin
<1>2. \A m \in X : ~(m < n)
  BY <1>1 DEF OpToRel
<1> QED
  BY <1>2

\* The best offer after each turn of the loop.
Turns(offers, t, n, g) ==
  g = [i \in 0..n |-> IF i = 0 THEN 0 ELSE Considered(offers, t, g[i - 1], i)]

LEMMA LoopRuns ==
  ASSUME NEW offers, NEW t, NEW n \in Nat
  PROVE  \E g : Turns(offers, t, n, g)
<1> DEFINE X == {k \in Nat : ~\E g : Turns(offers, t, k, g)}
<1> SUFFICES ASSUME X # {} PROVE FALSE
  OBVIOUS
<1>1. PICK k \in X : \A m \in X : k <= m
  BY SmallestNat
<1>2. k \in Nat /\ ~\E g : Turns(offers, t, k, g)
  OBVIOUS
<1>3. k # 0
  <2> DEFINE g == [i \in 0..0 |-> 0]
  <2>1. Turns(offers, t, 0, g)
    BY DEF Turns
  <2> QED
    BY <1>2, <2>1
<1>4. k - 1 \in Nat /\ k - 1 \notin X
  BY <1>1, <1>2, <1>3
<1>5. PICK g : Turns(offers, t, k - 1, g)
  BY <1>4
<1> DEFINE h == [i \in 0..k |-> IF i < k THEN g[i] ELSE Considered(offers, t, g[k - 1], k)]
<1>6. \A i \in 0..k : h[i] = IF i = 0 THEN 0 ELSE Considered(offers, t, h[i - 1], i)
  <2> TAKE i \in 0..k
  <2>1. \A j \in 0..(k - 1) :
          g[j] = IF j = 0 THEN 0 ELSE Considered(offers, t, g[j - 1], j)
    BY <1>5 DEF Turns
  <2>2. CASE i = k
    BY <1>2, <1>3, <2>2
  <2>3. CASE i < k
    BY <1>2, <2>1, <2>3
  <2> QED
    BY <1>2, <2>2, <2>3
<1>7. Turns(offers, t, k, h)
  BY <1>6 DEF Turns
<1> QED
  BY <1>2, <1>7

LEMMA LoopEnds ==
  ASSUME NEW offers, NEW t, Len(offers) \in Nat
  PROVE  \E g : /\ Turns(offers, t, Len(offers), g)
                /\ CompareByProduct(offers, t) = g[Len(offers)]
<1> DEFINE n == Len(offers)
           g == CHOOSE g : Turns(offers, t, n, g)
<1>1. Turns(offers, t, n, g)
  BY LoopRuns
<1>2. CompareByProduct(offers, t) = g[n]
  BY DEF CompareByProduct, Turns
<1> QED
  BY <1>1, <1>2

\* What CheapestIsBest says of the offers up to n.
BestUpTo(offers, t, n, best) ==
  LET priced == {i \in 1..n : offers[i][t] > 0}
  IN IF priced = {} THEN best = 0
     ELSE /\ best \in priced
          /\ \A i \in priced :
               /\ offers[i].inStock => offers[best].inStock
               /\ offers[i].inStock = offers[best].inStock => offers[best][t] <= offers[i][t]

\* A turn keeps the best of the offers so far, because what beats the best beats
\* what the best beats.
LEMMA TurnKeepsBest ==
  ASSUME NEW offers, NEW t, NEW n \in Nat \ {0}, NEW best,
         \A i \in 1..n : offers[i][t] \in Nat /\ offers[i].inStock \in BOOLEAN,
         BestUpTo(offers, t, n - 1, best)
  PROVE  BestUpTo(offers, t, n, Considered(offers, t, best, n))
<1> DEFINE Priced(m) == {i \in 1..m : offers[i][t] > 0}
<1>1. 1..n = (1..(n - 1)) \cup {n} /\ n \notin 1..(n - 1)
  OBVIOUS
<1>2. CASE offers[n][t] = 0
  <2>1. Priced(n) = Priced(n - 1) /\ Considered(offers, t, best, n) = best
    BY <1>1, <1>2 DEF Considered
  <2> QED
    BY <2>1 DEF BestUpTo
<1>3. CASE offers[n][t] # 0 /\ Priced(n - 1) = {}
  <2>1. Priced(n) = {n} /\ best = 0
    BY <1>1, <1>3 DEF BestUpTo
  <2>2. Considered(offers, t, best, n) = n
    BY <1>3, <2>1 DEF Considered
  <2> QED
    BY <2>1, <2>2 DEF BestUpTo
<1>4. CASE offers[n][t] # 0 /\ Priced(n - 1) # {}
  <2>1. Priced(n) = Priced(n - 1) \cup {n}
    BY <1>1, <1>4
  <2>2. /\ best \in Priced(n - 1)
        /\ \A i \in Priced(n - 1) :
             /\ offers[i].inStock => offers[best].inStock
             /\ offers[i].inStock = offers[best].inStock => offers[best][t] <= offers[i][t]
    BY <1>4 DEF BestUpTo
  <2>3. best # 0 /\ best \in 1..n
    BY <2>2
  <2>4. CASE BetterOffer(offers[n], offers[best], t)
    <3>1. Considered(offers, t, best, n) = n
      BY <1>4, <2>4 DEF Considered
    <3>2. \A i \in Priced(n) :
            /\ offers[i].inStock => offers[n].inStock
            /\ offers[i].inStock = offers[n].inStock => offers[n][t] <= offers[i][t]
      <4> TAKE i \in Priced(n)
      <4>1. CASE i = n
        BY <4>1
      <4>2. CASE i # n
        <5>1. /\ offers[i].inStock => offers[best].inStock
              /\ offers[i].inStock = offers[best].inStock => offers[best][t] <= offers[i][t]
          BY <2>1, <2>2, <4>2
        <5>2. CASE offers[n].inStock # offers[best].inStock
          <6>1. offers[n].inStock
            BY <2>4, <5>2 DEF BetterOffer
          <6> QED
            BY <5>1, <5>2, <6>1
        <5>3. CASE offers[n].inStock = offers[best].inStock
          <6>1. offers[n][t] < offers[best][t]
            BY <2>4, <5>3 DEF BetterOffer
          <6> QED
            BY <2>3, <5>1, <5>3, <6>1
        <5> QED
          BY <5>2, <5>3
      <4> QED
        BY <4>1, <4>2
    <3>3. n \in Priced(n)
      BY <2>1
    <3> QED
      BY <3>1, <3>2, <3>3 DEF BestUpTo
  <2>5. CASE ~BetterOffer(offers[n], offers[best], t)
    <3>1. Considered(offers, t, best, n) = best
      BY <2>3, <2>5 DEF Considered
    <3>2. /\ offers[n].inStock => offers[best].inStock
          /\ offers[n].inStock = offers[best].inStock => offers[best][t] <= offers[n][t]
      <4>1. CASE offers[n].inStock # offers[best].inStock
        <5>1. ~offers[n].inStock
          BY <2>5, <4>1 DEF BetterOffer
        <5> QED
          BY <4>1, <5>1
      <4>2. CASE offers[n].inStock = offers[best].inStock
        <5>1. ~(offers[n][t] < offers[best][t])
          BY <2>5, <4>2 DEF BetterOffer
        <5> QED
          BY <2>3, <4>2, <5>1
      <4> QED
        BY <4>1, <4>2
    <3>3. best \in Priced(n)
      BY <2>1, <2>2
    <3> QED
      BY <2>1, <2>2, <3>1, <3>2, <3>3 DEF BestUpTo
  <2> QED
    BY <2>4, <2>5
<1> QED
  BY <1>2, <1>3, <1>4

LEMMA ComparisonIsBest ==
  ASSUME NEW offers \in Seq(PriceOffer), NEW t \in {"base", "opt", "bulk"}
  PROVE  BestUpTo(offers, t, Len(offers), CompareByProduct(offers, t))
<1> DEFINE n == Len(offers)
<1>1. n \in Nat
  BY LenProperties
<1>2. \A i \in 1..n : offers[i][t] \in Nat /\ offers[i].inStock \in BOOLEAN
  <2> TAKE i \in 1..n
  <2>1. offers[i] \in PriceOffer
    BY ElementOfSeq
  <2> QED
    BY <2>1 DEF PriceOffer
<1>3. PICK g : Turns(offers, t, n, g) /\ CompareByProduct(offers, t) = g[n]
  BY <1>1, LoopEnds
<1> HIDE DEF n
<1>4. \A k \in 0..n : g[k] = IF k = 0 THEN 0 ELSE Considered(offers, t, g[k - 1], k)
  BY <1>3 DEF Turns
<1> DEFINE X == {k \in 0..n : ~BestUpTo(offers, t, k, g[k])}
<1>5. X = {}
  <2> SUFFICES ASSUME X # {} PROVE FALSE
    OBVIOUS
  <2>1. X \in SUBSET Nat
    OBVIOUS
  <2>2. PICK k \in X : \A m \in X : k <= m
    BY <2>1, SmallestNat
  <2>3. k \in 0..n /\ ~BestUpTo(offers, t, k, g[k])
    OBVIOUS
  <2>4. k # 0
    <3>1. BestUpTo(offers, t, 0, 0)
      BY DEF BestUpTo
    <3>2. k = 0 => g[k] = 0
      BY <1>4, <2>3
    <3> QED
      BY <2>3, <3>1, <3>2
  <2>5. k \in Nat \ {0} /\ k - 1 \in 0..n /\ k - 1 \notin X
    BY <1>1, <2>1, <2>2, <2>3, <2>4
  <2>6. BestUpTo(offers, t, k - 1, g[k - 1])
    BY <2>5
  <2>7. \A i \in 1..k : i \in 1..n
    BY <1>1, <2>3
  <2>8. \A i \in 1..k : offers[i][t] \in Nat /\ offers[i].inStock \in BOOLEAN
    BY <1>2, <2>7
  <2>9. g[k] = Considered(offers, t, g[k - 1], k)
    BY <1>4, <2>3, <2>4
  <2>10. BestUpTo(offers, t, k, Considered(offers, t, g[k - 1], k))
    BY <2>5, <2>6, <2>8, TurnKeepsBest
  <2> QED
    BY <2>3, <2>9, <2>10
<1>6. n \in 0..n
  BY <1>1
<1>7. BestUpTo(offers, t, n, g[n])
  BY <1>5, <1>6
<1> QED
  BY <1>3, <1>7 DEF n

----------------------------------------------------------------------------
(* What is stored of the price lists *)

ListsTyped ==
  /\ begun \in 0..MaxBatches
  /\ DOMAIN batch = Batches
  /\ \A b \in Batches : batch[b] # None =>
       /\ batch[b].supplier \in Suppliers
       /\ batch[b].rows \in PriceLists
       /\ batch[b] \in [supplier : Suppliers, rows : PriceLists, open : BOOLEAN]

LEMMA InitListsTyped == Init => ListsTyped
BY PricesAssumption DEF PricesAssumption, Init, ListsTyped

LEMMA StepListsTyped == ASSUME ListsTyped, [Next]_vars PROVE ListsTyped'
<1> DEFINE Stored == [supplier : Suppliers, rows : PriceLists, open : BOOLEAN]
<1>1. ASSUME begun' \in 0..MaxBatches, DOMAIN batch' = Batches,
             \A b \in Batches : batch'[b] # None => batch'[b] \in Stored
      PROVE  ListsTyped'
  BY <1>1 DEF ListsTyped
<1>2. CASE UNCHANGED <<begun, batch>>
  BY <1>2 DEF ListsTyped
<1>3. ASSUME NEW s \in Suppliers, NEW rows \in PriceLists, ProcessBegin(s, rows)
      PROVE  ListsTyped'
  <2>1. begun + 1 \in Batches /\ begun' = begun + 1 /\ begun' \in 0..MaxBatches
    BY <1>3, PricesAssumption DEF PricesAssumption, ProcessBegin, ListsTyped, Batches
  <2> DEFINE new == [supplier |-> s, rows |-> rows, open |-> TRUE]
  <2>2. new \in Stored /\ batch' = [batch EXCEPT ![begun + 1] = new]
    BY <1>3 DEF ProcessBegin
  <2> HIDE DEF new
  <2> QED
    BY <1>1, <2>1, <2>2 DEF ListsTyped
<1>4. ASSUME NEW b \in Batches, ProcessCommit(b) PROVE ListsTyped'
  <2> DEFINE new == [batch[b] EXCEPT !.open = FALSE]
  <2>1. new \in Stored
    BY <1>4 DEF ProcessCommit, ListsTyped
  <2>2. batch' = [batch EXCEPT ![b] = new] /\ begun' = begun
    BY <1>4 DEF ProcessCommit, ListsTyped
  <2> HIDE DEF new
  <2> QED
    BY <1>1, <2>1, <2>2 DEF ListsTyped
<1>5. ASSUME NEW b \in Batches, ProcessFail(b) PROVE ListsTyped'
  BY <1>1, <1>5 DEF ProcessFail, ListsTyped
<1>6. CASE WipeImports
  BY <1>1, <1>6 DEF WipeImports, ListsTyped
<1> QED
  BY <1>2, <1>3, <1>4, <1>5, <1>6
  DEF Next, vars, SupplierStep, importVars, ConfirmMatch, Unmatch, DeleteProduct,
      WipeCatalog, WipeFail

\* A row that a query sees has a supplier and prices.
LEMMA RowsSeen ==
  ASSUME ListsTyped, NEW o \in Rows, Visible(o)
  PROVE  SupplierOf(o) \in Suppliers /\ Offer(o) \in PriceOffer /\ o[1] \in Nat
<1>1. o[1] \in Batches /\ batch[o[1]] # None
  BY DEF Rows, Visible
<1>2. SupplierOf(o) \in Suppliers /\ batch[o[1]].rows \in PriceLists
  BY <1>1 DEF ListsTyped, SupplierOf
<1>3. batch[o[1]].rows \in Seq(PriceOffer)
  BY <1>2, PricesAssumption DEF PricesAssumption
<1>4. o[2] \in DOMAIN batch[o[1]].rows
  BY DEF Visible
<1>5. batch[o[1]].rows[o[2]] \in PriceOffer
  BY <1>3, <1>4, ElementOfSeq
<1> QED
  BY <1>1, <1>2, <1>5 DEF Offer, Batches

----------------------------------------------------------------------------
(* ORDER BY supplier_id *)

LEMMA SupplierSets ==
  ASSUME NEW ids \in SUBSET Suppliers
  PROVE  IsFiniteSet(ids) /\ Cardinality(ids) \in Nat
BY PricesAssumption, FS_Subset, FS_CardinalityType DEF PricesAssumption

UpTo(s, ids) == {r \in ids : SupplierNum[r] <= SupplierNum[s]}

LEMMA PlacesAreNumbers ==
  ASSUME NEW ids \in SUBSET Suppliers, NEW s \in ids
  PROVE  PlaceOf(s, ids) = Cardinality(UpTo(s, ids)) /\ PlaceOf(s, ids) \in 1..Cardinality(ids)
<1>1. PlaceOf(s, ids) = Cardinality(UpTo(s, ids))
  BY DEF PlaceOf, UpTo
<1>2. s \in UpTo(s, ids)
  BY PricesAssumption DEF PricesAssumption, UpTo
<1>3. IsFiniteSet(ids) /\ Cardinality(ids) \in Nat /\ UpTo(s, ids) \in SUBSET ids
  BY SupplierSets DEF UpTo
<1>4. IsFiniteSet(UpTo(s, ids)) /\ Cardinality(UpTo(s, ids)) <= Cardinality(ids)
  BY <1>3, FS_Subset
<1>5. Cardinality(UpTo(s, ids)) \in Nat /\ Cardinality(UpTo(s, ids)) # 0
  BY <1>2, <1>4, FS_CardinalityType, FS_EmptySet
<1> QED
  BY <1>1, <1>3, <1>4, <1>5

LEMMA PlacesDiffer ==
  ASSUME NEW ids \in SUBSET Suppliers, NEW r \in ids, NEW s \in ids, r # s
  PROVE  PlaceOf(r, ids) # PlaceOf(s, ids)
<1>1. /\ \A x \in ids : SupplierNum[x] \in Nat
      /\ \A x, y \in ids : SupplierNum[x] = SupplierNum[y] => x = y
  BY PricesAssumption DEF PricesAssumption
<1>2. ASSUME NEW x \in ids, NEW y \in ids, SupplierNum[x] < SupplierNum[y]
      PROVE  PlaceOf(x, ids) # PlaceOf(y, ids)
  <2>1. UpTo(x, ids) \in SUBSET UpTo(y, ids) /\ y \in UpTo(y, ids) /\ y \notin UpTo(x, ids)
    BY <1>1, <1>2 DEF UpTo
  <2>2. IsFiniteSet(UpTo(y, ids))
    BY SupplierSets, FS_Subset DEF UpTo
  <2>3. Cardinality(UpTo(x, ids)) # Cardinality(UpTo(y, ids))
    BY <2>1, <2>2, FS_Subset
  <2> QED
    BY <2>3, PlacesAreNumbers
<1>3. SupplierNum[r] < SupplierNum[s] \/ SupplierNum[s] < SupplierNum[r]
  BY <1>1
<1> QED
  BY <1>2, <1>3

\* Each of n suppliers has a place of its own, so each of the n places has one.
LEMMA PlacesAreTaken ==
  ASSUME NEW ids \in SUBSET Suppliers, NEW n \in 1..Cardinality(ids)
  PROVE  \E s \in ids : PlaceOf(s, ids) = n
<1> DEFINE m == Cardinality(ids)
           T == (1..m) \ {n}
           f == [s \in ids |-> PlaceOf(s, ids)]
<1> SUFFICES ASSUME \A s \in ids : PlaceOf(s, ids) # n PROVE FALSE
  OBVIOUS
<1>1. IsFiniteSet(ids) /\ m \in Nat
  BY SupplierSets
<1>2. f \in [ids -> T]
  BY PlacesAreNumbers
<1>3. \A r, s \in ids : r # s => f[r] # f[s]
  BY PlacesDiffer
<1> HIDE DEF f, m
<1>4. IsFiniteSet(1..m) /\ Cardinality(1..m) = m
  <2>1. IsFiniteSet(1..m) /\ Cardinality(1..m) = IF 1 > m THEN 0 ELSE m - 1 + 1
    BY <1>1, FS_Interval
  <2> QED
    BY <1>1, <2>1
<1>5. n \in 1..m
  BY DEF m
<1>6. IsFiniteSet(T) /\ Cardinality(T) = m - 1
  <2>1. /\ IsFiniteSet((1..m) \ {n})
        /\ Cardinality((1..m) \ {n})
             = IF n \in 1..m THEN Cardinality(1..m) - 1 ELSE Cardinality(1..m)
    BY <1>4, FS_RemoveElement
  <2> QED
    BY <1>4, <1>5, <2>1
<1> HIDE DEF T
<1>7. Cardinality(T) < Cardinality(ids)
  BY <1>1, <1>6 DEF m
<1>8. \E r, s \in ids : r # s /\ f[r] = f[s]
  BY <1>1, <1>2, <1>6, <1>7, FS_PigeonHole
<1> QED
  BY <1>3, <1>8

LEMMA OrderHasAll ==
  ASSUME NEW ids \in SUBSET Suppliers
  PROVE  /\ DOMAIN InOrder(ids) = 1..Cardinality(ids) /\ Cardinality(ids) \in Nat
         /\ \A n \in 1..Cardinality(ids) : InOrder(ids)[n] \in ids
         /\ \A s \in ids : \E n \in 1..Cardinality(ids) : InOrder(ids)[n] = s
<1> DEFINE m == Cardinality(ids)
           At(n) == CHOOSE s \in ids : PlaceOf(s, ids) = n
<1>1. m \in Nat
  BY SupplierSets
<1>2. InOrder(ids) = [n \in 1..m |-> At(n)]
  BY DEF InOrder
<1>3. \A n \in 1..m : At(n) \in ids /\ PlaceOf(At(n), ids) = n
  BY PlacesAreTaken
<1> HIDE DEF At
<1>4. \A s \in ids : PlaceOf(s, ids) \in 1..m /\ At(PlaceOf(s, ids)) = s
  BY <1>3, PlacesAreNumbers, PlacesDiffer
<1> QED
  BY <1>1, <1>2, <1>3, <1>4

----------------------------------------------------------------------------
(* The two queries *)

\* The offers that are listed for one choice of a row per supplier.
ListOf(f) == [n \in DOMAIN InOrder(DOMAIN f) |-> Offer(f[InOrder(DOMAIN f)[n]])]
Named(p) == {o \in MatchedRows(p) : name[SupplierOf(o)] # None}

LEMMA ListsAreOfRows ==
  ASSUME ListsTyped, NEW p, NEW rows \in SUBSET MatchedRows(p), NEW f \in DistinctOn(rows)
  PROVE  /\ DOMAIN f = {SupplierOf(o) : o \in rows} /\ DOMAIN f \in SUBSET Suppliers
         /\ \A s \in DOMAIN f : f[s] \in rows /\ SupplierOf(f[s]) = s
         /\ \A s \in DOMAIN f : Offer(f[s]) \in PriceOffer
<1>1. \A o \in rows : /\ o \in Rows /\ Visible(o)
  BY DEF MatchedRows
<1>2. \A o \in rows : SupplierOf(o) \in Suppliers /\ Offer(o) \in PriceOffer
  BY <1>1, RowsSeen
<1>3. f \in [{SupplierOf(o) : o \in rows} -> rows] /\ \A s \in DOMAIN f : SupplierOf(f[s]) = s
  BY DEF DistinctOn
<1> QED
  BY <1>2, <1>3

LEMMA ListsHaveAll ==
  ASSUME ListsTyped, NEW p, NEW rows \in SUBSET MatchedRows(p), NEW f \in DistinctOn(rows)
  PROVE  /\ ListOf(f) \in Seq(PriceOffer) /\ Len(ListOf(f)) = Cardinality(DOMAIN f)
         /\ {ListOf(f)[n] : n \in DOMAIN ListOf(f)} = {Offer(f[s]) : s \in DOMAIN f}
<1> DEFINE ids == DOMAIN f
           m == Cardinality(ids)
<1>1. ids \in SUBSET Suppliers /\ \A s \in ids : Offer(f[s]) \in PriceOffer
  BY ListsAreOfRows
<1>2. /\ DOMAIN InOrder(ids) = 1..m /\ m \in Nat
      /\ \A n \in 1..m : InOrder(ids)[n] \in ids
      /\ \A s \in ids : \E n \in 1..m : InOrder(ids)[n] = s
  BY <1>1, OrderHasAll
<1>3. ListOf(f) = [n \in 1..m |-> Offer(f[InOrder(ids)[n]])]
  BY <1>2 DEF ListOf
<1> HIDE DEF m, ids
<1>4. ListOf(f) \in [1..m -> PriceOffer]
  BY <1>1, <1>2, <1>3
<1>5. ListOf(f) \in Seq(PriceOffer) /\ Len(ListOf(f)) = m
  BY <1>2, <1>4, SeqDef, LenProperties
<1>6. {ListOf(f)[n] : n \in DOMAIN ListOf(f)} = {Offer(f[s]) : s \in ids}
  BY <1>2, <1>3
<1> QED
  BY <1>5, <1>6 DEF m, ids

LEMMA OffersAreLists ==
  ASSUME NEW p, NEW offers \in OffersByProduct(p)
  PROVE  \E f \in DistinctOn(Named(p)) : offers = ListOf(f)
BY DEF OffersByProduct, Named, ListOf

LEMMA ComparisonsAreBest == ASSUME ListsTyped PROVE CheapestIsBest
<1> SUFFICES ASSUME NEW p \in Products, NEW offers \in OffersByProduct(p), NEW t \in Page!Tiers
             PROVE  LET best == CompareByProduct(offers, t)
                        priced == {i \in DOMAIN offers : offers[i][t] > 0}
                    IN IF priced = {} THEN best = 0
                       ELSE /\ best \in priced
                            /\ \A i \in priced :
                                 /\ offers[i].inStock => offers[best].inStock
                                 /\ offers[i].inStock = offers[best].inStock
                                      => offers[best][t] <= offers[i][t]
  BY DEF CheapestIsBest
<1>1. PICK f \in DistinctOn(Named(p)) : offers = ListOf(f)
  BY OffersAreLists
<1>2. offers \in Seq(PriceOffer)
  BY <1>1, ListsHaveAll DEF Named
<1>3. DOMAIN offers = 1..Len(offers)
  BY <1>2, LenProperties
<1>4. t \in {"base", "opt", "bulk"}
  BY DEF Page!Tiers
<1>5. BestUpTo(offers, t, Len(offers), CompareByProduct(offers, t))
  BY <1>2, <1>4, ComparisonIsBest
<1> QED
  BY <1>3, <1>5 DEF BestUpTo

\* With one row of a card per list, the newest list of a supplier leaves no choice.
LEMMA OneChoice ==
  ASSUME ListsTyped, NEW p, NEW f \in DistinctOn(MatchedRows(p)),
         NEW g \in DistinctOn(MatchedRows(p)),
         \A o, q \in MatchedRows(p) : o[1] = q[1] => o = q
  PROVE  DOMAIN f = DOMAIN g /\ \A s \in DOMAIN f : f[s] = g[s]
<1>1. /\ DOMAIN f = DOMAIN g
      /\ \A s \in DOMAIN f : /\ f[s] \in MatchedRows(p) /\ SupplierOf(f[s]) = s
                             /\ g[s] \in MatchedRows(p) /\ SupplierOf(g[s]) = s
  BY ListsAreOfRows
<1> SUFFICES ASSUME NEW s \in DOMAIN f PROVE f[s] = g[s]
  BY <1>1
<1>2. f[s][1] <= g[s][1] /\ g[s][1] <= f[s][1]
  BY <1>1 DEF DistinctOn
<1>3. f[s][1] \in Nat /\ g[s][1] \in Nat
  <2>1. \A o \in MatchedRows(p) : o \in Rows /\ Visible(o)
    BY DEF MatchedRows
  <2> QED
    BY <1>1, <2>1, RowsSeen
<1>4. f[s][1] = g[s][1]
  BY <1>2, <1>3
<1> QED
  BY <1>1, <1>4

\* A supplier's row is of no other supplier: count(*) counts suppliers.
LEMMA RowsCountSuppliers ==
  ASSUME ListsTyped, NEW p, NEW g \in DistinctOn(MatchedRows(p))
  PROVE  Cardinality({g[s] : s \in DOMAIN g}) = Cardinality(DOMAIN g)
<1> DEFINE D == DOMAIN g
           T == {g[s] : s \in D}
           to == [s \in D |-> g[s]]
           fro == [o \in T |-> SupplierOf(o)]
<1>1. D \in SUBSET Suppliers /\ \A s \in D : SupplierOf(g[s]) = s
  BY ListsAreOfRows
<1>2. IsFiniteSet(D)
  BY <1>1, SupplierSets
<1>3. to \in [D -> T] /\ \A o \in T : \E s \in D : to[s] = o
  OBVIOUS
<1>4. to \in Surjection(D, T)
  BY <1>3 DEF Surjection
<1>5. fro \in [T -> D] /\ \A s \in D : \E o \in T : fro[o] = s
  BY <1>1
<1>6. fro \in Surjection(T, D)
  BY <1>5 DEF Surjection
<1> HIDE DEF D, T, to, fro
<1>7. IsFiniteSet(T) /\ Cardinality(T) <= Cardinality(D)
  BY <1>2, <1>4, FS_Surjection
<1>8. Cardinality(D) <= Cardinality(T)
  BY <1>6, <1>7, FS_Surjection
<1>9. Cardinality(T) \in Nat /\ Cardinality(D) \in Nat
  BY <1>2, <1>7, FS_CardinalityType
<1>10. Cardinality(T) = Cardinality(D)
  BY <1>7, <1>8, <1>9
<1> QED
  BY <1>10 DEF T, D

LEMMA QueriesAgree == ASSUME ListsTyped PROVE SummaryAgrees
<1> SUFFICES ASSUME NEW p \in Products,
                    \A o \in MatchedRows(p) : name[SupplierOf(o)] # None,
                    \A o, q \in MatchedRows(p) : o[1] = q[1] => o = q,
                    NEW offers \in OffersByProduct(p), NEW sum \in MinByProducts(p)
             PROVE  /\ sum.minPrice = Page!MinBase(offers)
                    /\ sum.supplierCount = Len(offers)
  BY DEF SummaryAgrees
<1>1. Named(p) = MatchedRows(p)
  BY DEF Named
<1>2. PICK f \in DistinctOn(MatchedRows(p)) : offers = ListOf(f)
  BY <1>1, OffersAreLists
<1>3. PICK g \in DistinctOn(MatchedRows(p)) : sum = Summary({g[s] : s \in DOMAIN g})
  BY DEF MinByProducts
<1>4. DOMAIN f = DOMAIN g /\ \A s \in DOMAIN f : f[s] = g[s]
  BY OneChoice
<1>5. /\ offers \in Seq(PriceOffer) /\ Len(offers) = Cardinality(DOMAIN f)
      /\ {offers[n] : n \in DOMAIN offers} = {Offer(f[s]) : s \in DOMAIN f}
  <2>1. MatchedRows(p) \in SUBSET MatchedRows(p)
    OBVIOUS
  <2>2. /\ ListOf(f) \in Seq(PriceOffer) /\ Len(ListOf(f)) = Cardinality(DOMAIN f)
        /\ {ListOf(f)[n] : n \in DOMAIN ListOf(f)} = {Offer(f[s]) : s \in DOMAIN f}
    BY <2>1, ListsHaveAll, Zenon
  <2> QED
    BY <1>2, <2>2, Zenon
<1>6. sum.supplierCount = Len(offers)
  <2>1. sum.supplierCount = Cardinality({g[s] : s \in DOMAIN g})
    BY <1>3 DEF Summary
  <2> QED
    BY <1>4, <1>5, <2>1, RowsCountSuppliers
<1>7. sum.minPrice = Page!MinBase(offers)
  <2> DEFINE prices == {Offer(o).base : o \in {g[s] : s \in DOMAIN g}}
  <2>1. sum.minPrice = Lowest(prices)
    BY <1>3 DEF Summary
  <2>2. prices = {Offer(f[s]).base : s \in DOMAIN f}
    BY <1>4
  <2>3. {offers[n]["base"] : n \in DOMAIN offers} = {Offer(f[s]).base : s \in DOMAIN f}
    BY <1>5
  <2> HIDE DEF prices
  <2>4. Page!BasePrices(offers) = prices \ {0}
    BY <2>2, <2>3 DEF Page!BasePrices
  <2>5. Page!MinBase(offers) = Lowest(prices)
    BY <2>4 DEF Page!MinBase, Lowest
  <2> QED
    BY <2>1, <2>5
<1> QED
  BY <1>6, <1>7

\* The comparison of a card's offers picks one that none beats, for any price
\* lists, matches and suppliers, however the lists were replaced.
THEOREM ComparisonPicksBest == Spec => []CheapestIsBest
<1>1. ListsTyped => CheapestIsBest
  BY ComparisonsAreBest
<1> QED
  BY <1>1, InitListsTyped, StepListsTyped, PTL DEF Spec

\* The showcase and the page of a card, which ask two different queries, show the
\* same lowest price and the same number of suppliers.
THEOREM ShowcaseAgreesWithPage == Spec => []SummaryAgrees
<1>1. ListsTyped => SummaryAgrees
  BY QueriesAgree
<1> QED
  BY <1>1, InitListsTyped, StepListsTyped, PTL DEF Spec
=============================================================================
