------------------------------ MODULE MCPortal ------------------------------
(* Instances of Portal: two cards, two batches of one row, two suppliers of  *)
(* which one sends files, and filters of two values in each field.           *)
EXTENDS Portal, TLC
CONSTANTS b1, b2, o1, o2, p1, p2, i1, i2, q0, q1, r0, r1, v0, v1

MCOfferBatch == o1 :> b1 @@ o2 :> b2
MCRanking == o1 :> <<p1>> @@ o2 :> <<>>
MCPhotos == p1 :> <<i1, i2>> @@ p2 :> <<>>
MCOnePhoto == p1 :> <<i1>> @@ p2 :> <<>>

Offer(b, o, k) == [base |-> b, opt |-> o, bulk |-> k]
MCPriceOffers == p1 :> <<Offer(0, 5, 0), Offer(7, 0, 0), Offer(6, 5, 0)>> @@ p2 :> <<>>

MCListing ==
  [f \in [query : {q0}, price : {r0, r1}, choice : {v0, v1}] |->
     IF f.price = NoPrice /\ f.choice = Usual THEN <<p1, p2>> ELSE <<p1>>]
MCTotal == q0 :> 2 @@ q1 :> 1
=============================================================================
