------------------------------ MODULE MCPrices ------------------------------
(* Instances of Prices: price lists of one row and of two. *)
EXTENDS Prices, TLC
CONSTANTS s1, s2

\* Which request and which name it is makes no difference.
Symmetry == Permutations(Creators) \cup Permutations(Names)

MCSupplierNum == s1 :> 1 @@ s2 :> 2
Row(b, o, u, k) == [base |-> b, opt |-> o, bulk |-> u, inStock |-> k]
MCPriceLists ==
  {<<Row(0, 1, 0, TRUE)>>, <<Row(1, 2, 2, FALSE), Row(3, 1, 0, TRUE)>>}
=============================================================================
