---------------------------- MODULE MCMatching -----------------------------
(* Instances of Matching for TLC: a price list of three rows, or of two.    *)
EXTENDS Matching, TLC

CONSTANTS o1, o2, o3, n1, n2, n3, a1

MCRowNum == o1 :> 1 @@ o2 :> 2 @@ o3 :> 3
MCRowNum2 == o1 :> 1 @@ o2 :> 2

\* The first two rows are of the same name, and the last two of one article.
MCOfferName == o1 :> n1 @@ o2 :> n1 @@ o3 :> n2
MCOfferArticle == o1 :> None @@ o2 :> a1 @@ o3 :> a1

\* Two rows that have nothing in common; only the second one has an article.
MCOfferName2 == o1 :> n1 @@ o2 :> n2
MCOfferArticle2 == o1 :> None @@ o2 :> a1

\* n1 and n3 are spelt almost alike; n2 is half like n3 and unlike n1.
MCHigh == {<<n, n>> : n \in Names} \cup {<<n1, n3>>, <<n3, n1>>}
MCGray == {<<n2, n3>>, <<n3, n2>>}
\* The two names of the second list, half alike as well.
MCGray2 == {<<n2, n3>>, <<n3, n2>>, <<n1, n2>>, <<n2, n1>>}
=============================================================================
