---------------------------- MODULE CategoryTree ----------------------------
(* What the portal makes of the list of categories (web/lib/catalog.ts): the *)
(* tree with its counters, the list for the selects, the path above a card.  *)
(* The children of a category are taken in some order.                       *)
EXTENDS Naturals, FiniteSets, SequencesExt

CONSTANTS Nodes, None, NoRow, Goods
VARIABLES parent, category

Listed == {n \in Nodes : parent[n] # NoRow}
Children(n) == {d \in Listed : parent[d] = n}
\* A category whose parent is not listed becomes a root.
Roots == {n \in Listed : parent[n] \notin Listed}
Own(n) == Cardinality({g \in Goods : category[g] = n})

\* As a slip: the children's own counters are added, not their totals.
TotalOfChildren ==
  LET own == [n \in Nodes |-> Own(n)]
  IN [n \in Nodes |-> own[n] + SumFunctionOnSet(own, Children(n))]
Total ==
  LET total[n \in Nodes] == Own(n) + SumFunctionOnSet(total, Children(n)) IN total
\* The counter of "Все товары".
TotalAll ==
  SumFunctionOnSet(Total, Roots)
    + Cardinality({g \in Goods : category[g] = None})

\* As a slip: the depth is not passed on.
FlatWithoutDepth ==
  LET below[n \in Nodes] ==
        [d \in Nat |-> <<[id |-> n, depth |-> 0]>>
                        \o FlattenSeq([i \in 1..Cardinality(Children(n)) |->
                                         below[SetToSeq(Children(n))[i]][d + 1]])]
  IN FlattenSeq([i \in 1..Cardinality(Roots) |-> below[SetToSeq(Roots)[i]][0]])
Flat ==
  LET below[n \in Nodes] ==
        [d \in Nat |-> <<[id |-> n, depth |-> d]>>
                        \o FlattenSeq([i \in 1..Cardinality(Children(n)) |->
                                         below[SetToSeq(Children(n))[i]][d + 1]])]
  IN FlattenSeq([i \in 1..Cardinality(Roots) |-> below[SetToSeq(Roots)[i]][0]])

Path ==
  LET up[n \in Nodes] ==
        Append(IF parent[n] \in Listed THEN up[parent[n]] ELSE <<>>, n)
  IN up
=============================================================================
