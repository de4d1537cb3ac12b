-------------------------- MODULE CategoriesProofs --------------------------
(* What holds of the categories for any number of them: no reference is left *)
(* behind, a choice made by hand is kept, and, as long as one request moves  *)
(* at a time, the categories are the forest of module Forest.                *)
EXTENDS Categories, FiniteSetTheorems, SequenceTheorems,
        WellFoundedInduction, TLAPS

Parents == [Nodes -> Nodes \cup {None, NoRow}]
Rows(f) == {d \in Nodes : f[d] # NoRow}

\* A set with every child of its members, and the categories under some root.
ClosedIn(f, s) == \A e \in Rows(f) : f[e] \in s => e \in s
UnderRoots(f) == {d \in Rows(f) : \E r \in Rows(f) : f[r] = None /\ d \in F!Below(f, r)}

-----------------------------------------------------------------------------
(* The recursive query: the smallest set closed under children.              *)

\* The query finds rows, the category itself if it has one, and all children.
LEMMA BelowCollects ==
  ASSUME NEW f, NEW c \in Nodes
  PROVE  /\ F!Below(f, c) \subseteq Rows(f)
         /\ c \in Rows(f) => c \in F!Below(f, c)
         /\ ClosedIn(f, F!Below(f, c))
<1>1. F!Below(f, c) \subseteq Rows(f) /\ (c \in Rows(f) => c \in F!Below(f, c))
  BY DEF Rows, F!Below
<1>2. ASSUME NEW e \in Rows(f), f[e] \in F!Below(f, c)
      PROVE  e \in F!Below(f, c)
  <2>1. ASSUME NEW s \in SUBSET Nodes, c \in s, \A d \in Rows(f) : f[d] \in s => d \in s
        PROVE  e \in s
    <3>1. f[e] \in s
      BY <1>2, <2>1 DEF Rows, F!Below
    <3> QED
      BY <1>2, <2>1, <3>1
  <2> QED
    BY <1>2, <2>1 DEF Rows, F!Below
<1> QED
  BY <1>1, <1>2 DEF ClosedIn

\* It finds nothing else.
LEMMA BelowLeast ==
  ASSUME NEW f, NEW c \in Nodes, NEW s \in SUBSET Nodes, c \in s, ClosedIn(f, s)
  PROVE  F!Below(f, c) \subseteq s
BY DEF F!Below, ClosedIn, Rows

\* The categories under roots are closed under children and hold the roots.
LEMMA UnderRootsCollects ==
  ASSUME NEW f
  PROVE  /\ \A r \in Rows(f) : f[r] = None => r \in UnderRoots(f)
         /\ ClosedIn(f, UnderRoots(f))
<1>1. ASSUME NEW r \in Rows(f), f[r] = None
      PROVE  r \in UnderRoots(f)
  <2>1. r \in Nodes
    BY DEF Rows
  <2> QED
    BY <1>1, <2>1, BelowCollects DEF UnderRoots
<1>2. ASSUME NEW e \in Rows(f), f[e] \in UnderRoots(f)
      PROVE  e \in UnderRoots(f)
  <2>1. PICK r \in Rows(f) : f[r] = None /\ f[e] \in F!Below(f, r)
    BY <1>2 DEF UnderRoots
  <2>2. ClosedIn(f, F!Below(f, r))
    BY BelowCollects DEF Rows
  <2>3. e \in F!Below(f, r)
    BY <2>1, <2>2, <1>2 DEF ClosedIn
  <2> QED
    BY <2>1, <2>3, <1>2 DEF UnderRoots
<1> QED
  BY <1>1, <1>2 DEF ClosedIn

\* They are in every such set.
LEMMA UnderRootsLeast ==
  ASSUME NEW f, NEW s \in SUBSET Nodes, ClosedIn(f, s),
         \A r \in Rows(f) : f[r] = None => r \in s
  PROVE  UnderRoots(f) \subseteq s
<1> SUFFICES ASSUME NEW d \in UnderRoots(f) PROVE d \in s
  OBVIOUS
<1>1. PICK r \in Rows(f) : f[r] = None /\ d \in F!Below(f, r)
  BY DEF UnderRoots
<1>2. r \in Nodes /\ r \in s
  BY <1>1 DEF Rows
<1> QED
  BY <1>1, <1>2, BelowLeast

-----------------------------------------------------------------------------
(* What a step on the parents does to the categories under roots.            *)

Rooted(f) == Rows(f) \subseteq UnderRoots(f)

\* A new row under a row or at the top.
LEMMA RootedGrow ==
  ASSUME NEW f \in Parents, Rooted(f), NEW c \in Nodes, c \notin Rows(f),
         NEW p \in Rows(f) \cup {None}
  PROVE  Rooted([f EXCEPT ![c] = p])
<1> DEFINE g == [f EXCEPT ![c] = p]
<1>1. /\ Rows(g) = Rows(f) \cup {c}
      /\ \A e \in Rows(f) : e # c /\ g[e] = f[e]
      /\ g[c] = p
  BY CategoriesAssumption DEF Parents, Rows
<1> HIDE DEF g
<1>2. \A e \in Rows(f) : f[e] \in UnderRoots(g) => e \in UnderRoots(g)
  BY <1>1, UnderRootsCollects DEF ClosedIn
<1>3. \A r \in Rows(f) : f[r] = None => r \in UnderRoots(g)
  BY <1>1, UnderRootsCollects
<1>4. UnderRoots(g) \in SUBSET Nodes
  BY DEF UnderRoots, Rows
<1>5. UnderRoots(f) \subseteq UnderRoots(g)
  BY <1>2, <1>3, <1>4, UnderRootsLeast DEF ClosedIn
<1>6. c \in UnderRoots(g)
  <2>1. CASE p = None
    BY <2>1, <1>1, UnderRootsCollects
  <2>2. CASE p \in Rows(f)
    <3>1. g[c] \in UnderRoots(g) /\ c \in Rows(g)
      BY <2>2, <1>1, <1>5 DEF Rooted
    <3> QED
      BY <3>1, UnderRootsCollects DEF ClosedIn
  <2> QED
    BY <2>1, <2>2
<1>7. Rooted(g)
  BY <1>1, <1>5, <1>6 DEF Rooted
<1> QED
  BY <1>7 DEF g

\* A row moved to the top or under a row that is not below it.
LEMMA RootedMove ==
  ASSUME NEW f \in Parents, Rooted(f), NEW c \in Rows(f),
         NEW p \in (Rows(f) \ F!Below(f, c)) \cup {None}
  PROVE  Rooted([f EXCEPT ![c] = p])
<1> DEFINE g == [f EXCEPT ![c] = p]
<1>1. /\ c \in Nodes
      /\ Rows(g) = Rows(f)
      /\ \A e \in Rows(f) : e # c => g[e] = f[e]
      /\ g[c] = p
  BY CategoriesAssumption DEF Parents, Rows
<1> HIDE DEF g
<1> DEFINE s == UnderRoots(g) \cup F!Below(f, c)
<1>2. c \in F!Below(f, c) /\ ClosedIn(f, F!Below(f, c)) /\ F!Below(f, c) \subseteq Nodes
  BY <1>1, BelowCollects DEF Rows
<1>3. UnderRoots(g) \in SUBSET Nodes /\ s \in SUBSET Nodes
  BY <1>2 DEF UnderRoots, Rows
\* The rows that were not below the moved one are still under a root.
<1>4. Rows(f) \subseteq s
  <2>1. \A r \in Rows(f) : f[r] = None => r \in s
    BY <1>1, <1>2, UnderRootsCollects
  <2>2. ClosedIn(f, s)
    <3> SUFFICES ASSUME NEW e \in Rows(f), f[e] \in s PROVE e \in s
      BY DEF ClosedIn
    <3>1. CASE e = c \/ f[e] \in F!Below(f, c)
      BY <3>1, <1>2 DEF ClosedIn
    <3>2. CASE e # c /\ f[e] \in UnderRoots(g)
      <4>1. g[e] \in UnderRoots(g) /\ e \in Rows(g)
        BY <3>2, <1>1
      <4> QED
        BY <4>1, UnderRootsCollects DEF ClosedIn
    <3> QED
      BY <3>1, <3>2
  <2> HIDE DEF s
  <2>3. UnderRoots(f) \subseteq s
    BY <2>1, <2>2, <1>3, UnderRootsLeast
  <2> QED
    BY <2>3 DEF Rooted
\* So is the new parent, hence the moved row, hence what is below it.
<1>5. c \in UnderRoots(g)
  <2>1. CASE p = None
    BY <2>1, <1>1, UnderRootsCollects
  <2>2. CASE p \in Rows(f) \ F!Below(f, c)
    <3>1. g[c] \in UnderRoots(g) /\ c \in Rows(g)
      BY <2>2, <1>1, <1>4
    <3> QED
      BY <3>1, UnderRootsCollects DEF ClosedIn
  <2> QED
    BY <2>1, <2>2
<1>6. ClosedIn(f, UnderRoots(g))
  <2> SUFFICES ASSUME NEW e \in Rows(f), f[e] \in UnderRoots(g) PROVE e \in UnderRoots(g)
    BY DEF ClosedIn
  <2>1. CASE e = c
    BY <2>1, <1>5
  <2>2. CASE e # c
    <3>1. g[e] \in UnderRoots(g) /\ e \in Rows(g)
      BY <2>2, <1>1
    <3> QED
      BY <3>1, UnderRootsCollects DEF ClosedIn
  <2> QED
    BY <2>1, <2>2
<1>7. F!Below(f, c) \subseteq UnderRoots(g)
  BY <1>1, <1>3, <1>5, <1>6, BelowLeast
<1>8. Rooted(g)
  BY <1>1, <1>4, <1>7 DEF Rooted
<1> QED
  BY <1>8 DEF g

\* A row removed with everything below it.
LEMMA RootedPrune ==
  ASSUME NEW f \in Parents, Rooted(f), NEW c \in Rows(f)
  PROVE  Rooted([d \in Nodes |-> IF d \in F!Below(f, c) THEN NoRow ELSE f[d]])
<1> DEFINE g == [d \in Nodes |-> IF d \in F!Below(f, c) THEN NoRow ELSE f[d]]
<1>1. /\ c \in Nodes
      /\ Rows(g) = Rows(f) \ F!Below(f, c)
      /\ \A e \in Rows(g) : g[e] = f[e]
  BY DEF Rows
<1> HIDE DEF g
<1> DEFINE s == UnderRoots(g) \cup F!Below(f, c)
<1>2. ClosedIn(f, F!Below(f, c)) /\ F!Below(f, c) \subseteq Nodes
  BY <1>1, BelowCollects DEF Rows
<1>3. s \in SUBSET Nodes
  BY <1>2 DEF UnderRoots, Rows
<1>4. \A r \in Rows(f) : f[r] = None => r \in s
  BY <1>1, UnderRootsCollects
<1>5. ClosedIn(f, s)
  <2> SUFFICES ASSUME NEW e \in Rows(f), f[e] \in s PROVE e \in s
    BY DEF ClosedIn
  <2>1. CASE f[e] \in F!Below(f, c)
    BY <2>1, <1>2 DEF ClosedIn
  <2>2. CASE e \in Rows(g) /\ f[e] \in UnderRoots(g)
    BY <2>2, <1>1, UnderRootsCollects DEF ClosedIn
  <2> QED
    BY <2>1, <2>2, <1>1
<1> HIDE DEF s
<1>6. Rows(f) \subseteq s
  BY <1>3, <1>4, <1>5, UnderRootsLeast DEF Rooted
<1>7. Rooted(g)
  BY <1>1, <1>6 DEF Rooted, s
<1> QED
  BY <1>7 DEF g

-----------------------------------------------------------------------------
(* References and choices, for any number of requests.                       *)

Types ==
  /\ parent \in Parents
  /\ moving \in [Movers -> {None} \cup [node : Nodes, to : Nodes]]
  /\ category \in [Goods -> Nodes \cup {None}]
  /\ mapping \in [Raw -> Nodes \cup {None}]
  /\ chosen \in [Goods -> Nodes \cup {None}]

Inv == Types /\ LinksAreLive /\ ChoiceIsKept

\* A removed subtree leaves no reference behind.
LEMMA DeleteKeepsInv == ASSUME Inv, NEW c \in Nodes, Delete(c) PROVE Inv'
<1> DEFINE gone == F!Below(parent, c)
<1>1. /\ c \in F!Live
      /\ parent' = [d \in Nodes |-> IF d \in gone THEN NoRow ELSE parent[d]]
      /\ category' = Kept(category, gone)
      /\ mapping' = Kept(mapping, gone)
      /\ chosen' = Kept(chosen, gone)
      /\ moving' = moving
  BY DEF Delete, F!Subtree
<1>2. ClosedIn(parent, gone)
  BY BelowCollects
<1> HIDE DEF gone
<1>3. Types'
  BY <1>1 DEF Inv, Types, Parents, Kept
<1>4. F!Live' = F!Live \ gone /\ \A d \in F!Live' : parent'[d] = parent[d]
  BY <1>1 DEF F!Live
<1>5. \A d \in F!Live' : parent'[d] \in F!Live' \cup {None}
  <2>1. \A d \in F!Live' : parent[d] \notin gone /\ parent[d] \in F!Live \cup {None}
    BY <1>2, <1>4 DEF Inv, LinksAreLive, ClosedIn, Rows, F!Live
  <2> QED
    BY <2>1, <1>4
<1>6. /\ \A g \in Goods : category'[g] \in F!Live' \cup {None}
      /\ \A r \in Raw : mapping'[r] \in F!Live' \cup {None}
  BY <1>1, <1>4 DEF Inv, Types, LinksAreLive, Kept
<1>7. ChoiceIsKept'
  BY <1>1 DEF Inv, Types, ChoiceIsKept, Kept
<1> QED
  BY <1>3, <1>5, <1>6, <1>7 DEF Inv, LinksAreLive

\* A new category, with or without a mapping of its own.
LEMMA GrowKeepsInv ==
  ASSUME Inv, NEW c \in Nodes, Fresh(c), NEW p \in F!Live \cup {None},
         parent' = [parent EXCEPT ![c] = p],
         \/ mapping' = mapping
         \/ \E r \in Raw : mapping' = [mapping EXCEPT ![r] = c],
         moving' = moving, category' = category, chosen' = chosen
  PROVE  Inv'
<1>1. /\ F!Live' = F!Live \cup {c}
      /\ \A d \in F!Live : parent'[d] = parent[d]
      /\ parent'[c] = p
  BY CategoriesAssumption DEF Inv, Types, Parents, Fresh, F!Live
<1>2. Types'
  BY DEF Inv, Types, Parents, F!Live
<1>3. \A d \in F!Live' : parent'[d] \in F!Live' \cup {None}
  BY <1>1 DEF Inv, LinksAreLive
<1>4. \A r \in Raw : mapping'[r] \in F!Live' \cup {None}
  BY <1>1 DEF Inv, Types, LinksAreLive
<1>5. \A g \in Goods : category'[g] \in F!Live' \cup {None}
  BY <1>1 DEF Inv, LinksAreLive
<1> QED
  BY <1>2, <1>3, <1>4, <1>5 DEF Inv, LinksAreLive, ChoiceIsKept

\* A live category moved under a live one or to the top.
LEMMA MoveKeepsInv ==
  ASSUME Inv, NEW c \in F!Live, NEW p \in F!Live \cup {None},
         parent' = [parent EXCEPT ![c] = p],
         moving' \in [Movers -> {None} \cup [node : Nodes, to : Nodes]],
         mapping' = mapping, category' = category, chosen' = chosen
  PROVE  Inv'
<1>1. F!Live' = F!Live
  BY CategoriesAssumption DEF Inv, Types, Parents, F!Live
<1>2. Types' /\ ChoiceIsKept'
  BY DEF Inv, Types, Parents, F!Live, ChoiceIsKept
<1>3. \A d \in F!Live' : parent'[d] \in F!Live' \cup {None}
  BY <1>1 DEF Inv, Types, Parents, LinksAreLive
<1>4. /\ \A g \in Goods : category'[g] \in F!Live' \cup {None}
      /\ \A r \in Raw : mapping'[r] \in F!Live' \cup {None}
  BY <1>1 DEF Inv, LinksAreLive
<1> QED
  BY <1>2, <1>3, <1>4 DEF Inv, LinksAreLive

\* Steps that leave the parents alone.
LEMMA RestKeepsInv ==
  ASSUME Inv, parent' = parent, Types', ChoiceIsKept',
         \A g \in Goods : category'[g] \in F!Live \cup {None},
         \A r \in Raw : mapping'[r] \in F!Live \cup {None}
  PROVE  Inv'
BY DEF Inv, LinksAreLive, F!Live

\* One step per action.
LEMMA NextKeepsInv == Inv /\ [Next]_vars => Inv'
<1> SUFFICES ASSUME Inv, [Next]_vars PROVE Inv'
  OBVIOUS
<1>1. CASE UNCHANGED vars
  BY <1>1 DEF vars, Inv, Types, LinksAreLive, ChoiceIsKept, F!Live
<1>2. ASSUME NEW w \in Movers, UpdateParent(w) PROVE Inv'
  <2>1. moving[w] \in [node : Nodes, to : Nodes]
    BY <1>2 DEF UpdateParent, Inv, Types
  <2>2. moving' \in [Movers -> {None} \cup [node : Nodes, to : Nodes]]
    BY <1>2 DEF UpdateParent, Inv, Types
  <2>3. CASE {moving[w].node, moving[w].to} \subseteq F!Live
    <3>1. parent' = [parent EXCEPT ![moving[w].node] = moving[w].to]
      BY <1>2, <2>3 DEF UpdateParent
    <3> QED
      BY <1>2, <2>2, <2>3, <3>1, MoveKeepsInv DEF UpdateParent
  <2>4. CASE ~({moving[w].node, moving[w].to} \subseteq F!Live)
    <3>1. parent' = parent /\ category' = category /\ mapping' = mapping /\ chosen' = chosen
      BY <1>2, <2>4 DEF UpdateParent
    <3> QED
      BY <2>2, <3>1 DEF Inv, Types, LinksAreLive, ChoiceIsKept, F!Live
  <2> QED
    BY <2>3, <2>4
<1>3. ASSUME NEW w \in Movers, NEW c \in Nodes, NEW p \in Nodes, CheckCycle(w, c, p) PROVE Inv'
  <2>1. Types'
    BY <1>3 DEF CheckCycle, Inv, Types
  <2> QED
    BY <1>3, <2>1 DEF CheckCycle, Inv, LinksAreLive, ChoiceIsKept, F!Live
<1>4. ASSUME NEW c \in Nodes, UpdateRoot(c) PROVE Inv'
  <2>1. moving' \in [Movers -> {None} \cup [node : Nodes, to : Nodes]]
    BY <1>4 DEF UpdateRoot, Inv, Types
  <2> QED
    BY <1>4, <2>1, MoveKeepsInv DEF UpdateRoot
<1>5. ASSUME NEW c \in Nodes, Delete(c) PROVE Inv'
  BY <1>5, DeleteKeepsInv
<1>6. ASSUME NEW c \in Nodes, NEW p \in Nodes \cup {None}, Create(c, p) PROVE Inv'
  BY <1>6, GrowKeepsInv DEF Create
<1>7. ASSUME NEW r \in Raw, NEW c \in Nodes \cup {None}, MapTo(r, c) PROVE Inv'
  <2>1. Types' /\ ChoiceIsKept'
    BY <1>7 DEF MapTo, Inv, Types, ChoiceIsKept
  <2> QED
    BY <1>7, <2>1, RestKeepsInv DEF MapTo, Inv, Types, LinksAreLive
<1>8. ASSUME NEW r \in Raw, NEW c \in Nodes, MapToNew(r, c) PROVE Inv'
  BY <1>8, GrowKeepsInv DEF MapToNew
<1>9. ASSUME NEW g \in Goods, NEW c \in Nodes \cup {None}, SetProductCategory(g, c) PROVE Inv'
  <2>1. Types' /\ ChoiceIsKept'
    BY <1>9 DEF SetProductCategory, Inv, Types, ChoiceIsKept
  <2> QED
    BY <1>9, <2>1, RestKeepsInv DEF SetProductCategory, Inv, Types, LinksAreLive
<1>10. CASE ApplyMappings
  <2>1. /\ category' \in [Goods -> Nodes \cup {None}]
        /\ \A g \in Goods : category'[g] = category[g] \/ (category[g] = None /\ category'[g] \in Mapped(g))
    BY <1>10 DEF ApplyMappings
  <2>2. Types' /\ ChoiceIsKept'
    BY <1>10, <2>1 DEF ApplyMappings, Inv, Types, ChoiceIsKept
  <2>3. \A g \in Goods : category'[g] \in F!Live \cup {None}
    BY <2>1, CategoriesAssumption DEF Inv, LinksAreLive, Mapped
  <2> QED
    BY <1>10, <2>2, <2>3, RestKeepsInv DEF ApplyMappings, Inv, LinksAreLive
<1>11. ASSUME NEW g \in Goods, NEW r \in Raw, CreateProductFromOffer(g, r) PROVE Inv'
  <2>1. Types' /\ ChoiceIsKept'
    BY <1>11 DEF CreateProductFromOffer, Inv, Types, ChoiceIsKept
  <2> QED
    BY <1>11, <2>1, RestKeepsInv DEF CreateProductFromOffer, Inv, Types, LinksAreLive
<1>12. CASE Wipe
  BY <1>12 DEF Wipe, Inv, Types, Parents, LinksAreLive, ChoiceIsKept, F!Live
<1> QED
  BY <1>1, <1>2, <1>3, <1>4, <1>5, <1>6, <1>7, <1>8, <1>9, <1>10, <1>11, <1>12
  DEF Next, MoveStep

THEOREM CategoriesInvariant == Spec => []Inv
<1>1. Init => Inv
  BY DEF Init, Inv, Types, Parents, LinksAreLive, ChoiceIsKept, F!Init, F!Live
<1> QED
  BY <1>1, NextKeepsInv, PTL DEF Spec

\* No card, mapping or category refers to a category that is gone, whatever
\* moves and deletions overlap.
THEOREM NothingDangles == Spec => []LinksAreLive
<1>1. Inv => LinksAreLive
  BY DEF Inv
<1> QED
  BY <1>1, CategoriesInvariant, PTL

\* The mappings never take a card from the category a person put it in.
THEOREM HandSortingStays == Spec => []ChoiceIsKept
<1>1. Inv => ChoiceIsKept
  BY DEF Inv
<1> QED
  BY <1>1, CategoriesInvariant, PTL

-----------------------------------------------------------------------------
(* One request moves at a time: what its check has found still holds when it *)
(* updates, whatever is created, deleted or mapped in between.               *)

OneMover == \A v, w \in Movers : v = w

Checked ==
  \A w \in Movers :
    moving[w] # None /\ {moving[w].node, moving[w].to} \subseteq Rows(parent)
      => moving[w].to \notin F!Below(parent, moving[w].node)

OneMoverInv == Inv /\ Checked /\ Rooted(parent)

\* Taking rows or links away puts nothing under a category.
LEMMA FewerLinksKeepChecked ==
  ASSUME Inv, Checked, moving' = moving, Rows(parent') \subseteq Rows(parent),
         \A d \in Rows(parent') : parent'[d] \in {parent[d], None}
  PROVE  Checked'
<1> SUFFICES ASSUME NEW w \in Movers, moving[w] # None,
                    {moving[w].node, moving[w].to} \subseteq Rows(parent')
             PROVE  moving[w].to \notin F!Below(parent', moving[w].node)
  BY DEF Checked
<1> DEFINE c == moving[w].node
           s == F!Below(parent, c)
<1>1. c \in Nodes /\ c \in Rows(parent) /\ moving[w].to \notin s
  BY DEF Checked, Inv, Types
<1>2. c \in s /\ ClosedIn(parent, s) /\ s \in SUBSET Nodes
  BY <1>1, BelowCollects DEF Rows
<1>3. None \notin s
  BY <1>2, CategoriesAssumption
<1> HIDE DEF s
<1>4. ClosedIn(parent', s)
  BY <1>2, <1>3 DEF ClosedIn
<1>5. F!Below(parent', c) \subseteq s
  BY <1>1, <1>2, <1>4, BelowLeast
<1> QED
  BY <1>1, <1>5

\* A new category has no children, and no request under way names it.
LEMMA GrowKeepsChecked ==
  ASSUME Inv, Checked, NEW c \in Nodes, Fresh(c), NEW p \in F!Live \cup {None},
         parent' = [parent EXCEPT ![c] = p], moving' = moving
  PROVE  Checked'
<1> SUFFICES ASSUME NEW w \in Movers, moving[w] # None,
                    {moving[w].node, moving[w].to} \subseteq Rows(parent')
             PROVE  moving[w].to \notin F!Below(parent', moving[w].node)
  BY DEF Checked
<1> DEFINE n == moving[w].node
           t == moving[w].to
           s == F!Below(parent, n) \cup {c}
<1>1. n \in Nodes /\ c \notin {n, t} /\ c \notin Rows(parent)
  BY DEF Inv, Types, Fresh, F!Live, Rows
<1>2. /\ Rows(parent') = Rows(parent) \cup {c}
      /\ \A d \in Rows(parent) : parent'[d] = parent[d] /\ parent'[d] # c
  BY <1>1, CategoriesAssumption DEF Inv, Types, Parents, LinksAreLive, F!Live, Rows
<1>3. {n, t} \subseteq Rows(parent) /\ t \notin F!Below(parent, n)
  BY <1>1, <1>2 DEF Checked
<1>4. n \in s /\ s \in SUBSET Nodes /\ ClosedIn(parent, F!Below(parent, n))
  BY <1>1, <1>3, BelowCollects DEF Rows
<1>5. ClosedIn(parent', s)
  BY <1>2, <1>4 DEF ClosedIn
<1>6. F!Below(parent', n) \subseteq s
  BY <1>1, <1>4, <1>5, BelowLeast
<1> QED
  BY <1>1, <1>3, <1>6

\* An update of the one request that moves is a move of the forest.
LEMMA UpdateIsMove ==
  ASSUME Inv, Checked, NEW w \in Movers, UpdateParent(w)
  PROVE  \/ parent' = parent
         \/ F!Move(moving[w].node, moving[w].to)
<1>1. CASE {moving[w].node, moving[w].to} \subseteq F!Live
  <2>1. parent' = [parent EXCEPT ![moving[w].node] = moving[w].to]
    BY <1>1 DEF UpdateParent
  <2>2. moving[w].to \notin F!Below(parent, moving[w].node)
    BY <1>1 DEF Checked, UpdateParent, Rows, F!Live
  <2> QED
    BY <1>1, <2>1, <2>2 DEF F!Move, F!Subtree
<1>2. CASE ~({moving[w].node, moving[w].to} \subseteq F!Live)
  BY <1>2 DEF UpdateParent
<1> QED
  BY <1>1, <1>2

\* Every step is a step of the forest or leaves the parents alone.
LEMMA StepOfForest ==
  ASSUME Inv, Checked, [Next]_vars
  PROVE  [F!Next]_parent
<1>1. ASSUME NEW w \in Movers, UpdateParent(w) PROVE [F!Next]_parent
  <2>1. CASE parent' = parent
    BY <2>1
  <2>2. CASE F!Move(moving[w].node, moving[w].to)
    <3>1. moving[w].node \in Nodes /\ moving[w].to \in Nodes \cup {None}
      BY <1>1 DEF UpdateParent, Inv, Types
    <3> QED
      BY <2>2, <3>1 DEF F!Next
  <2> QED
    BY <1>1, <2>1, <2>2, UpdateIsMove
<1>2. ASSUME NEW c \in Nodes, UpdateRoot(c) PROVE F!Next
  <2>1. F!Move(c, None)
    BY <1>2 DEF UpdateRoot, F!Move
  <2> QED
    BY <2>1 DEF F!Next
<1>3. ASSUME NEW c \in Nodes, Delete(c) PROVE F!Next
  <2>1. F!Prune(c)
    BY <1>3 DEF Delete, F!Prune
  <2> QED
    BY <2>1 DEF F!Next
<1>4. ASSUME NEW c \in Nodes, NEW p \in Nodes \cup {None}, Create(c, p) PROVE F!Next
  <2>1. F!Grow(c, p)
    BY <1>4 DEF Create, Fresh, F!Grow
  <2> QED
    BY <2>1 DEF F!Next
<1>5. ASSUME NEW r \in Raw, NEW c \in Nodes, MapToNew(r, c) PROVE F!Next
  <2>1. F!Grow(c, None)
    BY <1>5 DEF MapToNew, Fresh, F!Grow
  <2> QED
    BY <2>1 DEF F!Next
<1>6. CASE Wipe
  <2>1. F!Clear
    BY <1>6 DEF Wipe, F!Clear
  <2> QED
    BY <2>1 DEF F!Next
<1>7. CASE ApplyMappings
  BY <1>7 DEF ApplyMappings
<1>8. ASSUME NEW w \in Movers, NEW c \in Nodes, NEW p \in Nodes, CheckCycle(w, c, p)
      PROVE  parent' = parent
  BY <1>8 DEF CheckCycle
<1>9. ASSUME NEW r \in Raw, NEW c \in Nodes \cup {None}, MapTo(r, c) PROVE parent' = parent
  BY <1>9 DEF MapTo
<1>10. ASSUME NEW g \in Goods, NEW c \in Nodes \cup {None}, SetProductCategory(g, c)
       PROVE  parent' = parent
  BY <1>10 DEF SetProductCategory
<1>11. ASSUME NEW g \in Goods, NEW r \in Raw, CreateProductFromOffer(g, r) PROVE parent' = parent
  BY <1>11 DEF CreateProductFromOffer
<1>12. CASE UNCHANGED vars
  BY <1>12 DEF vars
<1> QED
  BY <1>1, <1>2, <1>3, <1>4, <1>5, <1>6, <1>7, <1>8, <1>9, <1>10, <1>11, <1>12
  DEF Next, MoveStep

\* The check of one request survives every step but its own update.
LEMMA NextKeepsChecked ==
  ASSUME OneMover, Inv, Checked, [Next]_vars
  PROVE  Checked'
<1>1. ASSUME NEW w \in Movers, UpdateParent(w) PROVE Checked'
  <2>1. \A v \in Movers : moving'[v] = None
    BY <1>1 DEF UpdateParent, OneMover, Inv, Types
  <2> QED
    BY <2>1 DEF Checked
<1>2. ASSUME NEW w \in Movers, NEW c \in Nodes, NEW p \in Nodes, CheckCycle(w, c, p)
      PROVE  Checked'
  <2>1. parent' = parent /\ \A v \in Movers : moving'[v] = [node |-> c, to |-> p]
    BY <1>2 DEF CheckCycle, OneMover, Inv, Types
  <2>2. p \notin F!Below(parent, c)
    BY <1>2 DEF CheckCycle, F!Subtree
  <2> QED
    BY <2>1, <2>2 DEF Checked
<1>3. ASSUME NEW c \in Nodes, UpdateRoot(c) PROVE Checked'
  <2>1. /\ moving' = moving
        /\ \A d \in Nodes : parent'[d] = IF d = c THEN None ELSE parent[d]
        /\ c \in Rows(parent)
    BY <1>3 DEF UpdateRoot, Inv, Types, Parents, F!Live, Rows
  <2> QED
    BY <2>1, FewerLinksKeepChecked DEF Rows
<1>4. ASSUME NEW c \in Nodes, Delete(c) PROVE Checked'
  <2>1. /\ moving' = moving
        /\ \A d \in Nodes : parent'[d] \in {NoRow, parent[d]}
    BY <1>4 DEF Delete
  <2> QED
    BY <2>1, FewerLinksKeepChecked DEF Rows
<1>5. ASSUME NEW c \in Nodes, NEW p \in Nodes \cup {None}, Create(c, p) PROVE Checked'
  BY <1>5, GrowKeepsChecked DEF Create
<1>6. ASSUME NEW r \in Raw, NEW c \in Nodes, MapToNew(r, c) PROVE Checked'
  BY <1>6, GrowKeepsChecked DEF MapToNew
<1>7. CASE Wipe
  <2>1. moving' = moving /\ Rows(parent') = {}
    BY <1>7 DEF Wipe, Rows
  <2> QED
    BY <2>1, FewerLinksKeepChecked
<1>8. ASSUME parent' = parent, moving' = moving PROVE Checked'
  BY <1>8 DEF Checked
<1>9. CASE ApplyMappings
  BY <1>8, <1>9 DEF ApplyMappings
<1>10. ASSUME NEW r \in Raw, NEW c \in Nodes \cup {None}, MapTo(r, c) PROVE Checked'
  BY <1>8, <1>10 DEF MapTo
<1>11. ASSUME NEW g \in Goods, NEW c \in Nodes \cup {None}, SetProductCategory(g, c)
       PROVE  Checked'
  BY <1>8, <1>11 DEF SetProductCategory
<1>12. ASSUME NEW g \in Goods, NEW r \in Raw, CreateProductFromOffer(g, r) PROVE Checked'
  BY <1>8, <1>12 DEF CreateProductFromOffer
<1>13. CASE UNCHANGED vars
  BY <1>8, <1>13 DEF vars
<1> QED
  BY <1>1, <1>2, <1>3, <1>4, <1>5, <1>6, <1>7, <1>9, <1>10, <1>11, <1>12, <1>13
  DEF Next, MoveStep

\* A step of the forest keeps every category under a root.
LEMMA ForestKeepsRooted ==
  ASSUME Inv, Rooted(parent), [F!Next]_parent
  PROVE  Rooted(parent')
<1>0. parent \in Parents /\ F!Live = Rows(parent)
  BY DEF Inv, Types, F!Live, Rows
<1>1. ASSUME NEW c \in Nodes, NEW p \in Nodes \cup {None}, F!Grow(c, p) PROVE Rooted(parent')
  BY <1>0, <1>1, RootedGrow DEF F!Grow
<1>2. ASSUME NEW c \in Nodes, NEW p \in Nodes \cup {None}, F!Move(c, p) PROVE Rooted(parent')
  BY <1>0, <1>2, RootedMove DEF F!Move, F!Subtree
<1>3. ASSUME NEW c \in Nodes, F!Prune(c) PROVE Rooted(parent')
  BY <1>0, <1>3, RootedPrune DEF F!Prune, F!Subtree
<1>4. CASE F!Clear
  BY <1>4 DEF F!Clear, Rooted, Rows
<1> QED
  BY <1>1, <1>2, <1>3, <1>4 DEF F!Next

LEMMA OneMoverInvariant == ASSUME OneMover PROVE Spec => []OneMoverInv
<1>1. Init => OneMoverInv
  BY DEF Init, OneMoverInv, Inv, Types, Parents, LinksAreLive, ChoiceIsKept, F!Init,
         F!Live, Checked, Rooted, Rows
<1>2. OneMoverInv /\ [Next]_vars => OneMoverInv'
  BY NextKeepsInv, NextKeepsChecked, StepOfForest, ForestKeepsRooted DEF OneMoverInv
<1> QED
  BY <1>1, <1>2, PTL DEF Spec

\* While one request moves at a time, the two statements of a move are as good
\* as one: the categories implement the forest.
THEOREM OneMoverImplementsForest == ASSUME OneMover PROVE Spec => ImplementsForest
<1>1. Init => F!Init
  BY DEF Init
<1>2. OneMoverInv /\ [Next]_vars => [F!Next]_parent
  BY StepOfForest DEF OneMoverInv
<1> QED
  BY <1>1, <1>2, OneMoverInvariant, PTL DEF Spec, ImplementsForest, F!Spec

\* And no category ever ends up on a cycle: each is under a root.
THEOREM OneMoverMakesNoCycle == ASSUME OneMover PROVE Spec => []EveryNodeRooted
<1>1. OneMoverInv => EveryNodeRooted
  BY DEF OneMoverInv, Rooted, UnderRoots, Rows, EveryNodeRooted, F!EveryNodeRooted,
         F!Live, F!Subtree
<1> QED
  BY <1>1, OneMoverInvariant, PTL


-----------------------------------------------------------------------------
(* The counters of the portal's tree: sums over the branches.                *)

LEMMA SmallestNat ==
  ASSUME NEW X \in SUBSET Nat, X # {} PROVE \E n \in X : \A m \in X : n <= m
<1>1. PICK n \in X : \A m \in X : ~(<<m, n>> \in OpToRel(<, Nat))
  BY NatLessThanWellFounded, WFMin
<1>2. \A m \in X : ~(m < n)
  BY <1>1 DEF OpToRel
<1> QED
  BY <1>2

\* The least of some sets, in the order of their sizes.
LEMMA SmallestSet ==
  ASSUME NEW X, X # {}, \A s \in X : IsFiniteSet(s)
  PROVE  \E s \in X : \A t \in X : Cardinality(s) <= Cardinality(t)
<1> DEFINE sizes == {Cardinality(s) : s \in X}
<1>1. sizes \in SUBSET Nat /\ sizes # {}
  BY FS_CardinalityType
<1>2. PICK n \in sizes : \A m \in sizes : n <= m
  BY <1>1, SmallestNat
<1> QED
  BY <1>2

\* How a sum is added up, one index after another.
Adds(h, S, f) ==
  f = [s \in SUBSET S |-> IF s = {} THEN 0
                          ELSE h[CHOOSE x \in s : TRUE] + f[s \ {CHOOSE x \in s : TRUE}]]

LEMMA SumIsUnique ==
  ASSUME NEW S, IsFiniteSet(S), NEW h, NEW f, Adds(h, S, f)
  PROVE  T!SumFunctionOnSet(h, S) = f[S]
<1> DEFINE g == CHOOSE g : Adds(h, S, g)
<1>1. T!SumFunctionOnSet(h, S) = g[S]
  BY DEF T!SumFunctionOnSet, T!FoldFunctionOnSet, T!MapThenFoldSet, Adds
<1>2. Adds(h, S, g)
  OBVIOUS
<1> HIDE DEF g
<1> DEFINE X == {s \in SUBSET S : g[s] # f[s]}
<1>3. ASSUME X # {} PROVE FALSE
  <2>1. \A s \in X : IsFiniteSet(s)
    BY FS_Subset
  <2>2. PICK s \in X : \A t \in X : Cardinality(s) <= Cardinality(t)
    BY <1>3, <2>1, SmallestSet
  <2>3. s \in SUBSET S /\ g[s] # f[s] /\ IsFiniteSet(s)
    BY <2>1
  <2>4. s # {}
    BY <1>2, <2>3 DEF Adds
  <2> DEFINE x == CHOOSE x \in s : TRUE
  <2>5. x \in s
    BY <2>4
  <2>6. g[s] = h[x] + g[s \ {x}] /\ f[s] = h[x] + f[s \ {x}]
    BY <1>2, <2>3, <2>4 DEF Adds
  <2>7. IsFiniteSet(s \ {x}) /\ Cardinality(s \ {x}) = Cardinality(s) - 1
    BY <2>3, <2>5, FS_RemoveElement
  <2>8. Cardinality(s) \in Nat
    BY <2>3, FS_CardinalityType
  <2>9. s \ {x} \notin X
    BY <2>2, <2>7, <2>8
  <2>10. g[s \ {x}] = f[s \ {x}]
    BY <2>3, <2>9
  <2> QED
    BY <2>3, <2>6, <2>10
<1> QED
  BY <1>1, <1>3

\* A sum of the sizes of disjoint sets is the size of their union.
LEMMA SumCounts ==
  ASSUME NEW S, IsFiniteSet(S), NEW G, IsFiniteSet(G), NEW A \in [S -> SUBSET G],
         \A x, y \in S : x # y => A[x] \cap A[y] = {},
         NEW h, \A x \in S : h[x] = Cardinality(A[x])
  PROVE  T!SumFunctionOnSet(h, S) = Cardinality(UNION {A[x] : x \in S})
<1> DEFINE All(s) == UNION {A[x] : x \in s}
           f == [s \in SUBSET S |-> Cardinality(All(s))]
<1>1. \A s \in SUBSET S : All(s) \in SUBSET G /\ IsFiniteSet(All(s))
  <2> TAKE s \in SUBSET S
  <2>1. All(s) \in SUBSET G
    OBVIOUS
  <2> QED
    BY <2>1, FS_Subset
<1>2. ASSUME NEW s \in SUBSET S
      PROVE  f[s] = IF s = {} THEN 0
                    ELSE h[CHOOSE x \in s : TRUE] + f[s \ {CHOOSE x \in s : TRUE}]
  <2>1. CASE s = {}
    <3>1. All(s) = {}
      BY <2>1
    <3> QED
      BY <2>1, <3>1, FS_EmptySet
  <2>2. CASE s # {}
    <3> DEFINE x == CHOOSE x \in s : TRUE
               r == s \ {x}
    <3>1. x \in s /\ r \in SUBSET S
      BY <2>2
    <3> HIDE DEF x
    <3>2. All(s) = A[x] \cup All(r) /\ A[x] \cap All(r) = {}
      BY <3>1
    <3>3. IsFiniteSet(A[x]) /\ IsFiniteSet(All(r))
      <4>1. A[x] \in SUBSET G
        BY <3>1
      <4> QED
        BY <1>1, <3>1, <4>1, FS_Subset
    <3> DEFINE a == A[x]
               b == All(r)
    <3> HIDE DEF a, b
    <3>4. Cardinality(a \cup b) = Cardinality(a) + Cardinality(b) - Cardinality(a \cap b)
      BY <3>3, FS_Union DEF a, b
    <3>5. Cardinality(a \cap b) = 0
      BY <3>2, FS_EmptySet DEF a, b
    <3>6. Cardinality(a) \in Nat /\ Cardinality(b) \in Nat
      BY <3>3, FS_CardinalityType DEF a, b
    <3>7. Cardinality(a \cup b) = Cardinality(a) + Cardinality(b)
      BY <3>4, <3>5, <3>6
    <3>8. f[s] = h[x] + f[r]
      BY <3>1, <3>2, <3>7 DEF a, b
    <3> QED
      BY <2>2, <3>8 DEF x
  <2> QED
    BY <2>1, <2>2
<1>3. Adds(h, S, f)
  BY <1>2 DEF Adds
<1>4. T!SumFunctionOnSet(h, S) = f[S]
  BY <1>3, SumIsUnique
<1> QED
  BY <1>4

-----------------------------------------------------------------------------
(* A category is above its children's subtrees, which are apart.             *)

Under(f, c) == {d \in Rows(f) : f[d] = c}

\* What is below a category, other than itself, is there with its parent.
LEMMA BelowHasParents ==
  ASSUME NEW f, NEW c \in Rows(f), NEW d \in F!Below(f, c), d # c
  PROVE  f[d] \in F!Below(f, c)
<1> SUFFICES ASSUME f[d] \notin F!Below(f, c) PROVE FALSE
  OBVIOUS
<1> DEFINE s == F!Below(f, c) \ {d}
<1>1. c \in Nodes /\ c \in F!Below(f, c) /\ ClosedIn(f, F!Below(f, c))
      /\ F!Below(f, c) \subseteq Rows(f)
  BY BelowCollects DEF Rows
<1>2. c \in s /\ s \in SUBSET Nodes /\ ClosedIn(f, s)
  BY <1>1 DEF ClosedIn, Rows
<1>3. F!Below(f, c) \subseteq s
  BY <1>1, <1>2, BelowLeast
<1> QED
  BY <1>3

\* Under roots nothing is below its own child.
LEMMA ChildIsLower ==
  ASSUME NEW f, Rooted(f), NEW c \in Rows(f), NEW d \in Under(f, c)
  PROVE  c \notin F!Below(f, d)
<1> SUFFICES ASSUME c \in F!Below(f, d) PROVE FALSE
  OBVIOUS
<1> DEFINE s == F!Below(f, d)
           t == UnderRoots(f) \ s
<1>1. d \in Rows(f) /\ f[d] = c /\ d \in Nodes
  BY DEF Under, Rows
<1>2. d \in s /\ s \subseteq Rows(f) /\ \A e \in s : f[e] \in s
  BY <1>1, BelowCollects, BelowHasParents
<1>3. None \notin s
  BY <1>2, CategoriesAssumption DEF Rows
<1> HIDE DEF s
<1>4. ClosedIn(f, t)
  BY <1>2, UnderRootsCollects DEF ClosedIn
<1>5. \A r \in Rows(f) : f[r] = None => r \in t
  BY <1>2, <1>3, UnderRootsCollects
<1>6. t \in SUBSET Nodes
  BY DEF UnderRoots, Rows
<1>7. UnderRoots(f) \subseteq t
  BY <1>4, <1>5, <1>6, UnderRootsLeast
<1> QED
  BY <1>1, <1>2, <1>7 DEF Rooted

\* Neither of two categories is below the other's parent: nothing is below both.
LEMMA BranchesApart ==
  ASSUME NEW f, NEW c \in Rows(f), NEW d \in Rows(f), c # d,
         f[c] \notin F!Below(f, d), f[d] \notin F!Below(f, c)
  PROVE  F!Below(f, c) \cap F!Below(f, d) = {}
<1> DEFINE t == F!Below(f, c) \ F!Below(f, d)
<1>1. c \in Nodes /\ d \in Nodes /\ c \in F!Below(f, c)
  BY BelowCollects DEF Rows
<1>2. c \notin F!Below(f, d)
  BY BelowHasParents
<1>3. ClosedIn(f, F!Below(f, c)) /\ F!Below(f, c) \subseteq Rows(f)
  BY <1>1, BelowCollects
<1>4. ClosedIn(f, t)
  <2> SUFFICES ASSUME NEW e \in Rows(f), f[e] \in t PROVE e \in t
    BY DEF ClosedIn
  <2>1. e \in F!Below(f, c)
    BY <1>3 DEF ClosedIn
  <2>2. e \notin F!Below(f, d)
    BY BelowHasParents
  <2> QED
    BY <2>1, <2>2
<1>5. t \in SUBSET Nodes
  BY <1>3 DEF Rows
<1>6. F!Below(f, c) \subseteq t
  BY <1>1, <1>2, <1>4, <1>5, BelowLeast
<1> QED
  BY <1>6

\* A subtree is the category and the subtrees of its children.
LEMMA BelowSplits ==
  ASSUME NEW f, NEW c \in Rows(f)
  PROVE  F!Below(f, c) = {c} \cup UNION {F!Below(f, d) : d \in Under(f, c)}
<1> DEFINE s == {c} \cup UNION {F!Below(f, d) : d \in Under(f, c)}
<1>1. c \in Nodes /\ c \in F!Below(f, c) /\ ClosedIn(f, F!Below(f, c))
  BY BelowCollects DEF Rows
<1>2. \A d \in Under(f, c) : d \in Nodes /\ d \in F!Below(f, d) /\ ClosedIn(f, F!Below(f, d))
                             /\ F!Below(f, d) \subseteq Rows(f)
  BY BelowCollects DEF Under, Rows
<1>3. s \in SUBSET Nodes
  BY <1>1, <1>2 DEF Rows
<1>4. ClosedIn(f, s)
  <2> SUFFICES ASSUME NEW e \in Rows(f), f[e] \in s PROVE e \in s
    BY DEF ClosedIn
  <2>1. CASE f[e] = c
    BY <1>2, <2>1 DEF Under
  <2>2. ASSUME NEW d \in Under(f, c), f[e] \in F!Below(f, d) PROVE e \in s
    BY <1>2, <2>2 DEF ClosedIn
  <2> QED
    BY <2>1, <2>2
<1>5. F!Below(f, c) \subseteq s
  BY <1>1, <1>3, <1>4, BelowLeast
<1>6. ASSUME NEW d \in Under(f, c) PROVE F!Below(f, d) \subseteq F!Below(f, c)
  <2>1. d \in F!Below(f, c) /\ F!Below(f, c) \in SUBSET Nodes
    BY <1>1, BelowCollects DEF Under, ClosedIn, Rows
  <2> QED
    BY <1>1, <1>2, <2>1, BelowLeast
<1> QED
  BY <1>1, <1>5, <1>6

\* Two children of one category, and two roots, have nothing below both.
LEMMA SiblingsApart ==
  ASSUME NEW f, Rooted(f), NEW c \in Rows(f) \cup {None},
         NEW d \in Under(f, c), NEW e \in Under(f, c), d # e
  PROVE  F!Below(f, d) \cap F!Below(f, e) = {}
<1>1. d \in Rows(f) /\ e \in Rows(f) /\ f[d] = c /\ f[e] = c
  BY DEF Under
<1>2. c \notin F!Below(f, d) /\ c \notin F!Below(f, e)
  <2>1. CASE c \in Rows(f)
    BY <2>1, ChildIsLower
  <2>2. CASE c = None
    BY <1>1, <2>2, BelowCollects, CategoriesAssumption DEF Rows
  <2> QED
    BY <2>1, <2>2
<1> QED
  BY <1>1, <1>2, BranchesApart

-----------------------------------------------------------------------------
(* The size of a subtree, by which the arguments about the tree go.          *)

Height(n) == Cardinality(F!Below(parent, n))

LEMMA HeightIsNat ==
  ASSUME NEW n \in Nodes
  PROVE  Height(n) \in Nat /\ Cardinality(Nodes) \in Nat /\ Height(n) <= Cardinality(Nodes)
<1>1. F!Below(parent, n) \subseteq Nodes
  BY BelowCollects DEF Rows
<1> QED
  BY <1>1, CategoriesAssumption, FS_Subset, FS_CardinalityType DEF Height

LEMMA HeightFalls ==
  ASSUME Rooted(parent), NEW c \in Rows(parent), NEW d \in Under(parent, c)
  PROVE  Height(d) < Height(c)
<1> DEFINE s == F!Below(parent, c)
           u == F!Below(parent, d)
<1>1. c \in Nodes /\ d \in Nodes /\ d \in Rows(parent)
  BY DEF Under, Rows
<1>2. u \subseteq s \ {c} /\ c \in s /\ s \subseteq Nodes
  BY <1>1, BelowSplits, BelowCollects, ChildIsLower DEF Rows
<1>3. IsFiniteSet(s) /\ IsFiniteSet(s \ {c})
  BY <1>2, CategoriesAssumption, FS_Subset
<1>4. Cardinality(s \ {c}) = Cardinality(s) - 1
  BY <1>2, <1>3, FS_RemoveElement
<1>5. Cardinality(u) <= Cardinality(s \ {c})
  BY <1>2, <1>3, FS_Subset
<1>6. Height(c) \in Nat /\ Height(d) \in Nat
  BY <1>1, HeightIsNat
<1> QED
  BY <1>4, <1>5, <1>6 DEF Height

-----------------------------------------------------------------------------
(* The totals                                                                *)

Found(c) == {g \in Goods : category[g] \in F!Below(parent, c)}

\* The counters that belong to the database's answers.
Counts == [n \in Nodes |-> Cardinality(Found(n))]

Totals(t) ==
  t = [n \in Nodes |-> T!Own(n) + T!SumFunctionOnSet(t, T!Children(n))]

LEMMA TreeTerms ==
  ASSUME Inv
  PROVE  /\ T!Listed = Rows(parent)
         /\ T!Roots = Under(parent, None)
         /\ \A n \in Nodes : T!Children(n) = Under(parent, n)
         /\ \A n \in Nodes : T!Own(n) = Cardinality({g \in Goods : category[g] = n})
         /\ \A n \in Nodes : IsFiniteSet(Under(parent, n))
         /\ IsFiniteSet(Under(parent, None))
<1>1. T!Listed = Rows(parent)
  BY DEF T!Listed, Rows
<1>2. T!Roots = Under(parent, None)
  BY <1>1, CategoriesAssumption DEF T!Roots, Under, Rows, Inv, LinksAreLive, F!Live
<1>3. \A n \in Nodes : T!Children(n) = Under(parent, n)
  BY <1>1 DEF T!Children, Under
<1>4. \A X : T!Cardinality(X) = Cardinality(X)
  BY DEF T!Cardinality, Cardinality
<1>5. \A n \in Nodes : T!Own(n) = Cardinality({g \in Goods : category[g] = n})
  BY <1>4 DEF T!Own
<1>6. IsFiniteSet(Nodes) /\ \A n : Under(parent, n) \in SUBSET Nodes
  BY CategoriesAssumption DEF Under, Rows
<1>7. \A n : IsFiniteSet(Under(parent, n))
  BY <1>6, FS_Subset
<1> QED
  BY <1>1, <1>2, <1>3, <1>5, <1>7

\* The cards of a category and those its children's totals count are the cards
\* of its subtree.
LEMMA CountsAddUp ==
  ASSUME Inv, Rooted(parent), NEW n \in Nodes, NEW t,
         \A d \in Under(parent, n) : t[d] = Cardinality(Found(d))
  PROVE  T!Own(n) + T!SumFunctionOnSet(t, T!Children(n)) = Cardinality(Found(n))
<1> DEFINE S == Under(parent, n)
           A == [d \in S |-> Found(d)]
           own == {g \in Goods : category[g] = n}
           sub == UNION {A[d] : d \in S}
<1>1. IsFiniteSet(Goods) /\ IsFiniteSet(S) /\ T!Children(n) = S
  BY TreeTerms, CategoriesAssumption
<1>2. A \in [S -> SUBSET Goods]
  BY DEF Found
<1>3. \A d \in S : d \in Rows(parent)
  BY DEF Under
<1>4. S # {} => n \in Rows(parent)
  BY CategoriesAssumption DEF Under, Inv, LinksAreLive, F!Live, Rows
<1>5. ASSUME NEW d \in S, NEW e \in S, d # e PROVE A[d] \cap A[e] = {}
  BY <1>4, <1>5, SiblingsApart DEF Found
<1>6. \A d \in S : t[d] = Cardinality(A[d])
  OBVIOUS
<1> HIDE DEF S, A
<1>7. T!SumFunctionOnSet(t, S) = Cardinality(sub)
  BY <1>1, <1>2, <1>5, <1>6, SumCounts
<1>8. T!Own(n) = Cardinality(own)
  BY TreeTerms
<1>9. Found(n) = own \cup sub /\ own \cap sub = {}
  <2>1. CASE n \in Rows(parent)
    <3>1. F!Below(parent, n) = {n} \cup UNION {F!Below(parent, d) : d \in S}
      BY <2>1, BelowSplits DEF S
    <3>2. \A d \in S : n \notin F!Below(parent, d)
      BY <2>1, ChildIsLower DEF S
    <3> QED
      BY <3>1, <3>2 DEF Found, A
  <2>2. CASE n \notin Rows(parent)
    <3>1. S = {} /\ sub = {}
      BY <1>4, <2>2
    <3>2. n \notin F!Live /\ own = {}
      BY <2>2, CategoriesAssumption DEF Inv, LinksAreLive, F!Live, Rows
    <3>3. {n} \in SUBSET Nodes /\ ClosedIn(parent, {n})
      BY <1>4, <2>2, <3>1 DEF ClosedIn, S, Under
    <3>4. F!Below(parent, n) \subseteq {n} /\ F!Below(parent, n) \subseteq Rows(parent)
      BY <3>3, BelowLeast, BelowCollects
    <3>5. F!Below(parent, n) = {}
      BY <2>2, <3>4
    <3> QED
      BY <3>1, <3>2, <3>5 DEF Found
  <2> QED
    BY <2>1, <2>2
<1>10. IsFiniteSet(own) /\ IsFiniteSet(sub)
  <2>1. own \in SUBSET Goods /\ sub \in SUBSET Goods
    BY <1>2
  <2> QED
    BY <1>1, <2>1, FS_Subset
<1> HIDE DEF own, sub
<1>11. Cardinality(own \cup sub)
         = Cardinality(own) + Cardinality(sub) - Cardinality(own \cap sub)
  BY <1>10, FS_Union
<1>12. Cardinality(own) \in Nat /\ Cardinality(sub) \in Nat /\ Cardinality(own \cap sub) = 0
  BY <1>9, <1>10, FS_CardinalityType, FS_EmptySet
<1> QED
  BY <1>1, <1>7, <1>8, <1>9, <1>11, <1>12

\* What the recursion over the tree computes is what the database counts: a
\* smallest subtree in which it is not would have children in which it is.
LEMMA TotalsAreCounts ==
  ASSUME Inv, Rooted(parent)
  PROVE  T!Total = Counts
<1> DEFINE t == CHOOSE t : Totals(t)
<1>1. T!Total = t
  BY DEF T!Total, Totals
<1>2. Totals(Counts)
  <2> SUFFICES ASSUME NEW n \in Nodes
               PROVE  T!Own(n) + T!SumFunctionOnSet(Counts, T!Children(n)) = Cardinality(Found(n))
    BY DEF Totals, Counts
  <2>1. \A d \in Under(parent, n) : Counts[d] = Cardinality(Found(d))
    BY DEF Under, Rows, Counts
  <2> QED
    BY <2>1, CountsAddUp
<1>3. Totals(t)
  BY <1>2
<1> HIDE DEF t
<1>4. DOMAIN t = Nodes /\ t = [n \in Nodes |-> t[n]]
  BY <1>3 DEF Totals
<1> DEFINE X == {n \in Nodes : t[n] # Counts[n]}
<1>5. ASSUME X # {} PROVE FALSE
  <2> DEFINE H == {Height(n) : n \in X}
  <2>1. H \in SUBSET Nat /\ H # {}
    BY <1>5, HeightIsNat
  <2>2. PICK k \in H : \A i \in H : k <= i
    BY <2>1, SmallestNat
  <2>3. PICK n \in X : Height(n) = k
    OBVIOUS
  <2>4. ASSUME NEW d \in Under(parent, n) PROVE t[d] = Cardinality(Found(d))
    <3>1. d \in Nodes /\ n \in Nodes /\ n \in Rows(parent)
      BY CategoriesAssumption DEF Under, Rows, Inv, LinksAreLive, F!Live
    <3>2. Height(d) < Height(n) /\ Height(d) \in Nat /\ Height(n) \in Nat
      BY <3>1, HeightFalls, HeightIsNat
    <3>3. d \notin X
      BY <2>2, <2>3, <3>2
    <3> QED
      BY <3>1, <3>3 DEF Counts
  <2>5. t[n] = T!Own(n) + T!SumFunctionOnSet(t, T!Children(n))
    BY <1>3 DEF Totals
  <2>6. t[n] = Counts[n]
    BY <2>4, <2>5, CountsAddUp DEF Counts
  <2> QED
    BY <2>6
<1> QED
  BY <1>1, <1>4, <1>5 DEF Counts

\* Every card is under a root or in no category.
LEMMA TotalIsAllCards ==
  ASSUME Inv, Rooted(parent)
  PROVE  T!TotalAll = Cardinality(Goods)
<1> DEFINE S == Under(parent, None)
           A == [d \in S |-> Found(d)]
           none == {g \in Goods : category[g] = None}
           sub == UNION {A[d] : d \in S}
<1>1. IsFiniteSet(Goods) /\ IsFiniteSet(S) /\ T!Roots = S
  BY TreeTerms, CategoriesAssumption
<1>2. A \in [S -> SUBSET Goods]
  BY DEF Found
<1>3. ASSUME NEW d \in S, NEW e \in S, d # e PROVE A[d] \cap A[e] = {}
  BY <1>3, SiblingsApart DEF Found
<1>4. \A d \in S : Counts[d] = Cardinality(A[d])
  BY DEF Counts, Under, Rows
<1>5. Goods = none \cup sub /\ none \cap sub = {}
  <2>1. ASSUME NEW g \in Goods, category[g] # None PROVE g \in sub
    <3>1. category[g] \in UnderRoots(parent)
      BY <2>1 DEF Inv, LinksAreLive, F!Live, Rows, Rooted
    <3>2. PICK r \in S : category[g] \in F!Below(parent, r)
      BY <3>1 DEF UnderRoots, Under
    <3> QED
      BY <3>2 DEF Found
  <2>2. \A d \in S : None \notin F!Below(parent, d)
    BY BelowCollects, CategoriesAssumption DEF Under, Rows
  <2> QED
    BY <1>2, <2>1, <2>2 DEF Found
<1> HIDE DEF S, A
<1>6. T!SumFunctionOnSet(Counts, S) = Cardinality(sub)
  BY <1>1, <1>2, <1>3, <1>4, SumCounts
<1>7. IsFiniteSet(none) /\ IsFiniteSet(sub)
  BY <1>1, <1>2, <1>5, FS_Subset
<1> HIDE DEF none, sub
<1>8. Cardinality(none \cup sub)
        = Cardinality(none) + Cardinality(sub) - Cardinality(none \cap sub)
  BY <1>7, FS_Union
<1>9. Cardinality(none) \in Nat /\ Cardinality(sub) \in Nat /\ Cardinality(none \cap sub) = 0
  BY <1>5, <1>7, FS_CardinalityType, FS_EmptySet
<1>10. T!TotalAll = Cardinality(sub) + Cardinality(none)
  <2>1. T!Cardinality(none) = Cardinality(none)
    BY DEF T!Cardinality, Cardinality
  <2> QED
    BY <1>1, <1>6, <2>1, TotalsAreCounts DEF T!TotalAll, none
<1> QED
  BY <1>5, <1>8, <1>9, <1>10

\* While one request moves at a time, the counters of the portal's tree are the
\* numbers of cards that the filters of the categories find, and the total is
\* that of all cards.
THEOREM CountersAgree == ASSUME OneMover PROVE Spec => []TotalsAgree
<1>1. OneMoverInv => TotalsAgree
  <2> SUFFICES ASSUME OneMoverInv PROVE TotalsAgree
    OBVIOUS
  <2>1. T!Total = Counts /\ T!TotalAll = Cardinality(Goods)
    BY TotalsAreCounts, TotalIsAllCards DEF OneMoverInv
  <2> QED
    BY <2>1 DEF TotalsAgree, Counts, Found, F!Subtree, F!Live
<1> QED
  BY <1>1, OneMoverInvariant, PTL

-----------------------------------------------------------------------------
(* Lists: the elements of a set in some order, and lists put in a row.       *)

\* SetToSeq lists each element of a finite set once.
LEMMA OrderLists ==
  ASSUME NEW S, IsFiniteSet(S)
  PROVE  /\ T!Cardinality(S) = Cardinality(S) /\ Cardinality(S) \in Nat
         /\ T!SetToSeq(S) \in [1..Cardinality(S) -> S]
         /\ \A i, j \in 1..Cardinality(S) : i # j => T!SetToSeq(S)[i] # T!SetToSeq(S)[j]
         /\ \A x \in S : \E i \in 1..Cardinality(S) : T!SetToSeq(S)[i] = x
<1> DEFINE n == Cardinality(S)
           q == T!SetToSeq(S)
<1>1. T!Cardinality(S) = n /\ n \in Nat
  BY FS_CardinalityType DEF T!Cardinality, Cardinality
<1>2. PICK f : f \in Bijection(1..n, S)
  BY FS_CardinalityType DEF ExistsBijection
<1>3. f \in [1..n -> S] /\ T!IsInjective(f)
  BY <1>2 DEF Bijection, Injection, IsInjective, T!IsInjective
<1>4. q = CHOOSE g \in [1..n -> S] : T!IsInjective(g)
  BY <1>1 DEF T!SetToSeq
<1>5. q \in [1..n -> S] /\ T!IsInjective(q)
  BY <1>3, <1>4
<1> HIDE DEF q
<1>6. q \in Injection(1..n, S)
  BY <1>5 DEF Injection, IsInjective, T!IsInjective
<1>7. IsFiniteSet(1..n) /\ Cardinality(1..n) = n
  <2>1. Cardinality(1..n) = IF 1 > n THEN 0 ELSE n - 1 + 1
    BY <1>1, FS_Interval
  <2>2. IsFiniteSet(1..n)
    BY <1>1, FS_Interval
  <2> QED
    BY <1>1, <2>1, <2>2
<1>8. q \in Surjection(1..n, S)
  BY <1>6, <1>7, FS_Injection
<1>9. \A i, j \in 1..n : i # j => q[i] # q[j]
  BY <1>5 DEF T!IsInjective
<1>10. \A x \in S : \E i \in 1..n : q[i] = x
  BY <1>8 DEF Surjection
<1> QED
  BY <1>1, <1>5, <1>9, <1>10 DEF q

\* The lists up to the i-th in a row.
InARow(Q, n, f) == f = [i \in 1..n |-> IF i = 1 THEN Q[i] ELSE f[i - 1] \o Q[i]]

LEMMA RowExists == ASSUME NEW Q, NEW n \in Nat PROVE \E f : InARow(Q, n, f)
<1> DEFINE X == {k \in Nat : ~\E f : InARow(Q, k, f)}
<1> SUFFICES ASSUME X # {} PROVE FALSE
  OBVIOUS
<1>1. PICK k \in X : \A m \in X : k <= m
  BY SmallestNat
<1>2. k \in Nat /\ ~\E f : InARow(Q, k, f)
  OBVIOUS
<1>3. k # 0
  <2> DEFINE f == [i \in 1..0 |-> 0]
  <2>1. InARow(Q, 0, f)
    BY DEF InARow
  <2> QED
    BY <1>2, <2>1
<1>4. k - 1 \in Nat /\ k - 1 \notin X
  BY <1>1, <1>2, <1>3
<1>5. PICK f : InARow(Q, k - 1, f)
  BY <1>4
<1> DEFINE h == [i \in 1..k |-> IF i < k THEN f[i]
                                ELSE IF k = 1 THEN Q[1] ELSE f[k - 1] \o Q[k]]
<1>6. ASSUME NEW i \in 1..k PROVE h[i] = IF i = 1 THEN Q[i] ELSE h[i - 1] \o Q[i]
  <2>1. \A j \in 1..(k - 1) : f[j] = IF j = 1 THEN Q[j] ELSE f[j - 1] \o Q[j]
    BY <1>5 DEF InARow
  <2>2. CASE i = k
    BY <1>2, <1>3, <2>2
  <2>3. CASE i < k
    <3>1. i \in 1..(k - 1) /\ h[i] = f[i] /\ (i # 1 => h[i - 1] = f[i - 1])
      BY <1>2, <2>3
    <3> QED
      BY <2>1, <3>1
  <2> QED
    BY <1>2, <2>2, <2>3
<1>7. InARow(Q, k, h)
  BY <1>6 DEF InARow
<1> QED
  BY <1>2, <1>7

\* Where each list begins in the row, less one.
Offsets(Q, n, off) ==
  /\ off \in [0..n -> Nat] /\ off[0] = 0
  /\ \A i \in 1..n : off[i] = off[i - 1] + Len(Q[i])

\* FlattenSeq puts the lists in a row.
LEMMA FlattenIsRow ==
  ASSUME NEW E, NEW n \in Nat, NEW Q \in [1..n -> Seq(E)]
  PROVE  \E off : /\ Offsets(Q, n, off)
                  /\ T!FlattenSeq(Q) \in Seq(E) /\ Len(T!FlattenSeq(Q)) = off[n]
                  /\ \A i \in 1..n : \A j \in 1..Len(Q[i]) :
                       /\ off[i - 1] + j <= off[n]
                       /\ T!FlattenSeq(Q)[off[i - 1] + j] = Q[i][j]
<1>1. Len(Q) = n /\ \A i \in 1..n : Q[i] \in Seq(E) /\ Len(Q[i]) \in Nat
  <2>1. Q \in Seq(Seq(E))
    BY SeqDef
  <2>2. Len(Q) \in Nat /\ DOMAIN Q = 1..Len(Q)
    BY <2>1, LenProperties
  <2>3. \A i \in 1..n : Q[i] \in Seq(E)
    OBVIOUS
  <2> QED
    BY <2>2, <2>3, LenProperties
<1>2. CASE n = 0
  <2> DEFINE off == [i \in 0..0 |-> 0]
  <2>1. T!FlattenSeq(Q) = Q
    BY <1>1, <1>2 DEF T!FlattenSeq
  <2>2. Q \in Seq(E)
    BY <1>2, SeqDef
  <2>3. Offsets(Q, n, off)
    BY <1>2 DEF Offsets
  <2> QED
    BY <1>1, <1>2, <2>1, <2>2, <2>3
<1>3. CASE n # 0
  <2> DEFINE f == CHOOSE f : InARow(Q, n, f)
             off == [i \in 0..n |-> IF i = 0 THEN 0 ELSE Len(f[i])]
  <2>1. InARow(Q, n, f)
    BY RowExists
  <2>2. T!FlattenSeq(Q) = f[n]
    BY <1>1, <1>3 DEF T!FlattenSeq, InARow
  <2> HIDE DEF f
  <2>3. \A i \in 1..n : f[i] = IF i = 1 THEN Q[i] ELSE f[i - 1] \o Q[i]
    BY <2>1 DEF InARow
  <2> DEFINE Row(m) == /\ f[m] \in Seq(E)
                       /\ off[m] = off[m - 1] + Len(Q[m]) /\ off[m - 1] \in Nat
                       /\ \A i \in 1..m : \A j \in 1..Len(Q[i]) :
                            /\ off[i - 1] + j <= off[m]
                            /\ f[m][off[i - 1] + j] = Q[i][j]
             X == {m \in 1..n : ~Row(m)}
  <2> HIDE DEF Row
  <2>4. ASSUME X # {} PROVE FALSE
    <3>1. X \in SUBSET Nat
      OBVIOUS
    <3>2. PICK m \in X : \A k \in X : m <= k
      BY <2>4, <3>1, SmallestNat
    <3>3. m \in 1..n /\ ~Row(m) /\ m \in Nat
      OBVIOUS
    <3>4. CASE m = 1
      <4>1. f[1] = Q[1] /\ off[0] = 0 /\ off[1] = Len(Q[1])
        BY <2>3, <3>3, <3>4
      <4>2. \A j \in 1..Len(Q[1]) : off[0] + j <= off[1] /\ f[1][off[0] + j] = Q[1][j]
        BY <4>1, <1>1, <3>3, <3>4
      <4>3. f[1] \in Seq(E) /\ off[1] = off[0] + Len(Q[1]) /\ off[0] \in Nat
        BY <4>1, <1>1, <3>3, <3>4
      <4> HIDE DEF off
      <4>4. Row(1)
        BY <4>2, <4>3 DEF Row
      <4> QED
        BY <3>3, <3>4, <4>4
    <3>5. CASE m # 1
      <4>1. m - 1 \in 1..n /\ m - 1 \notin X
        BY <3>2, <3>3, <3>5
      <4>2. Row(m - 1)
        BY <4>1
      <4>3. f[m - 1] \in Seq(E) /\ Q[m] \in Seq(E) /\ f[m] = f[m - 1] \o Q[m]
        BY <1>1, <2>3, <3>3, <3>5, <4>2 DEF Row
      <4>4. /\ f[m] \in Seq(E)
            /\ Len(f[m]) = Len(f[m - 1]) + Len(Q[m])
            /\ Len(f[m - 1]) \in Nat
            /\ Len(Q[m]) \in Nat
            /\ \A i \in 1..(Len(f[m - 1]) + Len(Q[m])) :
                 f[m][i] = IF i <= Len(f[m - 1]) THEN f[m - 1][i] ELSE Q[m][i - Len(f[m - 1])]
        BY <4>3, ConcatProperties, LenProperties
      <4>5. off[m] = Len(f[m]) /\ off[m - 1] = Len(f[m - 1])
        BY <3>3, <4>1
      <4>6. \A i \in 0..n : off[i] = IF i = 0 THEN 0 ELSE Len(f[i])
        OBVIOUS
      <4> HIDE DEF off
      <4>7. ASSUME NEW i \in 1..m, NEW j \in 1..Len(Q[i])
            PROVE  off[i - 1] + j <= off[m] /\ f[m][off[i - 1] + j] = Q[i][j]
        <5>1. CASE i = m
          <6>1. j \in 1..Len(Q[m])
            BY <5>1
          <6>2. off[m - 1] + j \in 1..(Len(f[m - 1]) + Len(Q[m])) /\ ~(off[m - 1] + j <= Len(f[m - 1]))
            BY <4>4, <4>5, <6>1
          <6>3. f[m][off[m - 1] + j] = Q[m][(off[m - 1] + j) - Len(f[m - 1])]
            BY <4>4, <6>2
          <6>4. (off[m - 1] + j) - Len(f[m - 1]) = j
            BY <4>4, <4>5, <6>1
          <6> QED
            BY <5>1, <4>4, <4>5, <6>2, <6>3, <6>4
        <5>2. CASE i # m
          <6>1. i \in 1..(m - 1)
            BY <3>3, <5>2
          <6>2. off[i - 1] + j <= off[m - 1] /\ f[m - 1][off[i - 1] + j] = Q[i][j]
            BY <4>2, <6>1 DEF Row
          <6>3. off[i - 1] \in Nat /\ j \in Nat /\ j >= 1
            <7>1. i - 1 \in 0..n /\ (i - 1 # 0 => i - 1 \in 1..n /\ ~(m <= i - 1))
              BY <3>3, <6>1
            <7>2. CASE i - 1 = 0
              BY <4>6, <7>2, <7>1
            <7>3. CASE i - 1 # 0
              <8>1. i - 1 \in 1..n
                BY <7>1, <7>3
              <8>2. Row(i - 1)
                BY <3>2, <7>1, <7>3, <8>1
              <8>3. f[i - 1] \in Seq(E)
                BY <8>2 DEF Row
              <8>4. off[i - 1] = Len(f[i - 1])
                BY <4>6, <7>1, <7>3
              <8>5. Len(f[i - 1]) \in Nat
                BY <8>3, LenProperties
              <8> QED
                BY <8>4, <8>5
            <7>4. Len(Q[i]) \in Nat
              BY <1>1, <3>3
            <7> QED
              BY <7>2, <7>3, <7>4
          <6>4. off[i - 1] + j \in 1..(Len(f[m - 1]) + Len(Q[m])) /\ off[i - 1] + j <= Len(f[m - 1])
            <7>1. Len(f[m - 1]) \in Nat /\ Len(Q[m]) \in Nat /\ off[m - 1] = Len(f[m - 1])
              BY <4>4, <4>5
            <7> DEFINE o == off[i - 1]
                       p == Len(f[m - 1])
                       q == Len(Q[m])
            <7>2. o \in Nat /\ j \in Nat /\ j >= 1 /\ p \in Nat /\ q \in Nat /\ o + j <= p
              BY <7>1, <6>2, <6>3
            <7> HIDE DEF o, p, q
            <7>3. o + j \in 1..(p + q) /\ o + j <= p
              BY <7>2
            <7> QED
              BY <7>3 DEF o, p, q
          <6>5. f[m][off[i - 1] + j] = f[m - 1][off[i - 1] + j]
            BY <4>4, <6>4
          <6> QED
            BY <4>4, <4>5, <6>2, <6>3, <6>4, <6>5
        <5> QED
          BY <5>1, <5>2
      <4>8. Row(m)
        BY <4>4, <4>5, <4>7 DEF Row
      <4> QED
        BY <3>3, <4>8
    <3> QED
      BY <3>4, <3>5
  <2>5. \A m \in 1..n : Row(m)
    BY <2>4
  <2>6. n \in 1..n /\ Row(n)
    <3>1. n \in 1..n
      BY <1>3
    <3> QED
      BY <2>5, <3>1
  <2>7. off[n] = Len(f[n]) /\ off[0] = 0
    BY <1>3
  <2>8. off \in [0..n -> Nat]
    <3>1. \A i \in 1..n : Len(f[i]) \in Nat
      BY <2>5, LenProperties DEF Row
    <3> QED
      BY <3>1
  <2> HIDE DEF off
  <2>9. Offsets(Q, n, off)
    BY <2>5, <2>7, <2>8 DEF Offsets, Row
  <2>10. /\ T!FlattenSeq(Q) \in Seq(E) /\ Len(T!FlattenSeq(Q)) = off[n]
         /\ \A i \in 1..n : \A j \in 1..Len(Q[i]) :
              /\ off[i - 1] + j <= off[n]
              /\ T!FlattenSeq(Q)[off[i - 1] + j] = Q[i][j]
    BY <2>2, <2>6, <2>7 DEF Row
  <2> QED
    BY <2>9, <2>10
<1> QED
  BY <1>2, <1>3

\* If each list is as long as a set is large, and the sets are disjoint, the row
\* is as long as their union is large.
LEMMA RowCounts ==
  ASSUME NEW n \in Nat, NEW G, IsFiniteSet(G), NEW A \in [1..n -> SUBSET G],
         \A i, j \in 1..n : i # j => A[i] \cap A[j] = {},
         NEW Q, NEW off, Offsets(Q, n, off),
         \A i \in 1..n : Len(Q[i]) = Cardinality(A[i])
  PROVE  off[n] = Cardinality(UNION {A[i] : i \in 1..n})
<1> DEFINE All(m) == UNION {A[i] : i \in 1..m}
           X == {m \in 0..n : off[m] # Cardinality(All(m))}
<1>1. ASSUME X # {} PROVE FALSE
  <2>1. X \in SUBSET Nat
    OBVIOUS
  <2>2. PICK m \in X : \A k \in X : m <= k
    BY <1>1, <2>1, SmallestNat
  <2>3. m \in 0..n /\ m \in Nat /\ off[m] # Cardinality(All(m))
    OBVIOUS
  <2>4. m # 0
    <3>1. All(0) = {}
      OBVIOUS
    <3> QED
      BY <2>3, <3>1, FS_EmptySet DEF Offsets
  <2>5. m \in 1..n /\ m - 1 \in 0..n /\ m - 1 \notin X
    BY <2>2, <2>3, <2>4
  <2> DEFINE a == All(m - 1)
             b == A[m]
  <2>6. 1..m = (1..(m - 1)) \cup {m} /\ m \notin 1..(m - 1) /\ 1..m \subseteq 1..n
    BY <2>3, <2>5
  <2>7. All(m) = a \cup b
    BY <2>6
  <2>8. a \cap b = {}
    BY <2>5, <2>6
  <2>9. IsFiniteSet(a) /\ IsFiniteSet(b)
    <3>1. a \in SUBSET G /\ b \in SUBSET G
      BY <2>5, <2>6
    <3> QED
      BY <3>1, FS_Subset
  <2>10. off[m] = off[m - 1] + Cardinality(b) /\ off[m - 1] = Cardinality(a)
    BY <2>5 DEF Offsets
  <2> HIDE DEF a, b, All
  <2>11. Cardinality(a \cup b) = Cardinality(a) + Cardinality(b) - Cardinality(a \cap b)
    BY <2>9, FS_Union
  <2>12. Cardinality(a) \in Nat /\ Cardinality(b) \in Nat /\ Cardinality(a \cap b) = 0
    BY <2>8, <2>9, FS_CardinalityType, FS_EmptySet
  <2>13. off[m] = Cardinality(a \cup b)
    BY <2>10, <2>11, <2>12
  <2> QED
    BY <2>3, <2>7, <2>13
<1>2. n \in 0..n
  OBVIOUS
<1>3. off[n] = Cardinality(All(n))
  BY <1>1, <1>2
<1> QED
  BY <1>3

-----------------------------------------------------------------------------
(* The path above a category                                                 *)

\* The parent of a listed category, if it is listed, has it as a child.
LEMMA ParentListed ==
  ASSUME Inv, NEW n \in Nodes, parent[n] \in Rows(parent)
  PROVE  n \in Under(parent, parent[n])
BY CategoriesAssumption DEF Under, Rows

NextPath(f, n) == Append(IF parent[n] \in T!Listed THEN f[parent[n]] ELSE <<>>, n)
PathsUpTo(k, f) ==
  f = [n \in {m \in Nodes : Height(m) + k >= Cardinality(Nodes)} |-> NextPath(f, n)]
Paths(f) == f = [n \in Nodes |-> NextPath(f, n)]

\* The paths exist: they can be made from the highest category down.
LEMMA PathsExist ==
  ASSUME Inv, Rooted(parent)
  PROVE  \E f : Paths(f)
<1> DEFINE N == Cardinality(Nodes)
           Dom(k) == {m \in Nodes : Height(m) + k >= N}
           X == {k \in Nat : ~\E f : PathsUpTo(k, f)}
<1>0. N \in Nat
  BY CategoriesAssumption, FS_CardinalityType
<1> HIDE DEF N
<1>1. ASSUME X # {} PROVE FALSE
  <2>1. PICK k \in X : \A m \in X : k <= m
    BY <1>1, SmallestNat
  <2>2. k \in Nat /\ ~\E f : PathsUpTo(k, f)
    OBVIOUS
  <2>3. PICK g : k = 0 \/ PathsUpTo(k - 1, g)
    <3>1. CASE k # 0
      <4>1. k - 1 \in Nat /\ k - 1 \notin X
        BY <2>1, <2>2, <3>1
      <4> QED
        BY <4>1
    <3> QED
      BY <3>1
  <2> DEFINE h == [n \in Dom(k) |-> IF n \in Dom(k - 1) THEN g[n] ELSE NextPath(g, n)]
  <2>4. ASSUME NEW n \in Dom(k) PROVE h[n] = NextPath(h, n)
    <3>1. NextPath(h, n) = NextPath(g, n)
      <4>1. CASE parent[n] \in T!Listed
        <5> DEFINE p == parent[n]
        <5>1. p \in Nodes /\ p \in Rows(parent) /\ n \in Nodes /\ n \in Under(parent, p)
          BY <4>1, TreeTerms, ParentListed DEF Rows
        <5>2. Height(n) < Height(p) /\ Height(n) \in Nat /\ Height(p) \in Nat
          BY <5>1, HeightFalls, HeightIsNat
        <5>3. Height(n) + k >= N
          OBVIOUS
        <5>4. p \in Dom(k - 1) /\ p \in Dom(k)
          BY <1>0, <2>2, <5>1, <5>2, <5>3
        <5>5. h[p] = g[p]
          BY <5>4
        <5> HIDE DEF h
        <5> QED
          BY <5>5 DEF NextPath
      <4>2. CASE parent[n] \notin T!Listed
        BY <4>2 DEF NextPath
      <4> QED
        BY <4>1, <4>2
    <3>2. CASE n \in Dom(k - 1)
      <4>1. k # 0
        <5>1. Height(n) \in Nat /\ Height(n) <= N
          BY HeightIsNat DEF N
        <5>2. Height(n) + (k - 1) >= N
          BY <3>2
        <5> QED
          BY <1>0, <2>2, <5>1, <5>2
      <4>2. g[n] = NextPath(g, n)
        BY <2>3, <3>2, <4>1 DEF PathsUpTo, N
      <4> QED
        BY <3>1, <3>2, <4>2
    <3>3. CASE n \notin Dom(k - 1)
      <4>1. h[n] = NextPath(g, n)
        BY <3>3
      <4> QED
        BY <3>1, <4>1
    <3> QED
      BY <3>2, <3>3
  <2>5. h = [n \in Dom(k) |-> h[n]]
    OBVIOUS
  <2> HIDE DEF h
  <2>6. PathsUpTo(k, h)
    BY <2>4, <2>5 DEF PathsUpTo, N
  <2> QED
    BY <2>2, <2>6
<1>2. PICK f : PathsUpTo(N, f)
  BY <1>0, <1>1
<1>3. Nodes = Dom(N)
  <2>1. \A m \in Nodes : Height(m) \in Nat
    BY HeightIsNat
  <2>2. \A m \in Nodes : Height(m) + N >= N
    BY <1>0, <2>1
  <2> QED
    BY <2>2
<1>4. Paths(f)
  BY <1>2, <1>3 DEF PathsUpTo, Paths, N
<1> QED
  BY <1>4

Depth(c) == Len(T!Path[c])

\* A path is one longer than that of the parent; that of a root has length one.
LEMMA PathLengths ==
  ASSUME Inv, Rooted(parent)
  PROVE  /\ \A c \in Rows(parent) : Depth(c) \in Nat
         /\ \A r \in Under(parent, None) : Depth(r) = 1
         /\ \A c \in Rows(parent) : \A d \in Under(parent, c) : Depth(d) = Depth(c) + 1
<1> DEFINE f == CHOOSE f : Paths(f)
<1>1. T!Path = f
  BY DEF T!Path, Paths, NextPath
<1>2. Paths(f)
  BY PathsExist
<1> HIDE DEF f
<1>3. \A n \in Nodes : f[n] = NextPath(f, n)
  BY <1>2 DEF Paths
<1>4. T!Listed = Rows(parent) /\ None \notin Nodes
  BY TreeTerms, CategoriesAssumption
<1> DEFINE s == {c \in Nodes : f[c] \in Seq(Nodes)}
<1>5. \A r \in Under(parent, None) : r \in s /\ f[r] = Append(<<>>, r)
  <2> TAKE r \in Under(parent, None)
  <2>1. r \in Nodes /\ parent[r] \notin T!Listed
    BY <1>4 DEF Under, Rows
  <2>2. f[r] = Append(<<>>, r)
    BY <1>3, <2>1 DEF NextPath
  <2>3. f[r] \in Seq(Nodes)
    BY <2>1, <2>2, EmptySeq
  <2> QED
    BY <2>1, <2>2, <2>3
<1>6. ASSUME NEW c \in Rows(parent), NEW d \in Under(parent, c)
      PROVE  f[d] = Append(f[c], d) /\ d \in Nodes
  <2>1. d \in Nodes /\ parent[d] = c /\ c \in T!Listed
    BY <1>4 DEF Under, Rows
  <2> QED
    BY <1>3, <2>1 DEF NextPath
<1>7. ClosedIn(parent, s)
  <2> SUFFICES ASSUME NEW e \in Rows(parent), parent[e] \in s PROVE e \in s
    BY DEF ClosedIn
  <2> DEFINE p == parent[e]
  <2>1. p \in Nodes /\ f[p] \in Seq(Nodes) /\ p \in Rows(parent) /\ e \in Under(parent, p)
    BY <1>4 DEF Inv, LinksAreLive, F!Live, Rows, Under
  <2>2. f[e] = Append(f[p], e) /\ e \in Nodes
    BY <1>6, <2>1
  <2>3. f[e] \in Seq(Nodes)
    BY <2>1, <2>2
  <2> QED
    BY <2>2, <2>3
<1>8. Rows(parent) \subseteq s
  <2>1. \A r \in Rows(parent) : parent[r] = None => r \in s
    BY <1>5 DEF Under
  <2>2. UnderRoots(parent) \subseteq s
    BY <1>7, <2>1, UnderRootsLeast
  <2> QED
    BY <2>2 DEF Rooted
<1>9. \A c \in Rows(parent) : Depth(c) \in Nat
  BY <1>1, <1>8, LenProperties DEF Depth
<1>10. \A r \in Under(parent, None) : Depth(r) = 1
  <2> TAKE r \in Under(parent, None)
  <2>1. f[r] = Append(<<>>, r)
    BY <1>5
  <2>2. Len(Append(<<>>, r)) = 1
    OBVIOUS
  <2> QED
    BY <1>1, <2>1, <2>2 DEF Depth
<1>11. ASSUME NEW c \in Rows(parent), NEW d \in Under(parent, c)
       PROVE  Depth(d) = Depth(c) + 1
  <2>1. f[c] \in Seq(Nodes) /\ f[d] = Append(f[c], d)
    BY <1>6, <1>8
  <2>2. Len(Append(f[c], d)) = Len(f[c]) + 1
    BY <2>1
  <2> QED
    BY <1>1, <2>1, <2>2 DEF Depth
<1> QED
  BY <1>9, <1>10, <1>11

-----------------------------------------------------------------------------
(* The flat list of the tree                                                 *)

Entries == [id : Nodes, depth : Nat]

Branches(f, S, d) ==
  T!FlattenSeq([i \in 1..T!Cardinality(S) |-> f[T!SetToSeq(S)[i]][d]])
Listing(f, n, d) == <<[id |-> n, depth |-> d]>> \o Branches(f, T!Children(n), d + 1)

ListsUpTo(k, f) ==
  f = [n \in {m \in Nodes : Height(m) <= k} |-> [d \in Nat |-> Listing(f, n, d)]]
Lists(f) == f = [n \in Nodes |-> [d \in Nat |-> Listing(f, n, d)]]

\* A list depends on those of the children only.
LEMMA BranchesDepend ==
  ASSUME NEW S, IsFiniteSet(S), NEW f, NEW g, NEW d, \A x \in S : f[x][d] = g[x][d]
  PROVE  Branches(f, S, d) = Branches(g, S, d)
<1>1. \A i \in 1..T!Cardinality(S) : T!SetToSeq(S)[i] \in S
  BY OrderLists
<1>2. [i \in 1..T!Cardinality(S) |-> f[T!SetToSeq(S)[i]][d]]
        = [i \in 1..T!Cardinality(S) |-> g[T!SetToSeq(S)[i]][d]]
  BY <1>1
<1> QED
  BY <1>2 DEF Branches

LEMMA ListingDepends ==
  ASSUME Inv, NEW n \in Nodes, NEW d \in Nat, NEW f, NEW g,
         \A c \in Under(parent, n) : f[c][d + 1] = g[c][d + 1]
  PROVE  Listing(f, n, d) = Listing(g, n, d)
BY TreeTerms, BranchesDepend DEF Listing

\* The lists exist: they can be made from the leaves up.
LEMMA ListsExist ==
  ASSUME Inv, Rooted(parent)
  PROVE  \E f : Lists(f)
<1> DEFINE Dom(k) == {m \in Nodes : Height(m) <= k}
           X == {k \in Nat : ~\E f : ListsUpTo(k, f)}
<1>1. ASSUME X # {} PROVE FALSE
  <2>1. PICK k \in X : \A m \in X : k <= m
    BY <1>1, SmallestNat
  <2>2. k \in Nat /\ ~\E f : ListsUpTo(k, f)
    OBVIOUS
  <2>3. PICK g : k = 0 \/ ListsUpTo(k - 1, g)
    <3>1. CASE k # 0
      <4>1. k - 1 \in Nat /\ k - 1 \notin X
        BY <2>1, <2>2, <3>1
      <4> QED
        BY <4>1
    <3> QED
      BY <3>1
  <2> DEFINE h == [n \in Dom(k) |-> [d \in Nat |->
                     IF n \in Dom(k - 1) THEN g[n][d] ELSE Listing(g, n, d)]]
  <2>4. ASSUME NEW n \in Dom(k), NEW d \in Nat PROVE h[n][d] = Listing(h, n, d)
    <3>1. Listing(h, n, d) = Listing(g, n, d)
      <4>1. ASSUME NEW c \in Under(parent, n) PROVE h[c][d + 1] = g[c][d + 1]
        <5>1. c \in Nodes /\ n \in Rows(parent)
          BY CategoriesAssumption DEF Under, Rows, Inv, LinksAreLive, F!Live
        <5>2. Height(c) < Height(n) /\ Height(n) \in Nat /\ Height(c) \in Nat
          BY <5>1, HeightFalls, HeightIsNat
        <5>3. Height(n) <= k
          OBVIOUS
        <5>4. c \in Dom(k - 1) /\ c \in Dom(k) /\ d + 1 \in Nat
          BY <2>2, <5>1, <5>2, <5>3
        <5> QED
          BY <5>4
      <4> HIDE DEF h
      <4>2. n \in Nodes
        OBVIOUS
      <4> QED
        BY <4>1, <4>2, ListingDepends
    <3>2. CASE n \in Dom(k - 1)
      <4>1. k # 0
        <5>1. Height(n) \in Nat /\ Height(n) <= k - 1
          BY <3>2, HeightIsNat
        <5> QED
          BY <2>2, <5>1
      <4>2. g[n][d] = Listing(g, n, d)
        BY <2>3, <3>2, <4>1 DEF ListsUpTo
      <4> QED
        BY <3>1, <3>2, <4>2
    <3>3. CASE n \notin Dom(k - 1)
      <4>1. h[n][d] = Listing(g, n, d)
        BY <3>3
      <4> QED
        BY <3>1, <4>1
    <3> QED
      BY <3>2, <3>3
  <2>5. h = [n \in Dom(k) |-> [d \in Nat |-> h[n][d]]]
    OBVIOUS
  <2> HIDE DEF h
  <2>6. [n \in Dom(k) |-> [d \in Nat |-> h[n][d]]] = [n \in Dom(k) |-> [d \in Nat |-> Listing(h, n, d)]]
    BY <2>4
  <2>7. ListsUpTo(k, h)
    BY <2>5, <2>6 DEF ListsUpTo
  <2> QED
    BY <2>2, <2>7
<1>2. Cardinality(Nodes) \in Nat
  BY CategoriesAssumption, FS_CardinalityType
<1>3. PICK f : ListsUpTo(Cardinality(Nodes), f)
  BY <1>1, <1>2
<1>4. Nodes = Dom(Cardinality(Nodes))
  BY HeightIsNat
<1>5. Lists(f)
  BY <1>3, <1>4 DEF ListsUpTo, Lists
<1> QED
  BY <1>5

\* A list has a place for every category of a subtree, as deep as its path is
\* longer than that of the top, and after the place of its parent.
Placed(q, x, d) ==
  \A e \in F!Below(parent, x) : \E i \in 1..Len(q) :
    /\ q[i].id = e
    /\ q[i].depth + Depth(x) = d + Depth(e)
    /\ e # x => \E j \in 1..(i - 1) :
                  q[j].id = parent[e] /\ q[j].depth = q[i].depth - 1
Whole(x, d, q) ==
  q \in Seq(Entries) /\ Len(q) = Height(x) /\ Placed(q, x, d)

\* The lists of several branches that are apart, put in a row.
LEMMA BranchesPlaced ==
  ASSUME Inv, Rooted(parent), NEW c \in Rows(parent) \cup {None}, NEW f, NEW d \in Nat,
         \A x \in Under(parent, c) : Whole(x, d, f[x][d])
  PROVE  LET S == Under(parent, c)
             q == Branches(f, S, d)
         IN /\ q \in Seq(Entries)
            /\ Len(q) = Cardinality(UNION {F!Below(parent, x) : x \in S})
            /\ \A x \in S : Placed(q, x, d)
<1> DEFINE S == Under(parent, c)
           n == Cardinality(S)
           order == T!SetToSeq(S)
           Q == [i \in 1..n |-> f[order[i]][d]]
           A == [i \in 1..n |-> F!Below(parent, order[i])]
           q == Branches(f, S, d)
<1>1. IsFiniteSet(S) /\ \A x \in S : x \in Nodes
  <2>1. S \in SUBSET Nodes
    BY DEF Under, Rows
  <2> QED
    BY <2>1, CategoriesAssumption, FS_Subset
<1>2. /\ T!Cardinality(S) = n /\ n \in Nat
      /\ order \in [1..n -> S]
      /\ \A i, j \in 1..n : i # j => order[i] # order[j]
      /\ \A x \in S : \E i \in 1..n : order[i] = x
  BY <1>1, OrderLists
<1>3. q = T!FlattenSeq(Q)
  BY <1>2 DEF Branches
<1>4. \A x \in S : f[x][d] \in Seq(Entries) /\ Len(f[x][d]) = Height(x)
                   /\ Placed(f[x][d], x, d)
  BY DEF Whole
<1>5. \A x, y \in S : x # y => F!Below(parent, x) \cap F!Below(parent, y) = {}
  BY SiblingsApart
<1>6. \A x \in S : F!Below(parent, x) \in SUBSET Nodes
  BY <1>1, BelowCollects DEF Rows
<1> HIDE DEF S, n, order, q
<1>7. Q \in [1..n -> Seq(Entries)] /\ \A i \in 1..n : Q[i] = f[order[i]][d] /\ order[i] \in S
  BY <1>2, <1>4
<1>8. A \in [1..n -> SUBSET Nodes] /\ \A i, j \in 1..n : i # j => A[i] \cap A[j] = {}
  BY <1>2, <1>5, <1>6
<1>9. \A i \in 1..n : Len(Q[i]) = Cardinality(A[i])
  BY <1>4, <1>7 DEF Height
<1>10. UNION {A[i] : i \in 1..n} = UNION {F!Below(parent, x) : x \in S}
  BY <1>2
<1> HIDE DEF Q, A
<1>11. PICK off : /\ Offsets(Q, n, off)
                  /\ q \in Seq(Entries) /\ Len(q) = off[n]
                  /\ \A i \in 1..n : \A j \in 1..Len(Q[i]) :
                       /\ off[i - 1] + j <= off[n]
                       /\ q[off[i - 1] + j] = Q[i][j]
  <2>1. n \in Nat /\ Q \in [1..n -> Seq(Entries)]
    BY <1>2, <1>7
  <2>2. \E off : /\ Offsets(Q, n, off)
                 /\ T!FlattenSeq(Q) \in Seq(Entries) /\ Len(T!FlattenSeq(Q)) = off[n]
                 /\ \A i \in 1..n : \A j \in 1..Len(Q[i]) :
                      /\ off[i - 1] + j <= off[n]
                      /\ T!FlattenSeq(Q)[off[i - 1] + j] = Q[i][j]
    BY <2>1, FlattenIsRow
  <2> QED
    BY <1>3, <2>2
<1>12. Len(q) = Cardinality(UNION {F!Below(parent, x) : x \in S})
  <2>1. n \in Nat /\ IsFiniteSet(Nodes) /\ Offsets(Q, n, off)
    BY <1>2, <1>11, CategoriesAssumption
  <2>2. off[n] = Cardinality(UNION {A[i] : i \in 1..n})
    BY <1>8, <1>9, <2>1, RowCounts
  <2> QED
    BY <1>10, <1>11, <2>2
<1>13. ASSUME NEW x \in S PROVE Placed(q, x, d)
  <2> SUFFICES ASSUME NEW e \in F!Below(parent, x)
               PROVE  \E i \in 1..Len(q) :
                        /\ q[i].id = e
                        /\ q[i].depth + Depth(x) = d + Depth(e)
                        /\ e # x => \E j \in 1..(i - 1) :
                             q[j].id = parent[e] /\ q[j].depth = q[i].depth - 1
    BY DEF Placed
  <2>1. PICK k \in 1..n : order[k] = x
    BY <1>2
  <2>2. Q[k] = f[x][d]
    BY <1>7, <2>1
  <2>3. PICK i \in 1..Len(Q[k]) :
          /\ Q[k][i].id = e
          /\ Q[k][i].depth + Depth(x) = d + Depth(e)
          /\ e # x => \E j \in 1..(i - 1) :
               Q[k][j].id = parent[e] /\ Q[k][j].depth = Q[k][i].depth - 1
    BY <1>4, <2>2 DEF Placed
  <2> DEFINE o == off[k - 1]
             l == Len(Q[k])
             m == Len(q)
  <2>4. o \in Nat /\ l \in Nat /\ m \in Nat
    <3>1. k - 1 \in 0..n
      BY <1>2
    <3>2. Q[k] \in Seq(Entries)
      BY <1>7
    <3> QED
      BY <1>11, <3>1, <3>2, LenProperties DEF Offsets
  <2>5. \A j \in 1..l : o + j <= m /\ q[o + j] = Q[k][j]
    BY <1>11
  <2> HIDE DEF o, l, m
  <2>6. \A j \in 1..l : o + j \in 1..m
    BY <2>4, <2>5
  <2>7. \A j \in 1..(i - 1) : j \in 1..l /\ o + j \in 1..((o + i) - 1)
    BY <2>3, <2>4 DEF l
  <2>8. o + i \in 1..m /\ q[o + i] = Q[k][i]
    BY <2>5, <2>6 DEF l
  <2>9. e # x => \E j \in 1..((o + i) - 1) :
                   q[j].id = parent[e] /\ q[j].depth = q[o + i].depth - 1
    <3> SUFFICES ASSUME e # x
                 PROVE  \E j \in 1..((o + i) - 1) :
                          q[j].id = parent[e] /\ q[j].depth = q[o + i].depth - 1
      OBVIOUS
    <3>1. PICK j \in 1..(i - 1) :
            Q[k][j].id = parent[e] /\ Q[k][j].depth = Q[k][i].depth - 1
      BY <2>3
    <3>2. q[o + j] = Q[k][j] /\ o + j \in 1..((o + i) - 1)
      BY <2>5, <2>7
    <3> QED
      BY <2>8, <3>1, <3>2
  <2>10. q[o + i].id = e /\ q[o + i].depth + Depth(x) = d + Depth(e)
    BY <2>3, <2>8
  <2> QED
    BY <2>8, <2>9, <2>10 DEF m
<1> QED
  BY <1>11, <1>12, <1>13 DEF S, q

\* What lies as deep below a child as its path says lies one deeper below the parent.
LEMMA DepthsShift ==
  ASSUME NEW a \in Nat, NEW child \in Nat, NEW own \in Nat, NEW top \in Nat, NEW d \in Nat,
         a + child = (d + 1) + own, child = top + 1
  PROVE  a + top = d + own
OBVIOUS

\* The list of a category is whole if those of its children are.
LEMMA ListingWhole ==
  ASSUME Inv, Rooted(parent), NEW n \in Rows(parent), NEW f, NEW d \in Nat,
         \A c \in Under(parent, n) : Whole(c, d + 1, f[c][d + 1])
  PROVE  Whole(n, d, Listing(f, n, d))
<1> DEFINE S == Under(parent, n)
           b == Branches(f, S, d + 1)
           top == [id |-> n, depth |-> d]
           q == <<top>> \o b
           sub == UNION {F!Below(parent, x) : x \in S}
<1>1. n \in Nodes /\ T!Children(n) = S
  BY TreeTerms DEF Rows
<1>2. Listing(f, n, d) = q
  BY <1>1 DEF Listing
<1>3. d + 1 \in Nat
  OBVIOUS
<1>4. b \in Seq(Entries) /\ Len(b) = Cardinality(sub) /\ \A x \in S : Placed(b, x, d + 1)
  BY <1>3, BranchesPlaced
<1>5. F!Below(parent, n) = {n} \cup sub /\ n \notin sub
  BY BelowSplits, ChildIsLower
<1>6. Height(n) = 1 + Len(b)
  <2>1. IsFiniteSet(sub)
    <3>1. sub \subseteq Nodes
      BY <1>1, <1>5, BelowCollects DEF Rows
    <3> QED
      BY <3>1, CategoriesAssumption, FS_Subset
  <2> HIDE DEF sub
  <2>2. Cardinality(sub \cup {n}) = Cardinality(sub) + 1
    BY <1>5, <2>1, FS_AddElement
  <2>3. {n} \cup sub = sub \cup {n}
    OBVIOUS
  <2>4. Cardinality(sub) \in Nat
    BY <2>1, FS_CardinalityType
  <2>5. Height(n) = Cardinality(sub) + 1
    BY <1>5, <2>2, <2>3 DEF Height
  <2>6. Len(b) = Cardinality(sub)
    BY <1>4
  <2> HIDE DEF b
  <2> QED
    BY <2>4, <2>5, <2>6
<1> HIDE DEF b, q, sub
<1>7. top \in Entries /\ <<top>> \in Seq(Entries) /\ Len(<<top>>) = 1 /\ <<top>>[1] = top
  BY <1>1 DEF Entries
<1> HIDE DEF top
<1>8. /\ q \in Seq(Entries)
      /\ Len(q) = 1 + Len(b)
      /\ Len(b) \in Nat
      /\ \A i \in 1..(1 + Len(b)) : q[i] = IF i <= 1 THEN <<top>>[i] ELSE b[i - 1]
  BY <1>4, <1>7, ConcatProperties, LenProperties DEF q
<1> DEFINE l == Len(b)
<1>9. l \in Nat /\ q[1] = top /\ \A i \in 1..l : q[i + 1] = b[i] /\ i + 1 \in 1..(1 + l)
  <2>1. 1 \in 1..(1 + Len(b)) /\ q[1] = top
    BY <1>7, <1>8
  <2>2. ASSUME NEW i \in 1..Len(b) PROVE q[i + 1] = b[i] /\ i + 1 \in 1..(1 + Len(b))
    <3>1. i + 1 \in 1..(1 + Len(b)) /\ ~(i + 1 <= 1) /\ (i + 1) - 1 = i
      BY <1>8
    <3> QED
      BY <1>8, <3>1
  <2> QED
    BY <1>8, <2>1, <2>2
<1>10. /\ Depth(n) \in Nat
       /\ \A c \in S : Depth(c) = Depth(n) + 1
  BY PathLengths
<1> HIDE DEF l
<1>11. Len(q) = 1 + l
  BY <1>8 DEF l
<1>12. Placed(q, n, d)
  <2> SUFFICES ASSUME NEW e \in F!Below(parent, n)
               PROVE  \E i \in 1..Len(q) :
                        /\ q[i].id = e
                        /\ q[i].depth + Depth(n) = d + Depth(e)
                        /\ e # n => \E j \in 1..(i - 1) :
                             q[j].id = parent[e] /\ q[j].depth = q[i].depth - 1
    BY DEF Placed
  <2>1. CASE e = n
    <3>1. 1 \in 1..Len(q) /\ q[1].id = n /\ q[1].depth = d
      BY <1>9, <1>11 DEF top
    <3> QED
      BY <2>1, <3>1
  <2>2. CASE e # n
    <3>1. PICK x \in S : e \in F!Below(parent, x)
      BY <1>5, <2>2 DEF sub
    <3>2. Placed(b, x, d + 1)
      BY <1>4
    <3>3. PICK i \in 1..l :
            /\ b[i].id = e
            /\ b[i].depth + Depth(x) = (d + 1) + Depth(e)
            /\ e # x => \E j \in 1..(i - 1) :
                 b[j].id = parent[e] /\ b[j].depth = b[i].depth - 1
      BY <3>1, <3>2 DEF Placed, l
    <3>4. q[i + 1] = b[i] /\ i + 1 \in 1..Len(q)
      BY <1>9, <1>11
    <3>5. b[i] \in Entries /\ b[i].depth \in Nat /\ Depth(x) = Depth(n) + 1
      <4>1. i \in 1..Len(b) /\ b \in Seq(Entries)
        BY <1>4, <3>3 DEF l
      <4>2. b[i] \in Entries
        BY <4>1, ElementOfSeq
      <4>3. b[i].depth \in Nat
        BY <4>2 DEF Entries
      <4> QED
        BY <1>10, <4>2, <4>3
    <3>6. Depth(e) \in Nat
      <4>1. e \in Rows(parent)
        BY <1>1, BelowCollects
      <4> QED
        BY <4>1, PathLengths
    <3>7. q[i + 1].depth + Depth(n) = d + Depth(e)
      <4>1. q[i + 1].depth = b[i].depth
        BY <3>4
      <4>2. b[i].depth + Depth(x) = (d + 1) + Depth(e)
        BY <3>3
      <4>3. b[i].depth + Depth(n) = d + Depth(e)
        BY <1>10, <3>5, <3>6, <4>2, DepthsShift
      <4> QED
        BY <4>1, <4>3
    <3>8. \E j \in 1..((i + 1) - 1) : q[j].id = parent[e] /\ q[j].depth = q[i + 1].depth - 1
      <4>1. CASE e = x
        <5>1. parent[e] = n
          BY <4>1 DEF S, Under
        <5>2. b[i].depth = d + 1
          BY <1>10, <3>3, <3>5, <3>6, <4>1
        <5>3. q[1].id = n /\ q[1].depth = d
          BY <1>9 DEF top
        <5>4. 1 \in 1..((i + 1) - 1)
          OBVIOUS
        <5>5. d = (d + 1) - 1
          OBVIOUS
        <5> QED
          BY <3>4, <5>1, <5>2, <5>3, <5>4, <5>5
      <4>2. CASE e # x
        <5>1. PICK j \in 1..(i - 1) : b[j].id = parent[e] /\ b[j].depth = b[i].depth - 1
          BY <3>3, <4>2
        <5>2. j \in 1..l /\ j + 1 \in 1..((i + 1) - 1)
          BY <1>9, <3>3
        <5>3. q[j + 1] = b[j]
          BY <1>9, <5>2
        <5> QED
          BY <3>4, <5>1, <5>2, <5>3
      <4> QED
        BY <4>1, <4>2
    <3>9. q[i + 1].id = e
      BY <3>3, <3>4
    <3> QED
      BY <3>4, <3>7, <3>8, <3>9
  <2> QED
    BY <2>1, <2>2
<1>13. Whole(n, d, q)
  BY <1>6, <1>8, <1>12 DEF Whole
<1> QED
  BY <1>2, <1>13

\* Every list is whole: a lowest category without a whole list would have
\* children with whole lists.
LEMMA ListsAreWhole ==
  ASSUME Inv, Rooted(parent), NEW f, Lists(f), NEW n \in Rows(parent), NEW d \in Nat
  PROVE  Whole(n, d, f[n][d])
<1> DEFINE Bad(m) == \E e \in Nat : ~Whole(m, e, f[m][e])
           X == {m \in Rows(parent) : Bad(m)}
           H == {Height(m) : m \in X}
<1>1. ASSUME X # {} PROVE FALSE
  <2>1. H \in SUBSET Nat /\ H # {}
    BY <1>1, HeightIsNat DEF Rows
  <2>2. PICK k \in H : \A i \in H : k <= i
    BY <2>1, SmallestNat
  <2>3. PICK m \in X : Height(m) = k
    OBVIOUS
  <2>4. m \in Rows(parent) /\ m \in Nodes /\ Height(m) \in Nat
    BY HeightIsNat DEF Rows
  <2>5. PICK e \in Nat : ~Whole(m, e, f[m][e])
    OBVIOUS
  <2>6. ASSUME NEW c \in Under(parent, m) PROVE Whole(c, e + 1, f[c][e + 1])
    <3>1. Height(c) < Height(m) /\ c \in Rows(parent) /\ c \in Nodes
      BY <2>4, HeightFalls DEF Under, Rows
    <3>2. Height(c) \in Nat
      BY <3>1, HeightIsNat
    <3>3. c \notin X
      BY <2>2, <2>3, <2>4, <3>1, <3>2
    <3> QED
      BY <3>1, <3>3
  <2>7. f[m][e] = Listing(f, m, e)
    BY <2>4 DEF Lists
  <2> QED
    BY <2>4, <2>5, <2>6, <2>7, ListingWhole
<1> QED
  BY <1>1

\* While one request moves at a time, the portal shows each category once, under
\* its parent and as deep as the path above it is long.
THEOREM TreeShowsAll == ASSUME OneMover PROVE Spec => []TreeIsWhole
<1>1. OneMoverInv => TreeIsWhole
  <2> SUFFICES ASSUME OneMoverInv PROVE TreeIsWhole
    OBVIOUS
  <2>0. Inv /\ Rooted(parent)
    BY DEF OneMoverInv
  <2> DEFINE f == CHOOSE f : Lists(f)
             S == Under(parent, None)
             q == T!Flat
  <2>1. T!Roots = S
    BY <2>0, TreeTerms
  <2>2. q = Branches(f, S, 0)
    BY <2>1 DEF T!Flat, Lists, Listing, Branches
  <2>3. Lists(f)
    BY <2>0, ListsExist
  <2> HIDE DEF f, q
  <2>4. \A r \in S : Whole(r, 0, f[r][0])
    BY <2>0, <2>3, ListsAreWhole DEF Under
  <2>5. /\ q \in Seq(Entries)
        /\ Len(q) = Cardinality(UNION {F!Below(parent, x) : x \in S})
        /\ \A x \in S : Placed(q, x, 0)
    BY <2>0, <2>2, <2>4, BranchesPlaced
  <2>6. UNION {F!Below(parent, x) : x \in S} = F!Live
    BY <2>0, BelowCollects DEF Rooted, UnderRoots, Under, Rows, F!Live
  <2>7. ASSUME NEW c \in F!Live
        PROVE  \E i \in DOMAIN q :
                 /\ q[i].id = c
                 /\ q[i].depth = Depth(c) - 1
                 /\ parent[c] # None => \E j \in DOMAIN q :
                      q[j].id = parent[c] /\ j < i /\ q[j].depth = q[i].depth - 1
    <3>1. PICK x \in S : c \in F!Below(parent, x)
      BY <2>6
    <3>2. Placed(q, x, 0) /\ Depth(x) = 1 /\ Depth(c) \in Nat
      BY <2>0, <2>5, PathLengths DEF F!Live, Rows
    <3>3. PICK i \in 1..Len(q) :
            /\ q[i].id = c
            /\ q[i].depth + Depth(x) = 0 + Depth(c)
            /\ c # x => \E j \in 1..(i - 1) :
                 q[j].id = parent[c] /\ q[j].depth = q[i].depth - 1
      BY <3>1, <3>2 DEF Placed
    <3>4. Len(q) \in Nat /\ DOMAIN q = 1..Len(q) /\ q[i].depth \in Nat
      <4>1. q[i] \in Entries
        BY <2>5, ElementOfSeq
      <4>2. q[i].depth \in Nat
        BY <4>1 DEF Entries
      <4> QED
        BY <2>5, <4>2, LenProperties
    <3>5. q[i].depth = Depth(c) - 1
      BY <3>2, <3>3, <3>4
    <3>6. ASSUME parent[c] # None
          PROVE  \E j \in DOMAIN q : q[j].id = parent[c] /\ j < i /\ q[j].depth = q[i].depth - 1
      <4>1. c # x
        BY <3>6 DEF Under
      <4>2. PICK j \in 1..(i - 1) : q[j].id = parent[c] /\ q[j].depth = q[i].depth - 1
        BY <3>3, <4>1
      <4>3. j \in 1..Len(q) /\ j < i
        BY <3>4
      <4> QED
        BY <3>4, <4>2, <4>3
    <3> QED
      BY <3>3, <3>4, <3>5, <3>6
  <2>8. Len(q) = Cardinality(F!Live)
    BY <2>5, <2>6
  <2> QED
    BY <2>7, <2>8 DEF TreeIsWhole, Depth, q
<1> QED
  BY <1>1, OneMoverInvariant, PTL
=============================================================================
