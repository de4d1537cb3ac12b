----------------------------- MODULE Categories -----------------------------
(* The categories of the catalogue and the supplier categories mapped to     *)
(* them (services/catalog: service/category.go, repository/category.go and   *)
(* the migrations 00006, 00007). Each statement of Postgres is a step.       *)
EXTENDS Naturals, FiniteSets, Sequences

CONSTANTS
  Nodes, None, NoRow,
  Movers,       \* requests that move a category, at the same time
  Goods,        \* the cards
  Raw,          \* categories of the suppliers
  RawOf         \* the supplier categories of the offers matched to a card

ASSUME CategoriesAssumption ==
  /\ None # NoRow /\ {None, NoRow} \cap Nodes = {}
  /\ IsFiniteSet(Nodes) /\ IsFiniteSet(Goods)
  /\ RawOf \in [Goods -> SUBSET Raw]

VARIABLES
  parent,       \* categories.parent_id; NoRow where there is no row
  moving,       \* what a request that has passed the check will update
  category,     \* products.category_id
  mapping,      \* category_mappings
  chosen        \* history: the category a card was last given by hand
vars == <<parent, moving, category, mapping, chosen>>

F == INSTANCE Forest
T == INSTANCE CategoryTree

Init ==
  /\ F!Init
  /\ moving = [w \in Movers |-> None]
  /\ category = [g \in Goods |-> None]
  /\ mapping = [r \in Raw |-> None]
  /\ chosen = [g \in Goods |-> None]

\* The id is new: it is nobody's, and no request can name it.
Fresh(c) == c \notin F!Live /\ \A w \in Movers : moving[w] # None => c \notin {moving[w].node, moving[w].to}

Create(c, p) ==
  /\ Fresh(c) /\ p \in F!Live \cup {None}
  /\ parent' = [parent EXCEPT ![c] = p]
  /\ UNCHANGED <<moving, category, mapping, chosen>>

\* Without a parent nothing is checked.
UpdateRoot(c) ==
  /\ c \in F!Live
  /\ parent' = [parent EXCEPT ![c] = None]
  /\ UNCHANGED <<moving, category, mapping, chosen>>

\* As a slip: only the parent itself is compared.
CheckParentOnly(w, c, p) ==
  /\ moving[w] = None /\ p # c
  /\ moving' = [moving EXCEPT ![w] = [node |-> c, to |-> p]]
  /\ UNCHANGED <<parent, category, mapping, chosen>>

\* The first statement of Update. Its recursive query (UNION ALL) does not
\* return for a category on a cycle.
CheckCycle(w, c, p) ==
  /\ moving[w] = None /\ p # c
  /\ {p, parent[c]} \cap F!Subtree(c) = {}
  /\ moving' = [moving EXCEPT ![w] = [node |-> c, to |-> p]]
  /\ UNCHANGED <<parent, category, mapping, chosen>>

\* The second statement. The row or, by its foreign key, the parent may have
\* gone in between: then it fails.
UpdateParent(w) ==
  /\ moving[w] # None
  /\ LET m == moving[w]
     IN parent' = IF {m.node, m.to} \subseteq F!Live
                  THEN [parent EXCEPT ![m.node] = m.to] ELSE parent
  /\ moving' = [moving EXCEPT ![w] = None]
  /\ UNCHANGED <<category, mapping, chosen>>

Kept(f, gone) == [x \in DOMAIN f |-> IF f[x] \in gone THEN None ELSE f[x]]

\* As a slip: a mapping is left behind (no cascade).
DeleteKeepMappings(c) ==
  /\ c \in F!Live
  /\ LET gone == F!Subtree(c)
     IN /\ parent' = [d \in Nodes |-> IF d \in gone THEN NoRow ELSE parent[d]]
        /\ category' = Kept(category, gone)
        /\ chosen' = Kept(chosen, gone)
  /\ UNCHANGED <<moving, mapping>>

\* The cascades: children go, mappings go, the cards lose their category.
Delete(c) ==
  /\ c \in F!Live
  /\ LET gone == F!Subtree(c)
     IN /\ parent' = [d \in Nodes |-> IF d \in gone THEN NoRow ELSE parent[d]]
        /\ category' = Kept(category, gone)
        /\ mapping' = Kept(mapping, gone)
        /\ chosen' = Kept(chosen, gone)
  /\ UNCHANGED moving

\* A mapping is set, dropped, or made with a root category of its own in one
\* transaction.
MapTo(r, c) ==
  /\ c \in F!Live \cup {None}
  /\ mapping' = [mapping EXCEPT ![r] = c]
  /\ UNCHANGED <<parent, moving, category, chosen>>
MapToNew(r, c) ==
  /\ Fresh(c)
  /\ parent' = [parent EXCEPT ![c] = None]
  /\ mapping' = [mapping EXCEPT ![r] = c]
  /\ UNCHANGED <<moving, category, chosen>>

SetProductCategory(g, c) ==
  /\ c \in F!Live \cup {None}
  /\ category' = [category EXCEPT ![g] = c]
  /\ chosen' = [chosen EXCEPT ![g] = c]
  /\ UNCHANGED <<parent, moving, mapping>>

Mapped(g) == {mapping[r] : r \in RawOf[g]} \ {None}

\* As a slip: cards that have a category are sorted anew.
ApplyToAll ==
  /\ \E g \in Goods : Mapped(g) # {}
  /\ category' \in {f \in [Goods -> Nodes \cup {None}] :
       \A g \in Goods : IF Mapped(g) = {} THEN f[g] = category[g] ELSE f[g] \in Mapped(g)}
  /\ UNCHANGED <<parent, moving, mapping, chosen>>

\* Every card without a category gets one of those its offers are mapped to.
ApplyMappings ==
  /\ \E g \in Goods : category[g] = None /\ Mapped(g) # {}
  /\ category' \in {f \in [Goods -> Nodes \cup {None}] :
       \A g \in Goods : IF category[g] # None \/ Mapped(g) = {} THEN f[g] = category[g]
                        ELSE f[g] \in Mapped(g)}
  /\ UNCHANGED <<parent, moving, mapping, chosen>>

\* A card made from a supplier's row starts in the category the row's is mapped
\* to. It takes the place of a card of Goods that was deleted.
CreateProductFromOffer(g, r) ==
  /\ r \in RawOf[g]
  /\ category' = [category EXCEPT ![g] = mapping[r]]
  /\ chosen' = [chosen EXCEPT ![g] = None]
  /\ UNCHANGED <<parent, moving, mapping>>

\* A wipe of the catalogue deletes the categories, with their mappings, and the
\* cards; those of Goods are from then on the cards made after it.
Wipe ==
  /\ parent' = [c \in Nodes |-> NoRow]
  /\ category' = [g \in Goods |-> None]
  /\ mapping' = [r \in Raw |-> None]
  /\ chosen' = [g \in Goods |-> None]
  /\ UNCHANGED moving

MoveStep == \E w \in Movers :
  UpdateParent(w) \/ \E c, p \in Nodes : CheckCycle(w, c, p)
Next ==
  \/ MoveStep
  \/ \E c \in Nodes :
       \/ UpdateRoot(c) \/ Delete(c)
       \/ \E p \in Nodes \cup {None} : Create(c, p)
  \/ \E r \in Raw, c \in Nodes \cup {None} : MapTo(r, c)
  \/ \E r \in Raw, c \in Nodes : MapToNew(r, c)
  \/ \E g \in Goods, c \in Nodes \cup {None} : SetProductCategory(g, c)
  \/ \E g \in Goods, r \in Raw : CreateProductFromOffer(g, r)
  \/ ApplyMappings
  \/ Wipe

Spec == Init /\ [][Next]_vars

\* One request moves at a time: its check is as good as a move in one step,
\* whatever is created, deleted and mapped between its two statements.
ImplementsForest == F!Spec

\* Nothing refers to a category that is gone: a card, a mapping, a child.
LinksAreLive ==
  /\ \A c \in F!Live : parent[c] \in F!Live \cup {None}
  /\ \A g \in Goods : category[g] \in F!Live \cup {None}
  /\ \A r \in Raw : mapping[r] \in F!Live \cup {None}

\* Every category hangs under a root, which the check before a move is there
\* for ("Перенос узла в собственное поддерево создал бы цикл — проверяем
\* заранее", repository/category.go:76).
EveryNodeRooted == F!EveryNodeRooted

\* A card sorted by hand keeps its category while the category exists, whatever
\* is mapped, moved and applied ("ручную раскладку не перетираем",
\* repository/category.go:188).
ChoiceIsKept == \A g \in Goods : chosen[g] # None => category[g] = chosen[g]

\* The portal shows each category once, under its parent and as deep as the path
\* above it is long: the selects for a parent or a mapping miss none.
TreeIsWhole ==
  LET place(c) == {i \in DOMAIN T!Flat : T!Flat[i].id = c}
  IN /\ Len(T!Flat) = Cardinality(F!Live)
     /\ \A c \in F!Live : \E i \in place(c) :
          /\ T!Flat[i].depth = Len(T!Path[c]) - 1
          /\ parent[c] # None => \E j \in place(parent[c]) :
               j < i /\ T!Flat[j].depth = T!Flat[i].depth - 1

\* The counter of a category is the number of cards that its filter finds (the
\* recursive query of the product list), and the sidebar's total is all cards.
TotalsAgree ==
  /\ \A c \in F!Live :
       T!Total[c] = Cardinality({g \in Goods : category[g] \in F!Subtree(c)})
  /\ T!TotalAll = Cardinality(Goods)
=============================================================================
