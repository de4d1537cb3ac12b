------------------------------- MODULE Forest -------------------------------
(* What the categories promise: a forest. A category is put under a category *)
(* that exists or made a root, is moved anywhere but into its own subtree,   *)
(* and goes with everything under it or with all the others.                 *)
CONSTANTS
  Nodes,
  None,     \* the parent of a root
  NoRow     \* not a category of the catalogue

VARIABLE parent

Live == {c \in Nodes : parent[c] # NoRow}

\* What the recursive query over parent_id collects: the smallest set with the
\* category in it that takes in every child of a member.
Below(f, c) ==
  LET rows == {d \in Nodes : f[d] # NoRow}
  IN {d \in rows : \A s \in SUBSET Nodes :
        c \in s /\ (\A e \in rows : f[e] \in s => e \in s) => d \in s}
Subtree(c) == Below(parent, c)

Init == parent = [c \in Nodes |-> NoRow]

Grow(c, p) ==
  /\ c \notin Live /\ p \in Live \cup {None}
  /\ parent' = [parent EXCEPT ![c] = p]

Move(c, p) ==
  /\ c \in Live /\ p \in (Live \ Subtree(c)) \cup {None}
  /\ parent' = [parent EXCEPT ![c] = p]

Prune(c) ==
  /\ c \in Live
  /\ parent' = [d \in Nodes |-> IF d \in Subtree(c) THEN NoRow ELSE parent[d]]

Clear == parent' = [c \in Nodes |-> NoRow]

Next ==
  \/ Clear
  \/ \E c \in Nodes : Prune(c) \/ \E p \in Nodes \cup {None} : Grow(c, p) \/ Move(c, p)
Spec == Init /\ [][Next]_parent

\* Every category hangs under a root: the path of a card ends, the tree shows
\* every category, and a recursive query over it returns.
EveryNodeRooted ==
  \A c \in Live : \E r \in Live : parent[r] = None /\ c \in Subtree(r)
=============================================================================
