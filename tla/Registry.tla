------------------------------ MODULE Registry ------------------------------
(* What the table of suppliers promises: a supplier is entered, or renamed,  *)
(* under a name that nobody else has. Names that differ in case are one.     *)
CONSTANTS
  Suppliers,   \* ids
  Names,
  None         \* no such supplier

VARIABLE name

Known == {s \in Suppliers : name[s] # None}
Taken(n, s) == \E t \in Known \ {s} : name[t] = n

Init == name = [s \in Suppliers |-> None]

Enter(s, n) ==
  /\ s \notin Known /\ ~Taken(n, s)
  /\ name' = [name EXCEPT ![s] = n]
Rename(s, n) ==
  /\ s \in Known /\ ~Taken(n, s)
  /\ name' = [name EXCEPT ![s] = n]
Remove(s) == name' = [name EXCEPT ![s] = None]
Clear == name' = [s \in Suppliers |-> None]

Next ==
  \/ Clear
  \/ \E s \in Suppliers : Remove(s) \/ \E n \in Names : Enter(s, n) \/ Rename(s, n)
Spec == Init /\ [][Next]_name
=============================================================================
