---------------------------- MODULE SupplierTable ----------------------------
(* The suppliers (services/catalog: service/supplier.go, repository/         *)
(* supplier.go and the migration 00001). A creation is a transaction of two  *)
(* statements at READ COMMITTED; the name has a unique index.                *)
EXTENDS Naturals, Sequences

CONSTANTS
  Suppliers, Names, None,
  Creators       \* requests that create a supplier, at the same time

ASSUME SupplierAssumption == None \notin Suppliers \cup Names

VARIABLES
  name,          \* suppliers.name of the rows that are committed
  creating       \* the name a creation has checked, and the id of its row
suppliersVars == <<name, creating>>

R == INSTANCE Registry

SuppliersInit ==
  /\ R!Init
  /\ creating = [w \in Creators |-> None]

Inserted(w) == creating[w] # None /\ creating[w].id # None
Entry(s) == \E w \in Creators : Inserted(w) /\ creating[w].id = s
InsertedAs(n) == \E w \in Creators : Inserted(w) /\ creating[w].name = n

\* ExistsByName sees what is committed.
ExistsByName(w, n) ==
  /\ creating[w] = None /\ \A s \in Suppliers : name[s] # n
  /\ creating' = [creating EXCEPT ![w] = [name |-> n, id |-> None]]
  /\ UNCHANGED name

\* As a slip: the transaction alone is trusted (no unique index).
InsertUnguarded(w, s) ==
  /\ creating[w] # None /\ ~Inserted(w)
  /\ name[s] = None /\ ~Entry(s)
  /\ creating' = [creating EXCEPT ![w].id = s]
  /\ UNCHANGED name

\* The unique index: the INSERT waits for a row of that name that is not yet
\* committed, and fails (CreateFail) on one that is.
InsertSupplier(w, s) ==
  /\ creating[w] # None /\ ~Inserted(w)
  /\ name[s] = None /\ ~Entry(s)
  /\ LET n == creating[w].name IN ~InsertedAs(n) /\ \A t \in Suppliers : name[t] # n
  /\ creating' = [creating EXCEPT ![w].id = s]
  /\ UNCHANGED name

CreateCommit(w) ==
  /\ Inserted(w)
  /\ name' = [name EXCEPT ![creating[w].id] = creating[w].name]
  /\ creating' = [creating EXCEPT ![w] = None]

\* The second of two equal names, a timeout, a lost connection.
CreateFail(w) ==
  /\ creating[w] # None
  /\ creating' = [creating EXCEPT ![w] = None]
  /\ UNCHANGED name

\* One statement; it, too, waits for an uncommitted row of its name.
UpdateSupplier(s, n) ==
  /\ name[s] # None
  /\ ~InsertedAs(n) /\ \A t \in Suppliers \ {s} : name[t] # n
  /\ name' = [name EXCEPT ![s] = n]
  /\ UNCHANGED creating

DeleteSupplier(s) ==
  /\ name[s] # None
  /\ name' = [name EXCEPT ![s] = None]
  /\ UNCHANGED creating

\* A wipe that includes the suppliers deletes the rows that are committed.
DeleteSuppliers ==
  /\ name' = [s \in Suppliers |-> None]
  /\ UNCHANGED creating
=============================================================================
