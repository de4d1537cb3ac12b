---------------------------- MODULE SuppliersPage ----------------------------
(* The page "Поставщики" (web/app/(app)/suppliers/page.tsx), its panel for   *)
(* one supplier and its table (web/components/suppliers-table.tsx). What a   *)
(* supplier's fields say is left out.                                        *)
EXTENDS WebCalls, Pager, FiniteSets

CONSTANTS SupplierIds    \* suppliers, each made once

VARIABLES
  ui,
  db     \* the suppliers there are, and ever were
vars == <<ui, db, pending>>

Init ==
  /\ \E s \in SUBSET SupplierIds : db = [live |-> s, born |-> s]
  /\ \E admin \in BOOLEAN :
       ui = [admin |-> admin, loading |-> TRUE, list |-> {}, table |-> NoTable,
             saving |-> FALSE, editing |-> None, editSaving |-> FALSE, deleting |-> FALSE]
  /\ pending = Opening(<<Request("load", "page")>>)

(* The user. *)

CanCreate(u) == u.admin /\ ~u.saving

OnCreate ==
  /\ CanCreate(ui)
  /\ Ask("create", None)
  /\ ui' = [ui EXCEPT !.saving = TRUE]
  /\ UNCHANGED db

\* The panel lies over the page, and only an admin's table opens it.
StartEdit(s) ==
  /\ ui.admin /\ ui.table # NoTable /\ ui.editing = None /\ s \in ui.list
  /\ ui' = [ui EXCEPT !.editing = s]
  /\ UNCHANGED <<db, pending>>
CloseEdit ==
  /\ ui.editing # None
  /\ ui' = [ui EXCEPT !.editing = None]
  /\ UNCHANGED <<db, pending>>

\* As a slip: each button is out for its own call only.
CanSaveWhileDeleting(u) == u.editing # None /\ ~u.editSaving
\* "Сохранить" and the bin.
CanPress(u) == u.editing # None /\ ~u.editSaving /\ ~u.deleting

OnSaveEdit ==
  /\ CanPress(ui)
  /\ Ask("save", ui.editing)
  /\ ui' = [ui EXCEPT !.editSaving = TRUE]
  /\ UNCHANGED db
\* The question has been answered with yes.
OnDelete ==
  /\ CanPress(ui)
  /\ Ask("delete", ui.editing)
  /\ ui' = [ui EXCEPT !.deleting = TRUE]
  /\ UNCHANGED db

TurnPage ==
  /\ ui.table # NoTable /\ ui.editing = None
  /\ \E t \in Turned(ui.table, Cardinality(ui.list)) : ui' = [ui EXCEPT !.table = t]
  /\ UNCHANGED <<db, pending>>

(* The server. *)

ServeList(c) ==
  /\ Waiting(c) /\ pending[c].op = "load"
  /\ Reply(c, db.live)
  /\ UNCHANGED <<ui, db>>
ServeCreate(c) ==
  /\ Waiting(c) /\ pending[c].op = "create"
  /\ \E s \in SupplierIds \ db.born :
       db' = [live |-> db.live \cup {s}, born |-> db.born \cup {s}]
  /\ Reply(c, "ok")
  /\ UNCHANGED ui
ServeSave(c) ==
  /\ Waiting(c) /\ pending[c].op = "save" /\ pending[c].arg \in db.live
  /\ Reply(c, "ok")
  /\ UNCHANGED <<ui, db>>
ServeDelete(c) ==
  /\ Waiting(c) /\ pending[c].op = "delete" /\ pending[c].arg \in db.live
  /\ db' = [db EXCEPT !.live = @ \ {pending[c].arg}]
  /\ Reply(c, "ok")
  /\ UNCHANGED ui
RefuseCall(c) == Refuse(c) /\ UNCHANGED <<ui, db>>

(* The continuations. *)

\* The finally block of the handler.
Ended(u, for) ==
  [u EXCEPT !.saving = IF for = "create" THEN FALSE ELSE u.saving,
            !.editSaving = IF for = "save" THEN FALSE ELSE u.editSaving,
            !.deleting = IF for = "delete" THEN FALSE ELSE u.deleting]

OnLoad(c) ==
  /\ Ok(c) /\ pending[c].op = "load"
  /\ ui' = Ended([ui EXCEPT !.loading = FALSE, !.list = pending[c].ans,
                         !.table = Refreshed(@)], pending[c].arg)
  /\ Return(c)
  /\ UNCHANGED db
OnLoadError(c) ==
  /\ Answered(c) /\ ~Ok(c) /\ pending[c].op = "load"
  /\ ui' = Ended([ui EXCEPT !.loading = FALSE, !.table = Uncovered(@)], pending[c].arg)
  /\ Return(c)
  /\ UNCHANGED db

\* A save or a deletion closes the panel, whoever it shows by now.
OnDone(c) ==
  /\ Ok(c) /\ pending[c].op # "load"
  /\ ui' = [ui EXCEPT !.loading = TRUE, !.table = NoTable,
                      !.editing = IF pending[c].op = "create" THEN @ ELSE None]
  /\ Await(c, "load", pending[c].op)
  /\ UNCHANGED db
OnError(c) ==
  /\ Answered(c) /\ ~Ok(c) /\ pending[c].op # "load"
  /\ ui' = Ended(ui, pending[c].op)
  /\ Return(c)
  /\ UNCHANGED db

Serve(c) == ServeList(c) \/ ServeCreate(c) \/ ServeSave(c) \/ ServeDelete(c) \/ RefuseCall(c)
Continue(c) == OnLoad(c) \/ OnLoadError(c) \/ OnDone(c) \/ OnError(c)
UserStep == \/ OnCreate \/ CloseEdit \/ OnSaveEdit \/ OnDelete \/ TurnPage
            \/ \E s \in SupplierIds : StartEdit(s)
Next == UserStep \/ \E c \in Calls : Serve(c) \/ Continue(c)
Spec == Init /\ [][Next]_vars

TypeOK ==
  /\ db.live \subseteq db.born /\ db.born \subseteq SupplierIds
  /\ ui.list \subseteq SupplierIds /\ ui.editing \in SupplierIds \cup {None}
  /\ ui.table # NoTable => ui.table \in [index : Nat, size : Sizes]

\* The table never shows an empty page of a list that has rows, whatever was
\* deleted and whichever of two lists came last.
PageHasRows ==
  (ui.table # NoTable /\ ui.list # {})
    => RowsShown(ui.table, Cardinality(ui.list)) # {}

\* The panel never saves and deletes at the same time, nor is either sent
\* twice, even if it is closed and opened for another supplier meanwhile.
OneCallOfPanel ==
  LET ofPanel == {c \in Calls : \/ pending[c].op \in {"save", "delete"}
                                \/ /\ pending[c].op = "load"
                                   /\ pending[c].arg \in {"save", "delete"}}
  IN /\ Cardinality(ofPanel) <= 1
     /\ ui.editSaving \/ ui.deleting <=> ofPanel # {}

Busy ==
  LET shown == [list |-> ui.loading, work |-> ui.saving,
            panel |-> ui.editSaving \/ ui.deleting]
  IN {x \in DOMAIN shown : shown[x]}
=============================================================================
