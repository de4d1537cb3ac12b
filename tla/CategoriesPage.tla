--------------------------- MODULE CategoriesPage ---------------------------
(* The page "Категории каталога" (web/app/(app)/categories/page.tsx). Only   *)
(* which categories there are matters to it: what hangs under what is in     *)
(* Forest and CategoryTree.                                                  *)
EXTENDS WebCalls, FiniteSets

CONSTANTS
  Nodes,    \* categories, each made once
  Raw       \* categories of the suppliers

VARIABLES
  ui,
  db        \* the categories there are and ever were, and the mappings
vars == <<ui, db, pending>>

Unmapped == [r \in Raw |-> None]

\* load asks for the categories and the mappings at once, and goes on when both
\* have come: one call here, whose answer is of one moment.
Init ==
  /\ db = [live |-> {}, born |-> {}, maps |-> Unmapped]
  /\ ui = [loading |-> TRUE, cats |-> {}, maps |-> Unmapped, saving |-> FALSE,
           edit |-> None, applying |-> FALSE]
  /\ pending = Opening(<<Request("load", "page")>>)

(* The user. *)

CanCreate(u) == ~u.saving

\* Under a category on the screen or as a root. A parent that has gone by then
\* is one of the reasons of a refusal.
OnCreate ==
  /\ CanCreate(ui)
  /\ Ask("create", None)
  /\ ui' = [ui EXCEPT !.saving = TRUE]
  /\ UNCHANGED db

\* One row at a time is edited, if the tree is on the screen.
StartEdit(c) ==
  /\ ~ui.loading /\ c \in ui.cats /\ ui.edit # c
  /\ ui' = [ui EXCEPT !.edit = c]
  /\ UNCHANGED <<db, pending>>
CancelEdit ==
  /\ ~ui.loading /\ ui.edit \in ui.cats
  /\ ui' = [ui EXCEPT !.edit = None]
  /\ UNCHANGED <<db, pending>>

\* Nothing disables the button while a save is under way.
OnSaveEdit ==
  /\ ~ui.loading /\ ui.edit \in ui.cats
  /\ Ask("save", ui.edit)
  /\ UNCHANGED <<ui, db>>
OnDelete(c) ==
  /\ ~ui.loading /\ c \in ui.cats \ {ui.edit}
  /\ Ask("delete", c)
  /\ UNCHANGED <<ui, db>>

\* The table of mappings stays on the screen during a load.
MapSupplierCat(r, c) ==
  /\ c \in ui.cats \cup {None} /\ c # ui.maps[r]
  /\ Ask("map", [raw |-> r, to |-> c, make |-> FALSE])
  /\ UNCHANGED <<ui, db>>
MakeSupplierCat(r) ==
  /\ ui.maps[r] = None
  /\ Ask("map", [raw |-> r, to |-> None, make |-> TRUE])
  /\ UNCHANGED <<ui, db>>

CanApply(u) == ~u.applying /\ \E r \in Raw : u.maps[r] # None
OnApplyMappings ==
  /\ CanApply(ui)
  /\ Ask("apply", None)
  /\ ui' = [ui EXCEPT !.applying = TRUE]
  /\ UNCHANGED db

(* The server. *)

ServeLoad(c) ==
  /\ Waiting(c) /\ pending[c].op = "load"
  /\ Reply(c, [cats |-> db.live, maps |-> db.maps])
  /\ UNCHANGED <<ui, db>>

Born(d, n) == [d EXCEPT !.live = @ \cup {n}, !.born = @ \cup {n}]
ServeCreate(c) ==
  /\ Waiting(c) /\ pending[c].op = "create"
  /\ \E n \in Nodes \ db.born : db' = Born(db, n)
  /\ Reply(c, "ok")
  /\ UNCHANGED ui

\* A name or a place in the tree changes.
ServeSave(c) ==
  /\ Waiting(c) /\ pending[c].op = "save" /\ pending[c].arg \in db.live
  /\ Reply(c, "ok")
  /\ UNCHANGED <<ui, db>>

\* What is under the category goes too.
ServeDelete(c) ==
  /\ Waiting(c) /\ pending[c].op = "delete" /\ pending[c].arg \in db.live
  /\ \E gone \in SUBSET db.live :
       /\ pending[c].arg \in gone
       /\ db' = [db EXCEPT !.live = @ \ gone,
                           !.maps = [r \in Raw |-> IF @[r] \in gone THEN None ELSE @[r]]]
  /\ Reply(c, "ok")
  /\ UNCHANGED ui

ServeMap(c) ==
  /\ Waiting(c) /\ pending[c].op = "map"
  /\ LET a == pending[c].arg
     IN \/ /\ a.make
           /\ \E n \in Nodes \ db.born : db' = [Born(db, n) EXCEPT !.maps[a.raw] = n]
        \/ /\ ~a.make /\ a.to \in db.live \cup {None}
           /\ db' = [db EXCEPT !.maps[a.raw] = a.to]
  /\ Reply(c, "ok")
  /\ UNCHANGED ui

ServeApply(c) ==
  /\ Waiting(c) /\ pending[c].op = "apply"
  /\ Reply(c, "ok")
  /\ UNCHANGED <<ui, db>>

RefuseCall(c) == Refuse(c) /\ UNCHANGED <<ui, db>>

(* The continuations. *)

\* The handler that called load comes to its finally block.
Ended(u, for) ==
  [u EXCEPT !.saving = IF for = "create" THEN FALSE ELSE u.saving,
            !.applying = IF for = "apply" THEN FALSE ELSE u.applying]

OnLoad(c) ==
  /\ Ok(c) /\ pending[c].op = "load"
  /\ LET d == pending[c].ans
     IN ui' = Ended([ui EXCEPT !.loading = FALSE, !.cats = d.cats, !.maps = d.maps],
                    pending[c].arg)
  /\ Return(c)
  /\ UNCHANGED db

OnLoadError(c) ==
  /\ Answered(c) /\ ~Ok(c) /\ pending[c].op = "load"
  /\ ui' = Ended([ui EXCEPT !.loading = FALSE], pending[c].arg)
  /\ Return(c)
  /\ UNCHANGED db

\* A save that has come through closes whatever row is edited by now.
OnDone(c) ==
  /\ Ok(c) /\ pending[c].op # "load"
  /\ LET op == pending[c].op
     IN /\ ui' = [ui EXCEPT !.loading = TRUE,
                            !.edit = IF op = "save" THEN None ELSE ui.edit]
        /\ Await(c, "load", IF op \in {"create", "apply"} THEN op ELSE "page")
  /\ UNCHANGED db

OnError(c) ==
  /\ Answered(c) /\ ~Ok(c) /\ pending[c].op # "load"
  /\ ui' = Ended(ui, pending[c].op)
  /\ Return(c)
  /\ UNCHANGED db

Serve(c) == \/ ServeLoad(c) \/ ServeCreate(c)
            \/ ServeSave(c) \/ ServeDelete(c) \/ ServeMap(c) \/ ServeApply(c)
            \/ RefuseCall(c)
Continue(c) == OnLoad(c) \/ OnLoadError(c) \/ OnDone(c) \/ OnError(c)
UserStep ==
  \/ OnCreate \/ CancelEdit \/ OnSaveEdit \/ OnApplyMappings
  \/ \E n \in Nodes : StartEdit(n) \/ OnDelete(n)
  \/ \E r \in Raw : MakeSupplierCat(r) \/ \E n \in Nodes \cup {None} : MapSupplierCat(r, n)

Next == UserStep \/ \E c \in Calls : Serve(c) \/ Continue(c)
Spec == Init /\ [][Next]_vars

TypeOK ==
  /\ db.live \subseteq db.born /\ db.born \subseteq Nodes
  /\ ui.cats \subseteq Nodes
  /\ {db.maps, ui.maps} \subseteq [Raw -> Nodes \cup {None}]
  /\ ui.edit \in Nodes \cup {None}

\* A category is not made twice by a second press, and the run over the cards
\* not started twice: each button is out until the load that ends its handler.
SentOnce ==
  LET of(for) == {c \in Calls :
        \/ pending[c].op = for
        \/ pending[c].op = "load" /\ pending[c].arg = for}
  IN /\ Cardinality(of("create")) <= 1 /\ (ui.saving <=> of("create") # {})
     /\ Cardinality(of("apply")) <= 1 /\ (ui.applying <=> of("apply") # {})

Busy ==
  LET shown == [list |-> ui.loading, work |-> ui.saving, panel |-> ui.applying]
  IN {x \in DOMAIN shown : shown[x]}
=============================================================================
