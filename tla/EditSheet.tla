----------------------------- MODULE EditSheet ------------------------------
(* The panel of a card (web/components/product-edit-sheet.tsx) over the list *)
(* it is opened from. It is one component for all the cards: its state lives *)
(* on when it is closed and opened for another. The list that onChanged loads*)
(* again is ProductsPage's.                                                  *)
EXTENDS WebCalls

CONSTANTS Products

VARIABLES
  ui,
  db            \* the cards that are left
vars == <<ui, db, pending>>

\* `asked` remembers the card for which the user was asked to confirm.
Init ==
  /\ ui = [card |-> None, form |-> None, edited |-> FALSE, confirm |-> FALSE,
           busy |-> FALSE, asked |-> None]
  /\ pending = NoCalls
  /\ db = Products

\* As a slip: the effect does not forget the first click.
OpenArmed(p) ==
  /\ ui.card = None /\ p \in db
  /\ ui' = [ui EXCEPT !.card = p, !.form = p, !.edited = FALSE, !.asked = None]
  /\ UNCHANGED <<db, pending>>

\* The panel covers the list, and another card can be opened only once it is
\* closed. A card on the list may have been deleted since; that only fails.
Open(p) ==
  /\ ui.card = None /\ p \in db
  /\ ui' = [ui EXCEPT !.card = p, !.form = p, !.edited = FALSE, !.confirm = FALSE,
                      !.asked = None]
  /\ UNCHANGED <<db, pending>>

\* The panel can be closed at any time, its call going on.
Close ==
  /\ ui.card # None
  /\ ui' = [ui EXCEPT !.card = None]
  /\ UNCHANGED <<db, pending>>

Edit ==
  /\ ui.card # None /\ ~ui.edited
  /\ ui' = [ui EXCEPT !.edited = TRUE]
  /\ UNCHANGED <<db, pending>>

CanPress == ui.card # None /\ ~ui.busy

OnSave ==
  /\ CanPress
  /\ Ask("save", [card |-> ui.card, form |-> ui.form])
  /\ ui' = [ui EXCEPT !.busy = TRUE]
  /\ UNCHANGED db

OnDeleteFirst ==
  /\ CanPress /\ ~ui.confirm
  /\ ui' = [ui EXCEPT !.confirm = TRUE, !.asked = ui.card]
  /\ UNCHANGED <<db, pending>>
OnDelete ==
  /\ CanPress /\ ui.confirm
  /\ Ask("delete", [card |-> ui.card, asked |-> ui.asked])
  /\ ui' = [ui EXCEPT !.busy = TRUE]
  /\ UNCHANGED db

ServeSave(c) ==
  /\ Waiting(c) /\ pending[c].op = "save" /\ pending[c].arg.card \in db
  /\ Reply(c, "ok")
  /\ UNCHANGED <<ui, db>>
ServeDelete(c) ==
  /\ Waiting(c) /\ pending[c].op = "delete" /\ pending[c].arg.card \in db
  /\ db' = db \ {pending[c].arg.card}
  /\ Reply(c, "ok")
  /\ UNCHANGED ui
RefuseCall(c) == Refuse(c) /\ UNCHANGED <<ui, db>>

\* onClose closes the panel, whichever card it is open for by now.
OnDone(c) ==
  /\ Ok(c)
  /\ ui' = [ui EXCEPT !.busy = FALSE, !.card = None]
  /\ Return(c)
  /\ UNCHANGED db

OnError(c) ==
  /\ Answered(c) /\ ~Ok(c)
  /\ ui' = [ui EXCEPT !.busy = FALSE, !.confirm = @ /\ pending[c].op # "delete"]
  /\ Return(c)
  /\ UNCHANGED db

UserStep ==
  \/ \E p \in Products : Open(p)
  \/ Close \/ Edit \/ OnSave \/ OnDeleteFirst \/ OnDelete
Serve(c) == ServeSave(c) \/ ServeDelete(c) \/ RefuseCall(c)
Continue(c) == OnDone(c) \/ OnError(c)

Next == UserStep \/ \E c \in Calls : Serve(c) \/ Continue(c)
Spec == Init /\ [][Next]_vars

TypeOK ==
  /\ db \subseteq Products /\ ui.card \in Products \cup {None}
  /\ ui.card # None => ui.form = ui.card

\* A card is deleted only after the user was asked about that very card, since
\* its panel was last opened, whatever late answer of another card came between.
AskedBeforeDelete ==
  \A c \in Calls : pending[c].op = "delete" => pending[c].arg.asked = pending[c].arg.card

\* The panel has one call under way, even if it was closed and opened again.
OneCallOfPanel ==
  /\ \A c, d \in Calls : ~Idle(c) /\ ~Idle(d) => c = d
  /\ ui.busy <=> ~Quiet

\* What the panel shows as busy.
Busy == IF ui.busy THEN {"work"} ELSE {}
=============================================================================
