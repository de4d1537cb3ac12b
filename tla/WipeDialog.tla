----------------------------- MODULE WipeDialog -----------------------------
(* "Очистить данные…" of the user's menu (web/components/wipe-data-dialog.tsx *)
(* and nav-user.tsx): the dialog stays mounted, shown or not.                *)
EXTENDS WebCalls

VARIABLES
  ui,
  db     \* what there is: price lists, cards (with all that is of them), suppliers
vars == <<ui, db, pending>>

\* `entered` is history: what was typed and ticked since the dialog was opened.
Nothing == [word |-> FALSE, suppliers |-> FALSE]
Blank == [open |-> FALSE, form |-> Nothing, busy |-> FALSE, entered |-> Nothing]

Init == ui = Blank /\ db = {"prices", "cards", "suppliers"} /\ pending = NoCalls

\* The item of the menu, which only an administrator has.
Open ==
  /\ ~ui.open
  /\ ui' = [ui EXCEPT !.open = TRUE, !.entered = Nothing]
  /\ UNCHANGED <<db, pending>>

\* The word, and the tick for the suppliers.
TypeWord(right) ==
  /\ ui.open /\ ui.form.word # right
  /\ ui' = [ui EXCEPT !.form.word = right, !.entered.word = right]
  /\ UNCHANGED <<db, pending>>
TickSuppliers ==
  /\ ui.open
  /\ ui' = [ui EXCEPT !.form.suppliers = ~@, !.entered.suppliers = ~ui.form.suppliers]
  /\ UNCHANGED <<db, pending>>

\* As a slip: the dialog closes as it is.
CloseAsItIs ==
  /\ ui.open /\ ~ui.busy
  /\ ui' = [ui EXCEPT !.open = FALSE]
  /\ UNCHANGED <<db, pending>>
\* The button and a click beside the dialog.
Close ==
  /\ ui.open /\ ~ui.busy
  /\ ui' = [ui EXCEPT !.open = FALSE, !.form = Nothing]
  /\ UNCHANGED <<db, pending>>

CanWipe(u) == u.open /\ u.form.word /\ ~u.busy
OnWipe ==
  /\ CanWipe(ui)
  /\ Ask("wipe", [suppliers |-> ui.form.suppliers, imports |-> FALSE])
  /\ ui' = [ui EXCEPT !.busy = TRUE]
  /\ UNCHANGED db

\* The gateway has the price lists wiped, then the cards; the second may fail.
ServeImports(c) ==
  /\ Waiting(c) /\ ~pending[c].arg.imports
  /\ db' = db \ {"prices"}
  /\ pending' = [pending EXCEPT ![c].arg.imports = TRUE]
  /\ UNCHANGED ui
ServeCatalog(c) ==
  /\ Waiting(c) /\ pending[c].arg.imports
  /\ db' = db \ ({"cards"} \cup IF pending[c].arg.suppliers THEN {"suppliers"} ELSE {})
  /\ Reply(c, "ok")
  /\ UNCHANGED ui
RefuseCall(c) == Refuse(c) /\ UNCHANGED <<ui, db>>

\* The whole portal is loaded anew.
OnWiped(c) ==
  /\ Ok(c)
  /\ ui' = Blank
  /\ pending' = NoCalls
  /\ UNCHANGED db

\* As a slip: the button stays out after an error.
OnWipeErrorBusy(c) ==
  /\ Answered(c) /\ ~Ok(c)
  /\ Return(c)
  /\ UNCHANGED <<ui, db>>
\* The word stays, to try again.
OnWipeError(c) ==
  /\ Answered(c) /\ ~Ok(c)
  /\ ui' = [ui EXCEPT !.busy = FALSE]
  /\ Return(c)
  /\ UNCHANGED db

Serve(c) == ServeImports(c) \/ ServeCatalog(c) \/ RefuseCall(c)
Continue(c) == OnWiped(c) \/ OnWipeError(c)
Next == \/ Open \/ TickSuppliers \/ Close \/ OnWipe
        \/ \E right \in BOOLEAN : TypeWord(right)
        \/ \E c \in Calls : Serve(c) \/ Continue(c)
Spec == Init /\ [][Next]_vars

TypeOK ==
  /\ db \subseteq {"prices", "cards", "suppliers"}
  /\ {ui.form, ui.entered} \subseteq [word : BOOLEAN, suppliers : BOOLEAN]
  /\ ui.open \/ ~ui.busy
  /\ ui.busy <=> ~Quiet

\* Whoever wipes has typed the word since the dialog was opened, and the
\* suppliers go only with a tick made since then.
WipeIsEnteredAnew ==
  CanWipe(ui) => /\ ui.entered.word
                 /\ ui.form.suppliers => ui.entered.suppliers

Busy == IF ui.busy THEN {"work"} ELSE {}
=============================================================================
