---------------------------- MODULE ImportsPage -----------------------------
(* The page "Прайс-листы" (web/app/(app)/imports/page.tsx): a supplier and a *)
(* file are chosen, the file is previewed with a proposed mapping of its     *)
(* columns, imported, and the rows of an imported batch are shown, each with *)
(* a card to match it in (web/components/offer-match-card.tsx). Which column *)
(* is which, and what is written about errors, is left out.                  *)
EXTENDS WebCalls

CONSTANTS
  Suppliers, ExcelSuppliers,
  Files,
  Batches, OldBatches,    \* the batches there can be; those imported before
  Offers, OfferBatch      \* the rows, and the batch of a row

VARIABLES
  ui,    \* the state of the page
  db     \* the imported batches
vars == <<ui, db, pending>>

RowsOf(b) == {o \in Offers : OfferBatch[o] = b}

\* The cards on the screen live as long as their rows are shown and open.
Render(u) ==
  [u EXCEPT !.card = [o \in Offers |->
     IF u.shown # None /\ o \in RowsOf(u.shown) /\ o \in u.open THEN u.card[o] ELSE None]]

Blank == [known |-> FALSE, supplier |-> None, file |-> None, preview |-> None,
          batches |-> {}, shown |-> None, open |-> {}, busy |-> FALSE,
          card |-> [o \in Offers |-> None]]

\* Both lists are asked for when the page opens, and not again if that fails.
Init ==
  /\ ui = Blank
  /\ db = OldBatches
  /\ pending = Opening(<<Request("suppliers", None), Request("batches", None)>>)

\* What belongs to another supplier's file is forgotten.
OnSelectSupplier(s) ==
  /\ s = None \/ ui.known
  /\ ui' = [ui EXCEPT !.supplier = s, !.file = None, !.preview = None]
  /\ UNCHANGED <<db, pending>>

\* Only the suppliers with price lists in Excel get the field for a file. The
\* preview of a file that is replaced stays on the screen.
ChooseFile(f) ==
  /\ ui.supplier \in ExcelSuppliers
  /\ ui' = [ui EXCEPT !.file = f]
  /\ UNCHANGED <<db, pending>>

CanPreview == ui.supplier \in ExcelSuppliers /\ ui.file # None /\ ~ui.busy

\* A preview is remembered with the supplier its file was chosen for.
OnPreview ==
  /\ CanPreview
  /\ Ask("preview", [file |-> ui.file, supplier |-> ui.supplier])
  /\ ui' = Render([ui EXCEPT !.busy = TRUE, !.shown = None])
  /\ UNCHANGED db

\* As a slip: the button of the form is not disabled by busy.
CanImportAgain == ui.preview # None /\ ui.supplier # None

CanImport == ui.preview # None /\ ui.supplier # None /\ ~ui.busy

OnImport ==
  /\ CanImport /\ ui.file # None
  /\ Ask("import", None)
  /\ ui' = [ui EXCEPT !.busy = TRUE]
  /\ UNCHANGED db

\* The table shows the batches of the selected supplier, or all of them.
OpenBatch(b) ==
  /\ b \in ui.batches
  /\ Ask("offers", [batch |-> b, import |-> FALSE])
  /\ UNCHANGED <<ui, db>>

\* A card that appears asks for its candidates at once.
ToggleMatch(o) ==
  /\ ui.shown # None /\ o \in RowsOf(ui.shown)
  /\ IF o \in ui.open
     THEN /\ ui' = Render([ui EXCEPT !.open = @ \ {o}])
          /\ UNCHANGED pending
     ELSE /\ Ask("suggest", o)
          /\ ui' = [ui EXCEPT !.open = @ \cup {o},
                              !.card[o] = [call |-> NextCall, loading |-> TRUE]]
  /\ UNCHANGED db

\* A candidate, a card found by hand or a new card: the buttons of one card of
\* the page are disabled together.
MatchOffer(o) ==
  /\ ui.card[o] # None /\ ui.card[o].call = None
  /\ Ask("match", o)
  /\ ui' = [ui EXCEPT !.card[o].call = NextCall]
  /\ UNCHANGED db

(* The server: an import makes a batch, and no other call here changes what   *)
(* the page reads back.                                                       *)

ServeImport(c) ==
  /\ Waiting(c) /\ pending[c].op = "import"
  /\ \E b \in Batches \ db :
       /\ db' = db \cup {b}
       /\ Reply(c, b)
  /\ UNCHANGED ui

ServeBatches(c) ==
  /\ Waiting(c) /\ pending[c].op = "batches"
  /\ Reply(c, db)
  /\ UNCHANGED <<ui, db>>

ServeOther(c) ==
  /\ Waiting(c) /\ pending[c].op \in {"suppliers", "preview", "offers", "suggest", "match"}
  /\ Reply(c, "ok")
  /\ UNCHANGED <<ui, db>>

RefuseCall(c) == Refuse(c) /\ UNCHANGED <<ui, db>>

(* The continuations. *)

OnSuppliers(c) ==
  /\ Answered(c) /\ pending[c].op = "suppliers"
  /\ ui' = [ui EXCEPT !.known = @ \/ Ok(c)]
  /\ Return(c)
  /\ UNCHANGED db

\* After an import the new batch is opened next; a failure ends the handler.
OnBatches(c) ==
  /\ Answered(c) /\ pending[c].op = "batches"
  /\ LET b == pending[c].arg
         u == IF Ok(c) THEN [ui EXCEPT !.batches = pending[c].ans] ELSE ui
     IN IF b = None THEN ui' = u /\ Return(c)
        ELSE IF Ok(c) THEN ui' = u /\ Await(c, "offers", [batch |-> b, import |-> TRUE])
        ELSE ui' = [u EXCEPT !.busy = FALSE] /\ Return(c)
  /\ UNCHANGED db

OnPreviewDone(c) ==
  /\ Answered(c) /\ pending[c].op = "preview"
  /\ ui' = [ui EXCEPT !.busy = FALSE, !.preview = IF Ok(c) THEN pending[c].arg ELSE @]
  /\ Return(c)
  /\ UNCHANGED db

\* The form is cleared, whatever has been chosen in it during the upload.
OnImportDone(c) ==
  /\ Answered(c) /\ pending[c].op = "import"
  /\ IF Ok(c) THEN /\ ui' = [ui EXCEPT !.preview = None, !.file = None]
                   /\ Await(c, "batches", pending[c].ans)
              ELSE /\ ui' = [ui EXCEPT !.busy = FALSE]
                   /\ Return(c)
  /\ UNCHANGED db

\* As a slip: a row opened in the batch before stays open.
OnOffersKeepOpen(c) ==
  /\ Answered(c) /\ pending[c].op = "offers"
  /\ LET a == pending[c].arg
     IN ui' = [ui EXCEPT !.busy = @ /\ ~a.import, !.shown = IF Ok(c) THEN a.batch ELSE @]
  /\ Return(c)
  /\ UNCHANGED db

\* The rows of a batch replace those shown, and no card is open.
OnOffers(c) ==
  /\ Answered(c) /\ pending[c].op = "offers"
  /\ LET a == pending[c].arg
         u == [ui EXCEPT !.busy = @ /\ ~a.import]
     IN ui' = IF Ok(c) THEN Render([u EXCEPT !.shown = a.batch, !.open = {}]) ELSE u
  /\ Return(c)
  /\ UNCHANGED db

\* A card that has gone meanwhile hears nothing (alive = false).
OnCardAnswer(c) ==
  /\ Answered(c) /\ pending[c].op \in {"suggest", "match"}
  /\ LET o == pending[c].arg
     IN ui' = IF ui.card[o] # None /\ ui.card[o].call = c
              THEN [ui EXCEPT !.card[o] = [call |-> None, loading |-> FALSE]] ELSE ui
  /\ Return(c)
  /\ UNCHANGED db

UserStep ==
  \/ \E s \in Suppliers \cup {None} : OnSelectSupplier(s)
  \/ \E f \in Files : ChooseFile(f)
  \/ OnPreview
  \/ OnImport
  \/ \E b \in Batches : OpenBatch(b)
  \/ \E o \in Offers : ToggleMatch(o) \/ MatchOffer(o)
Serve(c) == ServeImport(c) \/ ServeBatches(c) \/ ServeOther(c) \/ RefuseCall(c)
Continue(c) == \/ OnSuppliers(c) \/ OnBatches(c) \/ OnPreviewDone(c)
               \/ OnImportDone(c) \/ OnOffers(c) \/ OnCardAnswer(c)

Next == UserStep \/ \E c \in Calls : Serve(c) \/ Continue(c)
Spec == Init /\ [][Next]_vars

TypeOK ==
  /\ db \subseteq Batches /\ ui.batches \subseteq db
  /\ ui.supplier \in Suppliers \cup {None} /\ ui.file \in Files \cup {None}
  /\ ui.open \subseteq Offers

\* One preview or import of the page is under way at a time, up to the end of
\* the refresh an import ends with: a second press of a button, or the other
\* one, would import the file twice or lose the form of the first.
SentOnce ==
  LET Uploads == {c \in Calls :
                    \/ pending[c].op \in {"preview", "import"}
                    \/ pending[c].op = "batches" /\ pending[c].arg # None
                    \/ pending[c].op = "offers" /\ pending[c].arg.import}
  IN /\ \A c, d \in Uploads : c = d
     /\ ui.busy <=> Uploads # {}

\* An open card belongs to a row of the batch that is shown, whichever of two
\* batches answers last.
OpenMatchesAreShown == ui.shown # None => ui.open \subseteq RowsOf(ui.shown)

\* What the page shows as busy: an upload, and each card of a row.
Busy == (IF ui.busy THEN {"work"} ELSE {})
        \cup {o \in Offers : ui.card[o] # None /\ ui.card[o].call # None}
=============================================================================
