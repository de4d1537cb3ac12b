---------------------------- MODULE ProductsPage ----------------------------
(* The page "Номенклатуры" (web/app/(app)/products/page.tsx): the cards by a *)
(* search, page after page, the form of a new card with its photos, and the  *)
(* category of a card chosen in the table. The panels of one card are        *)
(* EditSheet and ImagesSheet. Which cards there are is left out: a list is   *)
(* the search it answers and its length.                                     *)
EXTENDS WebCalls

CONSTANTS
  Searches, NoSearch,
  Total,        \* how many cards a search finds
  PageSize,
  FormFiles,    \* how many files may be chosen: at most MAX_IMAGES
  MaxNewCards   \* bound of the model: cards made in one visit

VARIABLES
  ui,
  db            \* how many cards were made from the form
vars == <<ui, db, pending>>

\* The list is asked for 300 ms after the page opens, too.
Init ==
  /\ ui = [query |-> NoSearch, timer |-> NoSearch,
           loading |-> TRUE, more |-> FALSE, len |-> 0, total |-> 0,
           filled |-> FALSE, files |-> 0, saving |-> FALSE]
  /\ pending = Opening(<<Request("categories", None)>>)
  /\ db = 0

Loading(u, offset) ==
  IF offset = 0 THEN [u EXCEPT !.loading = TRUE] ELSE [u EXCEPT !.more = TRUE]
Load(u, q, offset) ==
  /\ Ask("list", [query |-> q, offset |-> offset])
  /\ ui' = Loading(u, offset)

\* Typing, and the button that clears the field.
Search(q) ==
  /\ q # ui.query
  /\ ui' = [ui EXCEPT !.query = q, !.timer = q]
  /\ UNCHANGED <<db, pending>>

TimerFires ==
  /\ ui.timer # None
  /\ Load([ui EXCEPT !.timer = None], ui.timer, 0)
  /\ UNCHANGED db

CanMore == ~ui.loading /\ ui.len < ui.total /\ ~ui.more

ShowMore == CanMore /\ Load(ui, ui.query, ui.len) /\ UNCHANGED db

\* The form: a name, and some of the files chosen up to the limit.
FillForm(n) ==
  /\ <<TRUE, n>> # <<ui.filled, ui.files>>
  /\ ui' = [ui EXCEPT !.filled = TRUE, !.files = n]
  /\ UNCHANGED <<db, pending>>

CanCreate == ui.filled /\ ~ui.saving

\* onCreate keeps the search of the moment for the load it ends with.
OnCreate ==
  /\ CanCreate
  /\ Ask("create", [photos |-> ui.files, query |-> ui.query])
  /\ ui' = [ui EXCEPT !.saving = TRUE]
  /\ UNCHANGED db

\* The select of a row, in the list's view as a table; nothing disables it.
SetCategory ==
  /\ ~ui.loading /\ ui.len > 0
  /\ Ask("category", ui.query)
  /\ UNCHANGED <<ui, db>>

(* The server. *)

ServeCreate(c) ==
  /\ Waiting(c) /\ pending[c].op = "create" /\ db < MaxNewCards
  /\ db' = db + 1
  /\ Reply(c, "ok")
  /\ UNCHANGED ui

ServeList(c) ==
  /\ Waiting(c) /\ pending[c].op = "list"
  /\ LET left == Total[pending[c].arg.query] - pending[c].arg.offset
     IN Reply(c, IF left > PageSize THEN PageSize ELSE IF left > 0 THEN left ELSE 0)
  /\ UNCHANGED <<ui, db>>

ServeOther(c) ==
  /\ Waiting(c) /\ pending[c].op \in {"photo", "category", "categories"}
  /\ Reply(c, "ok")
  /\ UNCHANGED <<ui, db>>

\* A file that is no picture ends as a refused photo.
RefuseCall(c) == Refuse(c) /\ UNCHANGED <<ui, db>>

(* The continuations. *)

\* onCreate goes on: the next photo, or the form is cleared and the list loaded.
NextPhoto(c, photos, q) ==
  IF photos > 0
  THEN /\ Await(c, "photo", [photos |-> photos - 1, query |-> q])
       /\ UNCHANGED ui
  ELSE /\ Await(c, "list", [query |-> q, offset |-> 0, create |-> TRUE])
       /\ ui' = Loading([ui EXCEPT !.filled = FALSE, !.files = 0], 0)

OnCreated(c) ==
  /\ Ok(c) /\ pending[c].op \in {"create", "photo"}
  /\ NextPhoto(c, pending[c].arg.photos, pending[c].arg.query)
  /\ UNCHANGED db

\* The form stays as it is, the card too if it was made.
OnCreateError(c) ==
  /\ Answered(c) /\ ~Ok(c) /\ pending[c].op \in {"create", "photo"}
  /\ ui' = [ui EXCEPT !.saving = FALSE]
  /\ Return(c)
  /\ UNCHANGED db

OfCreate(c) == "create" \in DOMAIN pending[c].arg

OnList(c) ==
  /\ Answered(c) /\ pending[c].op = "list"
  /\ LET a == pending[c].arg
         n == pending[c].ans
         u == [ui EXCEPT !.loading = FALSE, !.more = FALSE, !.saving = @ /\ ~OfCreate(c)]
     IN ui' = IF ~Ok(c) THEN u
              ELSE IF a.offset = 0
              THEN [u EXCEPT !.len = n, !.total = Total[a.query]]
              ELSE [u EXCEPT !.len = @ + n, !.total = Total[a.query]]
  /\ Return(c)
  /\ UNCHANGED db

\* With the search the row was shown for.
OnCategory(c) ==
  /\ Answered(c) /\ pending[c].op = "category"
  /\ IF Ok(c) THEN /\ ui' = Loading(ui, 0)
                   /\ Await(c, "list", [query |-> pending[c].arg, offset |-> 0])
              ELSE Return(c) /\ UNCHANGED ui
  /\ UNCHANGED db

OnCategories(c) ==
  /\ Answered(c) /\ pending[c].op = "categories"
  /\ Return(c)
  /\ UNCHANGED <<ui, db>>

UserStep ==
  \/ \E q \in Searches : Search(q)
  \/ ShowMore
  \/ \E n \in FormFiles : FillForm(n)
  \/ OnCreate
  \/ SetCategory
Serve(c) == ServeCreate(c) \/ ServeList(c) \/ ServeOther(c) \/ RefuseCall(c)
Continue(c) == \/ OnCreated(c) \/ OnCreateError(c)
               \/ OnList(c) \/ OnCategory(c) \/ OnCategories(c)

Next == UserStep \/ TimerFires \/ \E c \in Calls : Serve(c) \/ Continue(c)
Spec == Init /\ [][Next]_vars

TypeOK ==
  /\ ui.query \in Searches /\ ui.timer \in Searches \cup {None}
  /\ ui.len \in Nat /\ ui.files \in FormFiles \cup {0}
  /\ db \in 0..MaxNewCards

\* One card at a time is being made from the form, its photos and the load at
\* the end included: a second press would make a second card.
SentOnce ==
  LET creating == {c \in Calls :
                     \/ pending[c].op \in {"create", "photo"}
                     \/ pending[c].op = "list" /\ OfCreate(c)}
  IN /\ \A c, d \in creating : c = d
     /\ ui.saving <=> creating # {}

\* What the page shows as busy: the form and the next page. The list itself can
\* be asked for again before it comes, but only by the user.
Busy ==
  LET shown == [work |-> ui.saving, more |-> ui.more, list |-> ui.loading]
  IN {x \in DOMAIN shown : shown[x]}
=============================================================================
