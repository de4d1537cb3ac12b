---------------------------- MODULE ImagesSheet -----------------------------
(* The panel of a card's photos (web/components/product-images-sheet.tsx):   *)
(* up to MaxImages photos are added one by one, deleted, and moved. It is    *)
(* one component for all the cards. What the parent's list reloads when the  *)
(* panel is closed is ProductsPage's.                                        *)
EXTENDS WebCalls, Sequences, FiniteSets

CONSTANTS
  Products,
  Photos,       \* the photos each card has at first
  NewPhotos,    \* photos that can be added
  MaxImages,
  MaxFiles      \* bound of the model: files chosen at once

VARIABLES
  ui,
  db            \* the gallery of each card
vars == <<ui, db, pending>>

PhotosOf(s) == {s[i] : i \in DOMAIN s}
AllPhotos == NewPhotos \cup UNION {PhotosOf(Photos[p]) : p \in Products}
Galleries == UNION {PhotosOf(db[p]) : p \in Products}

Init ==
  /\ ui = [card |-> None, images |-> <<>>, busy |-> FALSE, changed |-> FALSE]
  /\ pending = NoCalls
  /\ db = Photos

\* The effect empties the panel and loads the gallery of the new card.
Open(p) ==
  /\ ui.card = None
  /\ Ask("load", [card |-> p, ends |-> FALSE])
  /\ ui' = [ui EXCEPT !.card = p, !.images = <<>>, !.changed = FALSE]
  /\ UNCHANGED db

\* The parent's list is loaded again if the gallery was changed.
Close ==
  /\ ui.card # None
  /\ ui' = [ui EXCEPT !.card = None, !.images = <<>>, !.changed = FALSE]
  /\ UNCHANGED <<db, pending>>

CanAdd == ui.card # None /\ ~ui.busy /\ Len(ui.images) < MaxImages

\* The files beyond the room that was seen are dropped.
OnFiles(n) ==
  /\ CanAdd
  /\ LET room == MaxImages - Len(ui.images)
     IN Ask("add", [card |-> ui.card, left |-> (IF n < room THEN n ELSE room) - 1])
  /\ ui' = [ui EXCEPT !.busy = TRUE]
  /\ UNCHANGED db

\* As a slip: the buttons of the photos are not disabled.
CanChangeAlways(i) == ui.card # None /\ i \in DOMAIN ui.images

CanChange(i) == ui.card # None /\ i \in DOMAIN ui.images /\ ~ui.busy

RemovePhoto(i) ==
  /\ CanChange(i)
  /\ Ask("remove", [card |-> ui.card, photo |-> ui.images[i]])
  /\ ui' = [ui EXCEPT !.busy = TRUE]
  /\ UNCHANGED db

Swapped(s, i, j) == [s EXCEPT ![i] = s[j], ![j] = s[i]]

\* The order is changed on the screen first and then sent; another move may
\* follow before the answer.
MovePhoto(i, j) ==
  /\ CanChange(i) /\ j \in DOMAIN ui.images /\ j \in {i - 1, i + 1}
  /\ LET next == Swapped(ui.images, i, j)
     IN /\ Ask("order", [card |-> ui.card, order |-> next])
        /\ ui' = [ui EXCEPT !.images = next]
  /\ UNCHANGED db

(* The server. *)

ServeLoad(c) ==
  /\ Waiting(c) /\ pending[c].op = "load"
  /\ Reply(c, db[pending[c].arg.card])
  /\ UNCHANGED <<ui, db>>

ServeAdd(c) ==
  /\ Waiting(c) /\ pending[c].op = "add"
  /\ Len(db[pending[c].arg.card]) < MaxImages
  /\ \E i \in NewPhotos \ Galleries : db' = [db EXCEPT ![pending[c].arg.card] = Append(@, i)]
  /\ Reply(c, "ok")
  /\ UNCHANGED ui

\* Those behind a photo that goes move up.
Without(s, i) ==
  IF i \notin PhotosOf(s) THEN s
  ELSE LET gone == CHOOSE n \in DOMAIN s : s[n] = i
       IN [n \in 1..(Len(s) - 1) |-> s[IF n < gone THEN n ELSE n + 1]]

\* The card in the path of the request is not asked: the photo goes.
ServeRemove(c) ==
  /\ Waiting(c) /\ pending[c].op = "remove" /\ pending[c].arg.photo \in Galleries
  /\ db' = [p \in Products |-> Without(db[p], pending[c].arg.photo)]
  /\ Reply(c, "ok")
  /\ UNCHANGED ui

\* The photos of the card that are named come in the named order; where those
\* not named stand among them depends on numbers left out here.
Orders(s, order) ==
  {t \in [DOMAIN s -> PhotosOf(s)] :
     /\ PhotosOf(t) = PhotosOf(s)
     /\ SelectSeq(t, LAMBDA i : i \in PhotosOf(order))
          = SelectSeq(order, LAMBDA i : i \in PhotosOf(s))}

ServeOrder(c) ==
  /\ Waiting(c) /\ pending[c].op = "order"
  /\ LET a == pending[c].arg
     IN \E t \in Orders(db[a.card], a.order) : db' = [db EXCEPT ![a.card] = t]
  /\ Reply(c, "ok")
  /\ UNCHANGED ui

RefuseCall(c) == Refuse(c) /\ UNCHANGED <<ui, db>>

(* The continuations. *)

\* The photos are shown, whichever card the panel is open for by now.
OnLoad(c) ==
  /\ Answered(c) /\ pending[c].op = "load"
  /\ ui' = [ui EXCEPT !.images = IF Ok(c) THEN pending[c].ans ELSE @,
                      !.busy = @ /\ ~pending[c].arg.ends]
  /\ Return(c)
  /\ UNCHANGED db

OnAdd(c) ==
  /\ Ok(c) /\ pending[c].op = "add"
  /\ LET a == pending[c].arg
     IN IF a.left > 0
        THEN Await(c, "add", [a EXCEPT !.left = @ - 1]) /\ UNCHANGED ui
        ELSE /\ Await(c, "load", [card |-> a.card, ends |-> TRUE])
             /\ ui' = [ui EXCEPT !.changed = TRUE]
  /\ UNCHANGED db

OnRemove(c) ==
  /\ Ok(c) /\ pending[c].op = "remove"
  /\ Await(c, "load", [card |-> pending[c].arg.card, ends |-> TRUE])
  /\ ui' = [ui EXCEPT !.changed = TRUE]
  /\ UNCHANGED db

OnChangeError(c) ==
  /\ Answered(c) /\ ~Ok(c) /\ pending[c].op \in {"add", "remove"}
  /\ ui' = [ui EXCEPT !.busy = FALSE]
  /\ Return(c)
  /\ UNCHANGED db

\* A move that failed is undone by the order of the server.
OnOrder(c) ==
  /\ Answered(c) /\ pending[c].op = "order"
  /\ IF Ok(c) THEN Return(c) /\ ui' = [ui EXCEPT !.changed = TRUE]
     ELSE Await(c, "load", [card |-> pending[c].arg.card, ends |-> FALSE]) /\ UNCHANGED ui
  /\ UNCHANGED db

Indices == 1..MaxImages
UserStep ==
  \/ \E p \in Products : Open(p)
  \/ Close
  \/ \E n \in 1..MaxFiles : OnFiles(n)
  \/ \E i \in Indices : RemovePhoto(i) \/ \E j \in Indices : MovePhoto(i, j)
Serve(c) == \/ ServeLoad(c) \/ ServeAdd(c) \/ ServeRemove(c)
            \/ ServeOrder(c) \/ RefuseCall(c)
Continue(c) == OnLoad(c) \/ OnAdd(c) \/ OnRemove(c) \/ OnChangeError(c) \/ OnOrder(c)

Next == UserStep \/ \E c \in Calls : Serve(c) \/ Continue(c)
Spec == Init /\ [][Next]_vars

TypeOK ==
  /\ ui.card \in Products \cup {None} /\ PhotosOf(ui.images) \subseteq AllPhotos
  /\ \A p \in Products : Len(db[p]) <= MaxImages /\ PhotosOf(db[p]) \subseteq AllPhotos

\* The panel adds or deletes one thing at a time, the load at the end included
\* and even if it was closed and opened for another card meanwhile.
OneChangeAtATime ==
  LET Changes == {c \in Calls :
                    \/ pending[c].op \in {"add", "remove"}
                    \/ pending[c].op = "load" /\ pending[c].arg.ends}
  IN /\ \A c, d \in Changes : c = d
     /\ ui.busy <=> Changes # {}

\* The panel is that of one card's gallery ("Панель управления галереей
\* карточки"): a photo it deletes is not another card's.
RemovesOwnPhoto ==
  \A c \in Calls, p \in Products :
    (Waiting(c) /\ pending[c].op = "remove" /\ p # pending[c].arg.card)
      => pending[c].arg.photo \notin PhotosOf(db[p])

\* What the panel shows as busy.
Busy == IF ui.busy THEN {"work"} ELSE {}
=============================================================================
