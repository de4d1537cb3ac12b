---------------------------- MODULE MatchingPage ----------------------------
(* The page "Сопоставление" (web/app/(app)/matching/page.tsx): a batch is    *)
(* chosen, its unmatched rows and their candidates are loaded, and each row  *)
(* is confirmed, made a card of, or left to the automatic run. What the page *)
(* writes about errors is left out.                                          *)
EXTENDS WebCalls, Sequences, FiniteSets

CONSTANTS
  Batches, Offers, Cards,
  OfferBatch,   \* the batch of a row
  Ranking,      \* the candidates the catalogue suggests for a row, best first
  NewCard       \* the card made from a row

VARIABLES
  ui,    \* the state of the page
  db     \* the rows that have a match
vars == <<ui, db, pending>>

RowsOf(b) == {o \in Offers : OfferBatch[o] = b}
Unmatched(b) == RowsOf(b) \ db
NoCandidates == [o \in Offers |-> <<>>]
First(s) == IF s = <<>> THEN None ELSE s[1]

\* The rows on the screen. The spinner takes their place while a load runs.
Shown(u) == IF u.loading THEN {} ELSE u.offers

\* A row keeps its own state as long as it is on the screen; a row that
\* appears takes its first candidate, whatever candidates come later.
Render(u) ==
  [u EXCEPT !.row =
    [o \in Offers |->
      IF o \notin Shown(u) THEN None
      ELSE IF u.row[o] # None THEN u.row[o]
      ELSE [selected |-> First(u.cands[o]), call |-> None]]]

Blank == [batch |-> None, offers |-> {}, cands |-> NoCandidates, total |-> 0,
          matched |-> 0, loading |-> FALSE, auto |-> FALSE,
          row |-> [o \in Offers |-> None]]

\* The page is opened from the menu, or with ?batch=<id>.
Init ==
  /\ db = {}
  /\ \E b \in Batches \cup {None} :
       /\ ui = Render([Blank EXCEPT !.batch = b, !.loading = (b # None)])
       /\ pending = IF b = None THEN NoCalls
                    ELSE Opening(<<Request("unmatched", [batch |-> b, auto |-> FALSE])>>)

SelectBatch(b) ==
  /\ CanCall
  /\ ui' = Render([ui EXCEPT !.batch = b, !.loading = TRUE])
  /\ Await(NextCall, "unmatched", [batch |-> b, auto |-> FALSE])
  /\ UNCHANGED db

\* The empty option clears the page and sends nothing.
SelectNone ==
  /\ ui' = Render([ui EXCEPT !.batch = None, !.offers = {}, !.cands = NoCandidates,
                             !.total = 0, !.matched = 0])
  /\ UNCHANGED <<db, pending>>

CanAuto(u) == u.batch # None /\ u.offers # {} /\ ~u.auto

OnAutoProcess ==
  /\ CanAuto(ui)
  /\ Ask("auto", ui.batch)
  /\ ui' = [ui EXCEPT !.auto = TRUE]
  /\ UNCHANGED db

\* Another of the candidates is chosen in the row.
Choose(o, p) ==
  /\ ui.row[o] # None /\ ui.row[o].call = None
  /\ \E i \in DOMAIN ui.cands[o] : ui.cands[o][i] = p
  /\ ui' = [ui EXCEPT !.row[o].selected = p]
  /\ UNCHANGED <<db, pending>>

\* The buttons of a row, which its own call disables. A card found by hand can
\* be any card.
ConfirmSelected(o) ==
  /\ ui.row[o] # None /\ ui.row[o].call = None
  /\ ui.cands[o] # <<>> /\ ui.row[o].selected # None
  /\ Ask("confirm", [offer |-> o, card |-> ui.row[o].selected])
  /\ ui' = [ui EXCEPT !.row[o].call = NextCall]
  /\ UNCHANGED db

ConfirmFound(o, p) ==
  /\ ui.row[o] # None /\ ui.row[o].call = None
  /\ Ask("confirm", [offer |-> o, card |-> p])
  /\ ui' = [ui EXCEPT !.row[o].call = NextCall]
  /\ UNCHANGED db

CreateFromOffer(o) ==
  /\ ui.row[o] # None /\ ui.row[o].call = None
  /\ Ask("create", [offer |-> o, card |-> NewCard])
  /\ ui' = [ui EXCEPT !.row[o].call = NextCall]
  /\ UNCHANGED db

(* The server. *)

ServeUnmatched(c) ==
  /\ Waiting(c) /\ pending[c].op = "unmatched"
  /\ LET b == pending[c].arg.batch
     IN Reply(c, [offers |-> Unmatched(b), total |-> Cardinality(RowsOf(b)),
                  matched |-> Cardinality(RowsOf(b) \ Unmatched(b))])
  /\ UNCHANGED <<ui, db>>

ServeSuggest(c) ==
  /\ Waiting(c) /\ pending[c].op = "suggest"
  /\ Reply(c, [o \in Offers |-> IF o \in pending[c].arg.list THEN Ranking[o] ELSE <<>>])
  /\ UNCHANGED <<ui, db>>

ServeMatch(c) ==
  /\ Waiting(c) /\ pending[c].op \in {"confirm", "create"}
  /\ db' = db \cup {pending[c].arg.offer}
  /\ Reply(c, "ok")
  /\ UNCHANGED ui

\* An automatic run decides some of the rows, by their first candidate or a new card.
ServeAuto(c) ==
  /\ Waiting(c) /\ pending[c].op = "auto"
  /\ \E S \in SUBSET Unmatched(pending[c].arg) : db' = db \cup S
  /\ Reply(c, "ok")
  /\ UNCHANGED ui

RefuseCall(c) == Refuse(c) /\ UNCHANGED <<ui, db>>

(* The continuations, in the order the answers arrive in. *)

\* As a slip: the load of any batch gives the button back.
EndLoadOfAny(c, u) ==
  /\ ui' = Render([u EXCEPT !.loading = FALSE, !.auto = FALSE])
  /\ Return(c)
  /\ UNCHANGED db

\* loadBatch ends: the spinner goes, and the button of the run comes back if
\* the load was its last part.
EndLoad(c, u) ==
  /\ ui' = Render([u EXCEPT !.loading = FALSE,
                            !.auto = IF pending[c].arg.auto THEN FALSE ELSE u.auto])
  /\ Return(c)
  /\ UNCHANGED db

OnUnmatched(c) ==
  /\ Ok(c) /\ pending[c].op = "unmatched"
  /\ LET d == pending[c].ans
         u == [ui EXCEPT !.offers = d.offers, !.total = d.total, !.matched = d.matched]
     IN IF d.offers # {}
        THEN /\ ui' = Render(u)
             /\ Await(c, "suggest", [list |-> d.offers, auto |-> pending[c].arg.auto])
             /\ UNCHANGED db
        ELSE EndLoad(c, [u EXCEPT !.cands = NoCandidates])

OnSuggest(c) ==
  /\ Ok(c) /\ pending[c].op = "suggest"
  /\ EndLoad(c, [ui EXCEPT !.cands = pending[c].ans])

OnLoadError(c) ==
  /\ Answered(c) /\ ~Ok(c) /\ pending[c].op \in {"unmatched", "suggest"}
  /\ EndLoad(c, ui)

\* After the run its batch is loaded, whatever batch is selected by now.
OnAuto(c) ==
  /\ Answered(c) /\ pending[c].op = "auto"
  /\ IF Ok(c) THEN /\ ui' = Render([ui EXCEPT !.loading = TRUE])
                   /\ Await(c, "unmatched", [batch |-> pending[c].arg, auto |-> TRUE])
              ELSE /\ ui' = [ui EXCEPT !.auto = FALSE]
                   /\ Return(c)
  /\ UNCHANGED db

OnDone(c) ==
  /\ Ok(c) /\ pending[c].op \in {"confirm", "create"}
  /\ ui' = Render([ui EXCEPT !.offers = @ \ {pending[c].arg.offer}, !.matched = @ + 1])
  /\ Return(c)
  /\ UNCHANGED db

\* As a slip: onDone in a finally block.
OnMatchErrorDone(c) ==
  /\ Answered(c) /\ ~Ok(c) /\ pending[c].op \in {"confirm", "create"}
  /\ ui' = Render([ui EXCEPT !.offers = @ \ {pending[c].arg.offer}, !.matched = @ + 1])
  /\ Return(c)
  /\ UNCHANGED db

\* setBusy(false) reaches the row only if it is still the one that called.
OnMatchError(c) ==
  /\ Answered(c) /\ ~Ok(c) /\ pending[c].op \in {"confirm", "create"}
  /\ LET o == pending[c].arg.offer
     IN ui' = IF ui.row[o] # None /\ ui.row[o].call = c
              THEN [ui EXCEPT !.row[o].call = None] ELSE ui
  /\ Return(c)
  /\ UNCHANGED db

Serve(c) == \/ ServeUnmatched(c) \/ ServeSuggest(c) \/ ServeMatch(c)
            \/ ServeAuto(c) \/ RefuseCall(c)
Continue(c) == \/ OnUnmatched(c) \/ OnSuggest(c) \/ OnLoadError(c)
               \/ OnAuto(c) \/ OnDone(c) \/ OnMatchError(c)
UserStep ==
  \/ \E b \in Batches : SelectBatch(b)
  \/ SelectNone
  \/ OnAutoProcess
  \/ \E o \in Offers :
       \/ ConfirmSelected(o)
       \/ CreateFromOffer(o)
       \/ \E p \in Cards : Choose(o, p) \/ ConfirmFound(o, p)

Next == UserStep \/ \E c \in Calls : Serve(c) \/ Continue(c)
Spec == Init /\ [][Next]_vars

TypeOK ==
  /\ db \subseteq Offers
  /\ ui.offers \subseteq Offers /\ ui.batch \in Batches \cup {None}
  /\ \A o \in Offers : (ui.row[o] # None) <=> (o \in Shown(ui))

\* The page never runs two automatic runs at once, however often the user
\* presses and whatever batches are selected meanwhile: two runs over one batch
\* make duplicate cards. The button is out until the load that ends the run.
OneRunAtATime ==
  LET OfRun(c) == \/ pending[c].op = "auto"
                  \/ pending[c].op \in {"unmatched", "suggest"} /\ pending[c].arg.auto
      running == {c \in Calls : OfRun(c)}
  IN /\ Cardinality(running) <= 1
     /\ ui.auto <=> running # {}

\* A row whose confirmation or new card comes to its end leaves the list only
\* if the catalogue has its match: after an error it stays there to be retried.
DoneIsMatched ==
  \A c \in Calls :
    (pending[c].op \in {"confirm", "create"} /\ Idle(c)')
      => (pending[c].arg.offer \in ui.offers \ ui'.offers => pending[c].arg.offer \in db)

\* What the page shows as busy: the list, the run, and each row whose buttons
\* are disabled.
Busy ==
  LET shown == [list |-> ui.loading, work |-> ui.auto]
  IN {x \in DOMAIN shown : shown[x]}
     \cup {o \in Offers : ui.row[o] # None /\ ui.row[o].call # None}
=============================================================================
