-------------------------- MODULE PortalListsProofs --------------------------
(* What the lists and tables of the portal show, for any data: the rows that *)
(* are open, the page of a table, and the price that is called the cheapest. *)
EXTENDS PortalCallsProofs, ComparePrices, SequenceTheorems, WellFoundedInduction

----------------------------------------------------------------------------
(* Price lists: the rows that are open for matching *)

OpenInv == {"shown", "open"} \subseteq DOMAIN ui /\ I!OpenMatchesAreShown

LEMMA OpenInit == ASSUME I!Init PROVE OpenInv
BY DEF I!Init, I!Blank, OpenInv, I!OpenMatchesAreShown

LEMMA OpenNext == ASSUME OpenInv, I!Next PROVE OpenInv'
<1> DEFINE Fields == {"shown", "open"}
<1>1. Fields \subseteq DOMAIN ui
  BY DEF OpenInv
<1>2. ASSUME NEW u, Fields \subseteq DOMAIN u
      PROVE  /\ Fields \subseteq DOMAIN I!Render(u)
             /\ I!Render(u).shown = u.shown /\ I!Render(u).open = u.open
  BY <1>2 DEF I!Render
<1>3. ASSUME Fields \subseteq DOMAIN ui', ui'.shown = ui.shown, ui'.open = ui.open
      PROVE  OpenInv'
  BY <1>3 DEF OpenInv, I!OpenMatchesAreShown, I!RowsOf
<1>4. CASE I!OnPreview
  <2> DEFINE u == [ui EXCEPT !.busy = TRUE, !.shown = None]
  <2>1. Fields \subseteq DOMAIN u /\ u.shown = None
    BY <1>1
  <2>2. ui' = I!Render(u)
    BY <1>4 DEF I!OnPreview
  <2> HIDE DEF u
  <2> QED
    BY <1>2, <2>1, <2>2 DEF OpenInv, I!OpenMatchesAreShown
<1>5. ASSUME NEW o \in Offers, I!ToggleMatch(o) PROVE OpenInv'
  <2>1. ui.shown # None /\ o \in I!RowsOf(ui.shown)
    BY <1>5 DEF I!ToggleMatch
  <2>2. CASE o \in ui.open
    <3> DEFINE u == [ui EXCEPT !.open = ui.open \ {o}]
    <3>1. Fields \subseteq DOMAIN u /\ u.shown = ui.shown /\ u.open \subseteq ui.open
      BY <1>1
    <3>2. ui' = I!Render(u)
      BY <1>5, <2>2 DEF I!ToggleMatch
    <3> HIDE DEF u
    <3> QED
      BY <1>2, <3>1, <3>2 DEF OpenInv, I!OpenMatchesAreShown, I!RowsOf
  <2>3. CASE o \notin ui.open
    <3>1. /\ Fields \subseteq DOMAIN ui' /\ ui'.shown = ui.shown
          /\ ui'.open = ui.open \cup {o}
      BY <1>1, <1>5, <2>3 DEF I!ToggleMatch
    <3> QED
      BY <2>1, <3>1 DEF OpenInv, I!OpenMatchesAreShown, I!RowsOf
  <2> QED
    BY <2>2, <2>3
<1>6. ASSUME NEW c, I!OnOffers(c) PROVE OpenInv'
  <2> DEFINE b == pending[c].arg.batch
             u == [ui EXCEPT !.busy = ui.busy /\ ~pending[c].arg.import]
             v == [u EXCEPT !.shown = b, !.open = {}]
  <2>1. Fields \subseteq DOMAIN u /\ u.shown = ui.shown /\ u.open = ui.open
    BY <1>1
  <2>2. Fields \subseteq DOMAIN v /\ v.open = {}
    BY <1>1
  <2>3. ui' = u \/ ui' = I!Render(v)
    BY <1>6 DEF I!OnOffers
  <2> HIDE DEF u, v
  <2>4. CASE ui' = u
    BY <1>3, <2>1, <2>4
  <2>5. CASE ui' = I!Render(v)
    BY <1>2, <2>2, <2>5 DEF OpenInv, I!OpenMatchesAreShown
  <2> QED
    BY <2>3, <2>4, <2>5
<1>7. ASSUME NEW v, \/ I!OnSelectSupplier(v) \/ I!ChooseFile(v) \/ I!OnImport
                    \/ I!OpenBatch(v) \/ I!MatchOffer(v) \/ I!Serve(v)
      PROVE  OpenInv'
  BY <1>1, <1>3, <1>7
  DEF I!OnSelectSupplier, I!ChooseFile, I!OnImport, I!OpenBatch, I!MatchOffer, I!Serve,
      I!ServeImport, I!ServeBatches, I!ServeOther, I!RefuseCall
<1>8. ASSUME NEW c, \/ I!OnSuppliers(c) \/ I!OnPreviewDone(c) \/ I!OnImportDone(c)
                    \/ I!OnCardAnswer(c)
      PROVE  OpenInv'
  BY <1>1, <1>3, <1>8 DEF I!OnSuppliers, I!OnPreviewDone, I!OnImportDone, I!OnCardAnswer
<1>9. ASSUME NEW c, I!OnBatches(c) PROVE OpenInv'
  <2> DEFINE u == [ui EXCEPT !.batches = pending[c].ans]
             v == [u EXCEPT !.busy = FALSE]
             w == [ui EXCEPT !.busy = FALSE]
  <2>1. \A x \in {ui, u, v, w} :
          Fields \subseteq DOMAIN x /\ x.shown = ui.shown /\ x.open = ui.open
    BY <1>1
  <2>2. ui' \in {ui, u, v, w}
    BY <1>9 DEF I!OnBatches
  <2> HIDE DEF u, v, w
  <2> QED
    BY <1>3, <2>1, <2>2
<1> QED
  BY <1>4, <1>5, <1>6, <1>7, <1>8, <1>9 DEF I!Next, I!UserStep, I!Continue

----------------------------------------------------------------------------
(* The table of the suppliers: its pages *)

\* The page begins before the end of n rows, or there are none.
Fits(t, n) ==
  /\ t \in [index : Nat, size : Sizes]
  /\ n > 0 => t.index * t.size < n

LEMMA SmallestNat ==
  ASSUME NEW X \in SUBSET Nat, X # {} PROVE \E n \in X : \A m \in X : n <= m
<1>1. PICK n \in X : \A m \in X : ~(<<m, n>> \in OpToRel(<, Nat))
  BY NatLessThanWellFounded, WFMin
<1>2. \A m \in X : ~(m < n)
  BY <1>1 DEF OpToRel
<1> QED
  BY <1>2

LEMMA NewTableFits == ASSUME NEW n \in Nat PROVE Fits(V!NewTable, n)
<1>1. Sizes \in SUBSET Nat /\ Sizes # {}
  BY PortalAssumption DEF PortalAssumption
<1>2. \E s \in Sizes : \A t \in Sizes : s <= t
  BY <1>1, SmallestNat
<1>3. /\ V!NewTable \in [index : Nat, size : Sizes] /\ V!NewTable.index = 0
  BY <1>2 DEF V!NewTable
<1>4. V!NewTable.size \in Nat
  BY <1>1, <1>3
<1> QED
  BY <1>3, <1>4 DEF Fits

LEMMA RefreshedFits ==
  ASSUME NEW t, NEW n \in Nat, t # NoTable => t \in [index : Nat, size : Sizes]
  PROVE  Fits(V!Refreshed(t), n)
<1>1. CASE t = NoTable
  BY <1>1, NewTableFits DEF V!Refreshed
<1>2. CASE t # NoTable
  <2> DEFINE u == [t EXCEPT !.index = 0]
  <2>1. u \in [index : Nat, size : Sizes] /\ u.index = 0
    BY <1>2
  <2>2. u.size \in Nat
    BY <2>1, PortalAssumption DEF PortalAssumption
  <2> QED
    BY <1>2, <2>1, <2>2 DEF V!Refreshed, Fits
<1> QED
  BY <1>1, <1>2

\* Whatever button of the footer is pressed, and whatever number of rows on a
\* page is chosen.
LEMMA TurnedFits ==
  ASSUME NEW n \in Nat, NEW t, Fits(t, n), NEW u \in V!Turned(t, n)
  PROVE  Fits(u, n)
<1>1. /\ t \in [index : Nat, size : Sizes] /\ t.index \in Nat /\ t.size \in Sizes
      /\ t.size \in Nat \ {0}
      /\ \A s \in Sizes : s \in Nat \ {0}
  BY PortalAssumption DEF PortalAssumption, Fits
<1>2. ASSUME NEW k \in Nat, u = [t EXCEPT !.index = k], n > 0 => k * t.size < n
      PROVE  Fits(u, n)
  <2>1. u \in [index : Nat, size : Sizes] /\ u.index = k /\ u.size = t.size
    BY <1>1, <1>2
  <2> QED
    BY <1>2, <2>1 DEF Fits
<1>3. ASSUME NEW s \in Sizes, u = V!SetPageSize(t, s) PROVE Fits(u, n)
  <2> DEFINE x == t.size * t.index
  <2>1. x \in Nat /\ x = t.index * t.size /\ s \in Nat \ {0}
    BY <1>1
  <2> HIDE DEF x
  <2>2. x \div s \in Nat /\ (x \div s) * s <= x /\ (x \div s) * s \in Nat
    BY <2>1
  <2>3. u = [index |-> x \div s, size |-> s]
    BY <1>3 DEF V!SetPageSize, x
  <2>4. n > 0 => x < n
    BY <2>1 DEF Fits
  <2> QED
    BY <2>1, <2>2, <2>3, <2>4 DEF Fits
<1>4. CASE V!CanPreviousPage(t) /\ u \in {[t EXCEPT !.index = 0], [t EXCEPT !.index = t.index - 1]}
  <2>1. t.index - 1 \in Nat
    BY <1>1, <1>4 DEF V!CanPreviousPage
  <2>2. 0 * t.size = 0 /\ (t.index - 1) * t.size <= t.index * t.size
    BY <1>1, <2>1
  <2>3. (t.index - 1) * t.size \in Nat /\ t.index * t.size \in Nat
    BY <1>1, <2>1
  <2>4. n > 0 => 0 * t.size < n /\ (t.index - 1) * t.size < n
    BY <2>2, <2>3 DEF Fits
  <2> QED
    BY <1>2, <1>4, <2>1, <2>4
<1>5. CASE /\ V!CanNextPage(t, n)
           /\ u \in {[t EXCEPT !.index = t.index + 1],
                    [t EXCEPT !.index = V!PageCount(t, n) - 1]}
  <2> DEFINE pages == V!PageCount(t, n)
             x == n + t.size - 1
  <2>1. x \in Nat
    BY <1>1
  <2>2. pages = x \div t.size
    BY DEF V!PageCount
  <2> HIDE DEF x
  <2>3. pages \in Nat /\ pages * t.size <= x
    BY <1>1, <2>1, <2>2
  <2> HIDE DEF pages
  <2>4. t.index < pages - 1
    BY <1>5 DEF V!CanNextPage, pages
  <2>5. pages - 1 \in Nat /\ t.index + 1 \in Nat /\ t.index + 1 <= pages - 1
    BY <1>1, <2>3, <2>4
  <2>6. (pages - 1) * t.size = pages * t.size - t.size
    BY <1>1, <2>3
  <2>7. (pages - 1) * t.size < n
    BY <1>1, <2>3, <2>6 DEF x
  <2>8. (t.index + 1) * t.size <= (pages - 1) * t.size
    BY <1>1, <2>5
  <2>9. (t.index + 1) * t.size < n
    BY <1>1, <2>5, <2>7, <2>8
  <2> QED
    BY <1>2, <1>5, <2>5, <2>7, <2>9 DEF pages
<1> QED
  BY <1>3, <1>4, <1>5 DEF V!Turned

LEMMA FitsShows ==
  ASSUME NEW n \in Nat, NEW t, Fits(t, n), n > 0
  PROVE  V!RowsShown(t, n) # {}
<1> DEFINE first == t.index * t.size
<1>1. t.index \in Nat /\ t.size \in Nat \ {0}
  BY PortalAssumption DEF PortalAssumption, Fits
<1>2. first \in Nat /\ first < n
  BY <1>1 DEF Fits
<1>3. (t.index + 1) * t.size = first + t.size
  BY <1>1
<1>4. first + 1 \in V!RowsShown(t, n)
  <2> HIDE DEF first
  <2>1. first + 1 \in 1..n /\ first < first + 1 /\ first + 1 <= first + t.size
    BY <1>1, <1>2
  <2> QED
    BY <1>3, <2>1 DEF V!RowsShown, first
<1> QED
  BY <1>4

\* What a list was answered with, or will be, is a list of suppliers.
ListAnswers ==
  \A c \in Calls : pending[c].op = "load"
    => pending[c].ans \in (SUBSET SupplierIds) \cup {Sent, Failed}

TableInv ==
  /\ CallsInv /\ {"list", "table"} \subseteq DOMAIN ui /\ "live" \in DOMAIN db
  /\ db.live \in SUBSET SupplierIds /\ ListAnswers
  /\ ui.list \in SUBSET SupplierIds
  /\ ui.table # NoTable => Fits(ui.table, Cardinality(ui.list))

LEMMA SupplierLists ==
  ASSUME NEW X \in SUBSET SupplierIds
  PROVE  /\ Cardinality(X) \in Nat /\ (X # {} => Cardinality(X) > 0)
         /\ V!Cardinality(X) = Cardinality(X)
<1>1. IsFiniteSet(X)
  BY PortalAssumption, FS_Subset DEF PortalAssumption
<1>2. V!Cardinality(X) = Cardinality(X)
  BY DEF V!Cardinality, Cardinality
<1>3. Cardinality(X) \in Nat /\ (Cardinality(X) = 0 <=> X = {})
  BY <1>1, FS_CardinalityType, FS_EmptySet
<1> QED
  BY <1>2, <1>3

LEMMA TableInit == ASSUME V!Init PROVE TableInv
<1>1. pending = Opening(<<Request("load", "page")>>)
  BY DEF V!Init, V!Opening, V!Request, V!NoCall, V!Calls, Opening, Request, NoCall, Calls
<1>2. CallsInv /\ ListAnswers
  BY <1>1 DEF CallsInv, ListAnswers, Opening, Request, NoCall, Calls
<1>3. /\ {"list", "table"} \subseteq DOMAIN ui /\ ui.list = {} /\ ui.table = NoTable
      /\ "live" \in DOMAIN db /\ db.live \in SUBSET SupplierIds
  BY DEF V!Init
<1> QED
  BY <1>2, <1>3 DEF TableInv

\* A step that leaves the list as it is, and the table or takes it away.
LEMMA TableStays ==
  ASSUME TableInv, CallsInv', ListAnswers', {"list", "table"} \subseteq DOMAIN ui',
         "live" \in DOMAIN db', db'.live \in SUBSET SupplierIds,
         ui'.list = ui.list, ui'.table \in {ui.table, NoTable}
  PROVE  TableInv'
BY DEF TableInv

LEMMA ListAnswersStay ==
  ASSUME ListAnswers, CallsInv, NEW c \in Calls, NEW op, NEW arg, Becomes(c, op, arg),
         op = "load" => pending'[c].ans = Sent
  PROVE  ListAnswers'
BY DEF ListAnswers, Becomes

LEMMA TableServe == ASSUME TableInv, NEW c \in Calls, V!Serve(c) PROVE TableInv'
<1>1. /\ CallsInv /\ {"list", "table"} \subseteq DOMAIN ui /\ "live" \in DOMAIN db
      /\ db.live \in SUBSET SupplierIds
  BY DEF TableInv
<1>2. PICK a : /\ pending' = [pending EXCEPT ![c].ans = a]
               /\ pending[c].op = "load" => a \in (SUBSET SupplierIds) \cup {Failed}
  <2>1. CASE V!ServeList(c)
    BY <1>1, <2>1 DEF V!ServeList, V!Reply
  <2>2. CASE V!ServeCreate(c) \/ V!ServeSave(c) \/ V!ServeDelete(c)
    BY <2>2 DEF V!ServeCreate, V!ServeSave, V!ServeDelete, V!Reply
  <2>3. CASE V!RefuseCall(c)
    BY <2>3 DEF V!RefuseCall, V!Refuse
  <2> QED
    BY <2>1, <2>2, <2>3 DEF V!Serve
<1>3. /\ ui' = ui /\ "live" \in DOMAIN db' /\ db'.live \in SUBSET SupplierIds
  <2>1. CASE V!ServeCreate(c)
    BY <1>1, <2>1 DEF V!ServeCreate
  <2>2. CASE V!ServeDelete(c)
    BY <1>1, <2>2 DEF V!ServeDelete
  <2>3. CASE V!ServeList(c) \/ V!ServeSave(c) \/ V!RefuseCall(c)
    BY <1>1, <2>3 DEF V!ServeList, V!ServeSave, V!RefuseCall
  <2> QED
    BY <2>1, <2>2, <2>3 DEF V!Serve
<1>4. CallsInv' /\ SameCalls
  BY <1>1, <1>2, AnswerChanges
<1>5. \A d \in Calls : pending'[d].ans = IF d = c THEN a ELSE pending[d].ans
  BY <1>1, <1>2 DEF CallsInv
<1>6. ListAnswers'
  BY <1>2, <1>4, <1>5 DEF TableInv, ListAnswers, SameCalls
<1> QED
  BY <1>1, <1>3, <1>4, <1>6, TableStays

LEMMA TableUser == ASSUME TableInv, V!UserStep PROVE TableInv'
<1>1. /\ CallsInv /\ {"list", "table"} \subseteq DOMAIN ui /\ "live" \in DOMAIN db
      /\ db.live \in SUBSET SupplierIds /\ ListAnswers
  BY DEF TableInv
<1>2. CASE V!TurnPage
  <2>1. /\ UNCHANGED <<db, pending>> /\ ui.table # NoTable
        /\ \E t \in V!Turned(ui.table, V!Cardinality(ui.list)) : ui' = [ui EXCEPT !.table = t]
    BY <1>2 DEF V!TurnPage
  <2>2. /\ V!Cardinality(ui.list) = Cardinality(ui.list) /\ Cardinality(ui.list) \in Nat
        /\ Fits(ui.table, Cardinality(ui.list))
    BY <2>1, SupplierLists DEF TableInv
  <2>3. PICK t : Fits(t, Cardinality(ui.list)) /\ ui' = [ui EXCEPT !.table = t]
    BY <2>1, <2>2, TurnedFits
  <2>4. /\ {"list", "table"} \subseteq DOMAIN ui' /\ ui'.list = ui.list /\ ui'.table = t
    BY <1>1, <2>3
  <2>5. CallsInv' /\ ListAnswers'
    BY <1>1, <2>1 DEF CallsInv, ListAnswers
  <2> QED
    BY <1>1, <2>1, <2>3, <2>4, <2>5 DEF TableInv
<1>3. ASSUME NEW s, V!StartEdit(s) \/ V!CloseEdit PROVE TableInv'
  <2>1. /\ UNCHANGED <<db, pending>> /\ {"list", "table"} \subseteq DOMAIN ui'
        /\ ui'.list = ui.list /\ ui'.table = ui.table
    BY <1>1, <1>3 DEF V!StartEdit, V!CloseEdit
  <2>2. CallsInv' /\ ListAnswers'
    BY <1>1, <2>1 DEF CallsInv, ListAnswers
  <2> QED
    BY <1>1, <2>1, <2>2, TableStays
<1>4. CASE V!OnCreate \/ V!OnSaveEdit \/ V!OnDelete
  <2>1. PICK op, arg : V!Ask(op, arg) /\ op # "load"
    BY <1>4 DEF V!OnCreate, V!OnSaveEdit, V!OnDelete
  <2>2. /\ db' = db /\ {"list", "table"} \subseteq DOMAIN ui'
        /\ ui'.list = ui.list /\ ui'.table = ui.table
    BY <1>1, <1>4 DEF V!OnCreate, V!OnSaveEdit, V!OnDelete
  <2>3. Ask(op, arg)
    BY <2>1 DEF V!Ask, V!CanCall, V!NextCall, V!Idle, V!Calls, V!Await, V!Request,
                Ask, CanCall, NextCall, Idle, Calls, Await, Request
  <2>4. PICK c \in Calls : Becomes(c, op, arg) /\ CallsInv'
    BY <1>1, <2>3, AskChanges
  <2>5. ListAnswers'
    BY <1>1, <2>1, <2>4, ListAnswersStay
  <2> QED
    BY <1>1, <2>2, <2>4, <2>5, TableStays
<1> QED
  BY <1>2, <1>3, <1>4 DEF V!UserStep

\* A list arrives, and a table that is there goes back to its first page.
LEMMA TableContinue == ASSUME TableInv, NEW c \in Calls, V!Continue(c) PROVE TableInv'
<1> DEFINE Fields == {"list", "table"}
<1>1. /\ CallsInv /\ Fields \subseteq DOMAIN ui /\ "live" \in DOMAIN db
      /\ db.live \in SUBSET SupplierIds /\ ListAnswers
      /\ ui.list \in SUBSET SupplierIds
      /\ ui.table # NoTable => Fits(ui.table, Cardinality(ui.list))
  BY DEF TableInv
<1>2. db' = db
  BY DEF V!Continue, V!OnLoad, V!OnLoadError, V!OnDone, V!OnError
<1>3. CallsInv' /\ ListAnswers'
  <2>1. V!Return(c) => Return(c)
    BY DEF V!Return, V!NoCall, Return, NoCall
  <2>2. \A op, arg : V!Await(c, op, arg) => Await(c, op, arg)
    BY DEF V!Await, V!Request, Await, Request
  <2>3. Return(c) \/ \E op, arg : Await(c, op, arg)
    BY <2>1, <2>2 DEF V!Continue, V!OnLoad, V!OnLoadError, V!OnDone, V!OnError
  <2>4. CASE Return(c)
    BY <1>1, <2>4, ReturnChanges, ListAnswersStay
  <2>5. ASSUME NEW op, NEW arg, Await(c, op, arg) PROVE CallsInv' /\ ListAnswers'
    BY <1>1, <2>5, AwaitChanges, ListAnswersStay
  <2> QED
    BY <2>3, <2>4, <2>5
<1>4. ASSUME NEW u, NEW for, Fields \subseteq DOMAIN u
      PROVE  /\ Fields \subseteq DOMAIN V!Ended(u, for)
             /\ V!Ended(u, for).list = u.list /\ V!Ended(u, for).table = u.table
  BY <1>4 DEF V!Ended
<1>5. ASSUME NEW X \in SUBSET SupplierIds, NEW t, Fits(t, Cardinality(X)),
             Fields \subseteq DOMAIN ui', ui'.list = X, ui'.table = t
      PROVE  TableInv'
  BY <1>1, <1>2, <1>3, <1>5 DEF TableInv
<1>6. CASE V!OnLoad(c)
  <2> DEFINE X == pending[c].ans
             t == V!Refreshed(ui.table)
             u == [ui EXCEPT !.loading = FALSE, !.list = X, !.table = t]
  <2>1. X \in SUBSET SupplierIds
    BY <1>1, <1>6 DEF V!OnLoad, V!Ok, V!Answered, ListAnswers
  <2>2. Fits(t, Cardinality(X))
    <3>1. Cardinality(X) \in Nat
      BY <2>1, SupplierLists
    <3>2. ui.table # NoTable => ui.table \in [index : Nat, size : Sizes]
      BY <1>1 DEF Fits
    <3> QED
      BY <3>1, <3>2, RefreshedFits
  <2>3. Fields \subseteq DOMAIN u /\ u.list = X /\ u.table = t
    BY <1>1
  <2>4. ui' = V!Ended(u, pending[c].arg)
    BY <1>6 DEF V!OnLoad
  <2> HIDE DEF u, t, X
  <2> QED
    BY <1>4, <1>5, <2>1, <2>2, <2>3, <2>4
<1>7. CASE V!OnLoadError(c)
  <2> DEFINE t == V!Uncovered(ui.table)
             u == [ui EXCEPT !.loading = FALSE, !.table = t]
  <2>1. Fits(t, Cardinality(ui.list))
    BY <1>1, SupplierLists, NewTableFits DEF V!Uncovered
  <2>2. Fields \subseteq DOMAIN u /\ u.list = ui.list /\ u.table = t
    BY <1>1
  <2>3. ui' = V!Ended(u, pending[c].arg)
    BY <1>7 DEF V!OnLoadError
  <2> HIDE DEF u, t
  <2> QED
    BY <1>1, <1>4, <1>5, <2>1, <2>2, <2>3
<1>8. CASE V!OnDone(c) \/ V!OnError(c)
  <2>1. Fields \subseteq DOMAIN ui' /\ ui'.list = ui.list /\ ui'.table \in {ui.table, NoTable}
    <3>1. CASE V!OnDone(c)
      BY <1>1, <3>1 DEF V!OnDone
    <3>2. CASE V!OnError(c)
      <4>1. ui' = V!Ended(ui, pending[c].op)
        BY <3>2 DEF V!OnError
      <4> QED
        BY <1>1, <1>4, <4>1
    <3> QED
      BY <1>8, <3>1, <3>2
  <2> QED
    BY <1>1, <1>2, <1>3, <2>1, TableStays
<1> QED
  BY <1>6, <1>7, <1>8 DEF V!Continue

LEMMA TableNext == ASSUME TableInv, V!Next PROVE TableInv'
BY TableUser, TableServe, TableContinue DEF V!Next, V!Calls, Calls

LEMMA TableShows == ASSUME TableInv PROVE V!PageHasRows
BY SupplierLists, FitsShows DEF TableInv, V!PageHasRows
----------------------------------------------------------------------------
(* The prices of a card: the sorted table and the price in the head *)

Offer == [Tiers -> 0..(NoLimit - 1)]
Before(offers, t, i) ==
  {j \in DOMAIN offers :
     \/ Key(offers[j], t) < Key(offers[i], t)
     \/ Key(offers[j], t) = Key(offers[i], t) /\ j <= i}

\* A missing price is sorted behind every price.
LEMMA KeysOrder ==
  ASSUME NEW offers \in Seq(Offer), NEW t \in Tiers, NEW i \in DOMAIN offers
  PROVE  /\ offers[i][t] \in 0..(NoLimit - 1) /\ Key(offers[i], t) \in Nat
         /\ offers[i][t] = 0 => Key(offers[i], t) = NoLimit
         /\ offers[i][t] # 0 => /\ Key(offers[i], t) = offers[i][t]
                                /\ Key(offers[i], t) < NoLimit
<1>1. offers[i] \in Offer
  BY ElementOfSeq
<1>2. offers[i][t] \in 0..(NoLimit - 1)
  BY <1>1 DEF Offer
<1>3. CASE offers[i][t] = 0
  BY <1>3 DEF Key, NoLimit
<1>4. CASE offers[i][t] # 0
  <2>1. Key(offers[i], t) = offers[i][t]
    BY <1>4 DEF Key
  <2>2. \A p \in 0..(NoLimit - 1) : p \in Nat /\ p < NoLimit
    BY DEF NoLimit
  <2> QED
    BY <1>2, <1>4, <2>1, <2>2
<1> QED
  BY <1>2, <1>3, <1>4

LEMMA PlacesAreBefore ==
  ASSUME NEW offers \in Seq(Offer), NEW t \in Tiers, NEW i \in DOMAIN offers
  PROVE  /\ IsFiniteSet(Before(offers, t, i)) /\ i \in Before(offers, t, i)
         /\ Place(offers, t, i) = Cardinality(Before(offers, t, i))
         /\ Place(offers, t, i) \in DOMAIN offers
<1> DEFINE B == Before(offers, t, i)
           n == Len(offers)
<1>1. n \in Nat /\ DOMAIN offers = 1..n /\ i \in 1..n
  BY LenProperties
<1>2. Key(offers[i], t) \in Nat
  BY KeysOrder
<1>3. i \in B
  BY <1>1, <1>2 DEF Before
<1> HIDE DEF n
<1>4. IsFiniteSet(1..n) /\ Cardinality(1..n) = n
  <2>1. IsFiniteSet(1..n) /\ Cardinality(1..n) = IF 1 > n THEN 0 ELSE n - 1 + 1
    BY <1>1, FS_Interval
  <2>2. n > 0
    BY <1>1
  <2> QED
    BY <1>1, <2>1, <2>2
<1>5. B \in SUBSET (1..n)
  BY <1>1 DEF Before
<1> HIDE DEF B
<1>6. IsFiniteSet(B) /\ Cardinality(B) <= n
  BY <1>4, <1>5, FS_Subset
<1>7. Cardinality(B) \in Nat /\ Cardinality(B) # 0
  BY <1>3, <1>6, FS_CardinalityType, FS_EmptySet
<1>8. Place(offers, t, i) = Cardinality(B)
  BY DEF Place, Before, B
<1> QED
  BY <1>1, <1>3, <1>6, <1>7, <1>8 DEF B, n

\* Of two offers one comes before the other, also when their prices are equal.
LEMMA PlacesDiffer ==
  ASSUME NEW offers \in Seq(Offer), NEW t \in Tiers,
         NEW i \in DOMAIN offers, NEW j \in DOMAIN offers, i # j
  PROVE  Place(offers, t, i) # Place(offers, t, j)
<1>1. DOMAIN offers \subseteq Nat /\ \A k \in DOMAIN offers : Key(offers[k], t) \in Nat
  BY KeysOrder, LenProperties
<1>2. ASSUME NEW x \in DOMAIN offers, NEW y \in DOMAIN offers, x # y,
             x \in Before(offers, t, y)
      PROVE  Place(offers, t, x) # Place(offers, t, y)
  <2>1. Before(offers, t, x) \in SUBSET Before(offers, t, y)
    BY <1>1, <1>2 DEF Before
  <2>2. y \in Before(offers, t, y) /\ y \notin Before(offers, t, x)
    BY <1>1, <1>2 DEF Before
  <2>3. IsFiniteSet(Before(offers, t, y))
    BY PlacesAreBefore
  <2>4. Cardinality(Before(offers, t, x)) # Cardinality(Before(offers, t, y))
    BY <2>1, <2>2, <2>3, FS_Subset
  <2> QED
    BY <2>4, PlacesAreBefore
<1>3. i \in Before(offers, t, j) \/ j \in Before(offers, t, i)
  BY <1>1 DEF Before
<1> QED
  BY <1>2, <1>3

\* No row of the table is empty: as many places as offers, no two offers in one.
LEMMA PlacesAreTaken ==
  ASSUME NEW offers \in Seq(Offer), NEW t \in Tiers, NEW n \in DOMAIN offers
  PROVE  \E i \in DOMAIN offers : Place(offers, t, i) = n
<1> DEFINE X == DOMAIN offers
           Y == X \ {n}
           f == [i \in X |-> Place(offers, t, i)]
<1> SUFFICES ASSUME \A i \in X : Place(offers, t, i) # n PROVE FALSE
  OBVIOUS
<1>1. X = 1..Len(offers) /\ Len(offers) \in Nat
  BY LenProperties
<1>2. IsFiniteSet(X) /\ Cardinality(X) \in Nat
  BY <1>1, FS_Interval, FS_CardinalityType
<1>3. f \in [X -> Y]
  BY PlacesAreBefore
<1>4. \A i, j \in X : i # j => f[i] # f[j]
  BY PlacesDiffer
<1> HIDE DEF X, f
<1>5. IsFiniteSet(Y) /\ Cardinality(Y) = Cardinality(X) - 1
  BY <1>2, FS_RemoveElement DEF X
<1>6. Cardinality(Y) < Cardinality(X)
  BY <1>2, <1>5
<1> HIDE DEF Y
<1>7. \E i, j \in X : i # j /\ f[i] = f[j]
  BY <1>2, <1>3, <1>5, <1>6, FS_PigeonHole
<1> QED
  BY <1>4, <1>7

LEMMA RowsAreOffers ==
  ASSUME NEW offers \in Seq(Offer), NEW t \in Tiers, NEW n \in DOMAIN offers
  PROVE  \E i \in DOMAIN offers : /\ Sorted(offers, t)[n] = offers[i]
                                  /\ Place(offers, t, i) = n
<1> DEFINE i == CHOOSE i \in DOMAIN offers : Place(offers, t, i) = n
<1>1. i \in DOMAIN offers /\ Place(offers, t, i) = n
  BY PlacesAreTaken
<1>2. Sorted(offers, t)[n] = offers[i]
  BY DEF Sorted
<1> QED
  BY <1>1, <1>2

LEMMA FirstRowIsLeast ==
  ASSUME NEW offers \in Seq(Offer), NEW t \in Tiers, offers # <<>>
  PROVE  /\ 1 \in DOMAIN offers
         /\ \E i \in DOMAIN offers :
              /\ Sorted(offers, t)[1] = offers[i]
              /\ \A j \in DOMAIN offers : Key(offers[i], t) <= Key(offers[j], t)
<1>1. 1 \in DOMAIN offers
  BY EmptySeq, LenProperties
<1>2. PICK i \in DOMAIN offers : Sorted(offers, t)[1] = offers[i] /\ Place(offers, t, i) = 1
  BY <1>1, RowsAreOffers
<1>3. Before(offers, t, i) = {i}
  <2>1. /\ IsFiniteSet(Before(offers, t, i)) /\ i \in Before(offers, t, i)
        /\ Cardinality(Before(offers, t, i)) = 1
    BY <1>2, PlacesAreBefore
  <2>2. \E x : Before(offers, t, i) = {x}
    BY <2>1, FS_Singleton
  <2> QED
    BY <2>1, <2>2
<1>4. ASSUME NEW j \in DOMAIN offers PROVE Key(offers[i], t) <= Key(offers[j], t)
  <2>1. Key(offers[i], t) \in Nat /\ Key(offers[j], t) \in Nat
    BY KeysOrder
  <2>2. Key(offers[j], t) < Key(offers[i], t) => j \in {i}
    BY <1>3 DEF Before
  <2> QED
    BY <2>1, <2>2
<1> QED
  BY <1>1, <1>2, <1>4

\* The first row has no price only if no row has one, and then the least.
LEMMA FirstRowIsCheapest ==
  ASSUME NEW offers \in Seq(Offer), NEW t \in Tiers, offers # <<>>
  PROVE  LET rows == Sorted(offers, t)
             prices == {rows[i][t] : i \in DOMAIN rows} \ {0}
         IN IF prices = {} THEN rows[1][t] = 0
            ELSE rows[1][t] \in prices /\ \A p \in prices : rows[1][t] <= p
<1> DEFINE rows == Sorted(offers, t)
           prices == {rows[i][t] : i \in DOMAIN rows} \ {0}
<1>1. PICK i \in DOMAIN offers :
        /\ rows[1] = offers[i]
        /\ \A j \in DOMAIN offers : Key(offers[i], t) <= Key(offers[j], t)
  BY FirstRowIsLeast
<1>2. 1 \in DOMAIN rows /\ DOMAIN rows = DOMAIN offers
  BY FirstRowIsLeast DEF Sorted
<1>3. \A n \in DOMAIN rows : \E j \in DOMAIN offers : rows[n] = offers[j]
  BY <1>2, RowsAreOffers
<1> HIDE DEF rows
<1>4. ASSUME NEW p \in prices PROVE rows[1][t] # 0 /\ rows[1][t] <= p
  <2>1. PICK j \in DOMAIN offers : p = offers[j][t] /\ offers[j][t] # 0
    BY <1>3
  <2>2. Key(offers[j], t) = p /\ p < NoLimit /\ Key(offers[i], t) <= p /\ p \in Nat
    BY <1>1, <2>1, KeysOrder
  <2>3. offers[i][t] # 0
    BY <2>2, KeysOrder DEF NoLimit
  <2> QED
    BY <1>1, <2>2, <2>3, KeysOrder
<1>5. rows[1][t] # 0 => rows[1][t] \in prices
  BY <1>2
<1>6. prices = {} => rows[1][t] = 0
  BY <1>5
<1> HIDE DEF prices
<1>7. IF prices = {} THEN rows[1][t] = 0
      ELSE rows[1][t] \in prices /\ \A p \in prices : rows[1][t] <= p
  BY <1>4, <1>5, <1>6
<1> QED
  BY <1>7 DEF rows, prices

LEMMA HeadIsFirstRow ==
  ASSUME NEW offers \in Seq(Offer), offers # <<>>
  PROVE  MinBase(offers) = CheapestPrice(offers, "base")
<1> DEFINE P0 == BasePrices(offers)
<1>1. "base" \in Tiers
  BY DEF Tiers
<1>2. PICK i \in DOMAIN offers :
        /\ Sorted(offers, "base")[1] = offers[i]
        /\ \A j \in DOMAIN offers : Key(offers[i], "base") <= Key(offers[j], "base")
  BY <1>1, FirstRowIsLeast
<1>3. CheapestPrice(offers, "base") = offers[i]["base"]
  BY <1>2 DEF CheapestPrice
<1>4. \A j \in DOMAIN offers :
        /\ offers[j]["base"] \in Nat /\ offers[i]["base"] \in Nat
        /\ offers[j]["base"] # 0 =>
             offers[i]["base"] # 0 /\ offers[i]["base"] <= offers[j]["base"]
  <2> TAKE j \in DOMAIN offers
  <2>1. Key(offers[i], "base") <= Key(offers[j], "base")
    BY <1>2
  <2> QED
    BY <1>1, <2>1, KeysOrder DEF NoLimit
<1>5. CASE offers[i]["base"] = 0
  <2>1. P0 = {}
    BY <1>4, <1>5 DEF BasePrices
  <2> QED
    BY <1>3, <1>5, <2>1 DEF MinBase
<1>6. CASE offers[i]["base"] # 0
  <2> DEFINE b == offers[i]["base"]
  <2>1. b \in P0 /\ \A q \in P0 : b <= q /\ q \in Nat
    BY <1>4, <1>6 DEF BasePrices
  <2>2. b \in Nat
    BY <1>4
  <2> HIDE DEF b, P0
  <2>3. \A p \in P0 : (\A q \in P0 : p <= q) => p = b
    BY <2>1, <2>2
  <2>4. MinBase(offers) = CHOOSE p \in P0 : \A q \in P0 : p <= q
    BY <2>1 DEF MinBase, P0
  <2>5. MinBase(offers) = b
    BY <2>1, <2>3, <2>4
  <2> QED
    BY <1>3, <2>5 DEF b
<1> QED
  BY <1>5, <1>6

----------------------------------------------------------------------------
(* The comparison and the page of a card *)

LEMMA ListsOfOffers ==
  ASSUME NEW p \in Products
  PROVE  /\ PriceOffers[p] \in Seq(Offer)
         /\ \A offers, t : P!Sorted(offers, t) = Sorted(offers, t)
         /\ \A offers : D!MinBase(offers) = MinBase(offers)
         /\ \A offers, t : D!CheapestPrice(offers, t) = CheapestPrice(offers, t)
<1>1. PriceOffers[p] \in Seq(Offer)
  BY OffersAssumption DEF OffersAssumption, P!Tiers, P!NoLimit, Offer, Tiers, NoLimit
<1>2. \A offers, t : P!Sorted(offers, t) = Sorted(offers, t)
  BY DEF P!Sorted, P!Place, P!Key, P!NoLimit, P!Cardinality,
         Sorted, Place, Key, NoLimit, Cardinality
<1>3. \A offers, t : D!CheapestPrice(offers, t) = CheapestPrice(offers, t)
  BY DEF D!Sorted, D!Place, D!Key, D!NoLimit, D!Cardinality, D!CheapestPrice,
         Sorted, Place, Key, NoLimit, Cardinality, CheapestPrice
<1>4. \A offers : D!MinBase(offers) = MinBase(offers)
  BY DEF D!MinBase, D!BasePrices, MinBase, BasePrices
<1> QED
  BY <1>1, <1>2, <1>3, <1>4

\* The card whose prices are on the screen is one of the catalogue, that of a
\* late answer included, and so is every card whose prices are asked for.
CompareInv ==
  /\ CallsInv /\ {"cmp", "tier"} \subseteq DOMAIN ui
  /\ ui.cmp \in Products \cup {None} /\ ui.tier \in Tiers
  /\ \A c \in Calls : pending[c].op = "prices" => pending[c].arg \in Products

LEMMA CompareInit == ASSUME P!Init PROVE CompareInv
<1>1. pending = NoCalls
  BY DEF P!Init, P!NoCalls, P!NoCall, P!Calls, NoCalls, NoCall, Calls
<1> QED
  BY <1>1 DEF P!Init, CompareInv, CallsInv, NoCalls, NoCall, Tiers

LEMMA CompareCalls ==
  /\ \A op, arg : P!Ask(op, arg) => Ask(op, arg)
  /\ \A c : P!Return(c) => Return(c)
BY DEF P!Ask, P!CanCall, P!NextCall, P!Idle, P!Calls, P!Await, P!Request, P!Return,
       P!NoCall, Ask, CanCall, NextCall, Idle, Calls, Await, Request, Return, NoCall

\* Only the chosen tier and the card whose prices have come change.
LEMMA CompareMove ==
  ASSUME CompareInv, NEW u, {"cmp", "tier"} \subseteq DOMAIN u,
         u.cmp \in Products \cup {None}, u.tier \in Tiers, ui' \in {u, P!Render(u)},
         CallsInv',
         \A c \in Calls : pending'[c].op = "prices" => pending'[c].arg \in Products
  PROVE  CompareInv'
<1>1. /\ {"cmp", "tier"} \subseteq DOMAIN P!Render(u)
      /\ P!Render(u).cmp = u.cmp /\ P!Render(u).tier \in Tiers
  BY DEF P!Render, Tiers
<1> QED
  BY <1>1 DEF CompareInv

LEMMA CompareNext == ASSUME CompareInv, P!Next PROVE CompareInv'
<1> DEFINE Fields == {"cmp", "tier"}
           AskedOf(c) == pending[c].op = "prices" => pending[c].arg \in Products
<1>1. /\ CallsInv /\ Fields \subseteq DOMAIN ui
      /\ ui.cmp \in Products \cup {None} /\ ui.tier \in Tiers
      /\ \A c \in Calls : AskedOf(c)
  BY DEF CompareInv
<1>2. ASSUME NEW op, NEW arg, Ask(op, arg), op = "prices" => arg \in Products
      PROVE  CallsInv' /\ \A c \in Calls : AskedOf(c)'
  BY <1>1, <1>2, AskChanges DEF Becomes
<1>3. ASSUME NEW c \in Calls, Return(c)
      PROVE  CallsInv' /\ \A d \in Calls : AskedOf(d)'
  BY <1>1, <1>3, ReturnChanges DEF Becomes
<1>4. ASSUME UNCHANGED pending
      PROVE  CallsInv' /\ \A c \in Calls : AskedOf(c)'
  BY <1>1, <1>4 DEF CallsInv
<1>5. CASE P!TypeQuery
  <2> DEFINE u == [ui EXCEPT !.selected = None, !.cmp = None]
  <2>1. Fields \subseteq DOMAIN u /\ u.cmp = None /\ u.tier = ui.tier
    BY <1>1
  <2>2. ui' = P!Render(u) /\ Ask("search", None)
    BY <1>5, CompareCalls DEF P!TypeQuery
  <2> HIDE DEF u
  <2> QED
    BY <1>1, <1>2, <2>1, <2>2, CompareMove
<1>6. CASE P!ClearQuery
  <2> DEFINE u == [ui EXCEPT !.selected = None, !.cmp = None, !.results = {}]
  <2>1. Fields \subseteq DOMAIN u /\ u.cmp = None /\ u.tier = ui.tier
    BY <1>1
  <2>2. ui' = P!Render(u) /\ UNCHANGED pending
    BY <1>6 DEF P!ClearQuery
  <2> HIDE DEF u
  <2> QED
    BY <1>1, <1>4, <2>1, <2>2, CompareMove
<1>7. ASSUME NEW p \in Products, P!Pick(p) PROVE CompareInv'
  <2> DEFINE u == [ui EXCEPT !.selected = p, !.results = {}, !.loading = TRUE, !.cmp = None]
  <2>1. Fields \subseteq DOMAIN u /\ u.cmp = None /\ u.tier = ui.tier
    BY <1>1
  <2>2. ui' = P!Render(u) /\ Ask("prices", p)
    BY <1>7, CompareCalls DEF P!Pick
  <2> HIDE DEF u
  <2> QED
    BY <1>1, <1>2, <2>1, <2>2, CompareMove
<1>8. ASSUME NEW t \in P!Tiers, P!ChooseTier(t) PROVE CompareInv'
  <2> DEFINE u == [ui EXCEPT !.tier = t]
  <2>1. Fields \subseteq DOMAIN u /\ u.cmp = ui.cmp /\ u.tier \in Tiers
    BY <1>1 DEF P!Tiers, Tiers
  <2>2. ui' = u /\ UNCHANGED pending
    BY <1>8 DEF P!ChooseTier
  <2> HIDE DEF u
  <2> QED
    BY <1>1, <1>4, <2>1, <2>2, CompareMove
<1>9. ASSUME NEW c \in Calls, P!Serve(c) PROVE CompareInv'
  <2>1. ui' = ui /\ \E a : pending' = [pending EXCEPT ![c].ans = a]
    BY <1>9 DEF P!Serve, P!ServeSearch, P!ServePrices, P!RefuseCall, P!Reply, P!Refuse
  <2>2. CallsInv' /\ SameCalls
    BY <1>1, <2>1, AnswerChanges
  <2>3. \A d \in Calls : AskedOf(d)'
    BY <1>1, <2>2 DEF SameCalls
  <2> QED
    BY <1>1, <2>1, <2>2, <2>3, CompareMove
<1>10. ASSUME NEW c \in Calls, P!OnSearch(c) PROVE CompareInv'
  <2>1. PICK r : ui' = [ui EXCEPT !.results = r]
    BY <1>10 DEF P!OnSearch
  <2>2. Fields \subseteq DOMAIN ui' /\ ui'.cmp = ui.cmp /\ ui'.tier = ui.tier
    BY <1>1, <2>1
  <2>3. Return(c)
    BY <1>10, CompareCalls DEF P!OnSearch
  <2> QED
    BY <1>1, <1>3, <2>2, <2>3, CompareMove
<1>11. ASSUME NEW c \in Calls, P!OnPrices(c) PROVE CompareInv'
  <2>1. PICK k \in {ui.cmp, pending[c].arg} :
          ui' = P!Render([ui EXCEPT !.loading = FALSE, !.cmp = k])
    BY <1>1, <1>11 DEF P!OnPrices
  <2> DEFINE u == [ui EXCEPT !.loading = FALSE, !.cmp = k]
  <2>2. k \in Products \cup {None}
    BY <1>1, <1>11 DEF P!OnPrices
  <2>3. Fields \subseteq DOMAIN u /\ u.cmp = k /\ u.tier = ui.tier
    BY <1>1
  <2>4. ui' = P!Render(u) /\ Return(c)
    BY <1>11, <2>1, CompareCalls DEF P!OnPrices
  <2> HIDE DEF u
  <2> QED
    BY <1>1, <1>3, <2>2, <2>3, <2>4, CompareMove
<1> QED
  BY <1>5, <1>6, <1>7, <1>8, <1>9, <1>10, <1>11
  DEF P!Next, P!UserStep, P!Continue, P!Calls, Calls

LEMMA CompareMarks == ASSUME CompareInv PROVE P!CheapestIsMarked
<1> SUFFICES ASSUME P!TableShown(ui) PROVE P!CheapestIsMarked
  BY DEF P!CheapestIsMarked
<1>1. ui.cmp \in Products /\ ui.tier \in Tiers /\ PriceOffers[ui.cmp] # <<>>
  BY DEF CompareInv, P!TableShown
<1> DEFINE rows == Sorted(PriceOffers[ui.cmp], ui.tier)
           prices == {rows[i][ui.tier] : i \in DOMAIN rows} \ {0}
<1>2. IF prices = {} THEN rows[1][ui.tier] = 0
      ELSE rows[1][ui.tier] \in prices /\ \A p \in prices : rows[1][ui.tier] <= p
  BY <1>1, ListsOfOffers, FirstRowIsCheapest
<1>3. rows = P!Sorted(PriceOffers[ui.cmp], ui.tier)
  BY <1>1, ListsOfOffers
<1> HIDE DEF rows
<1> QED
  BY <1>2, <1>3 DEF P!CheapestIsMarked

ProductInv == "id" \in DOMAIN ui /\ ui.id \in Products

LEMMA ProductInit == ASSUME D!Init PROVE ProductInv
BY DEF D!Init, ProductInv

LEMMA ProductNext == ASSUME ProductInv, D!Next PROVE ProductInv'
BY DEF ProductInv, D!Next, D!UserStep, D!OpenPhoto, D!ChooseTier, D!ElsewhereStep,
       D!DeleteElsewhere, D!Serve, D!RefuseCall, D!ServePart, D!Continue, D!OnPage

LEMMA ProductMarks == ASSUME ProductInv PROVE D!CheapestIsMarked
BY ListsOfOffers, HeadIsFirstRow DEF ProductInv, D!CheapestIsMarked, D!Offered

----------------------------------------------------------------------------
(* All the lists of the portal *)

ListsInv ==
  /\ page = "imports" => OpenInv
  /\ page = "suppliers" => TableInv
  /\ page = "compare" => CompareInv
  /\ page = "product" => ProductInv

LEMMA ListsInit == Init => ListsInv
BY OpenInit, TableInit, CompareInit, ProductInit DEF Init, ListsInv

LEMMA ListsNext == ListsInv /\ [Next]_vars => ListsInv'
<1> SUFFICES ASSUME ListsInv, [Next]_vars PROVE ListsInv'
  OBVIOUS
<1>1. CASE Next
  <2>1. page' = page
    BY <1>1 DEF Next
  <2>2. /\ page = "imports" => I!Next
        /\ page = "suppliers" => V!Next
        /\ page = "compare" => P!Next
        /\ page = "product" => D!Next
    BY <1>1 DEF Next
  <2>3. page = "imports" => OpenInv'
    BY <2>2, OpenNext DEF ListsInv
  <2>4. page = "suppliers" => TableInv'
    BY <2>2, TableNext DEF ListsInv
  <2>5. page = "compare" => CompareInv'
    BY <2>2, CompareNext DEF ListsInv
  <2>6. page = "product" => ProductInv'
    BY <2>2, ProductNext DEF ListsInv
  <2> QED
    BY <2>1, <2>3, <2>4, <2>5, <2>6 DEF ListsInv
<1>2. CASE UNCHANGED vars
  <2>1. UNCHANGED <<page, ui, db, pending>>
    BY <1>2 DEF vars
  <2> QED
    BY <2>1 DEF ListsInv, OpenInv, I!OpenMatchesAreShown, I!RowsOf,
                TableInv, ListAnswers, CompareInv, ProductInv, CallsInv
<1> QED
  BY <1>1, <1>2

\* The rows that are open for matching are rows of the price list on the screen,
\* whichever list's answer comes last.
THEOREM OpenRowsAreShown == Spec => []OpenMatchesAreShown
<1>1. ListsInv => OpenMatchesAreShown
  BY DEF ListsInv, OpenInv, OpenMatchesAreShown
<1> QED
  BY <1>1, ListsInit, ListsNext, PTL DEF Spec

\* A table with rows shows some of them: for any numbers of rows and pages,
\* whatever button is pressed, and when the list that comes is shorter.
THEOREM TablesShowRows == Spec => []PageHasRows
<1>1. ListsInv => PageHasRows
  BY TableShows DEF ListsInv, PageHasRows
<1> QED
  BY <1>1, ListsInit, ListsNext, PTL DEF Spec

\* The price that is marked as the cheapest, and the one in the head of a card's
\* page, is the least there is, for any number of offers, equal prices and prices
\* that are missing included.
THEOREM CheapestIsCheapest == Spec => []CheapestIsMarked
<1>1. ListsInv => CheapestIsMarked
  BY CompareMarks, ProductMarks DEF ListsInv, CheapestIsMarked
<1> QED
  BY <1>1, ListsInit, ListsNext, PTL DEF Spec
=============================================================================
