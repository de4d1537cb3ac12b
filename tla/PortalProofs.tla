---------------------------- MODULE PortalProofs ----------------------------
(* The types of the pages, for any data, numbers of calls and sizes; and the *)
(* filter of the showcase for any fields and listings: what is on the screen *)
(* has been asked for, or a timer will ask for it.                           *)
EXTENDS PortalPanelsProofs, PortalListsProofs

\* The fields are what they are in the code, whatever is in the others.
IsUi(u) ==
  u = [filter |-> u.filter, timer |-> u.timer, asked |-> u.asked,
       suppliers |-> u.suppliers, products |-> u.products, total |-> u.total,
       priced |-> u.priced, ready |-> u.ready, refreshing |-> u.refreshing,
       more |-> u.more]

ShowcaseInv == IsUi(ui) /\ ui.filter \in C!Filters /\ C!FilterIsAsked

\* A change of the filter starts a timer with it or asks for it, and stops the
\* timer of the change before.
LEMMA ChangeKeepsInv ==
  ASSUME ShowcaseInv, NEW f \in C!Filters, C!FilterChanged(f) PROVE ShowcaseInv'
<1>1. CASE f.query # ui.filter.query \/ f.price # ui.filter.price
  <2>1. ui' = [ui EXCEPT !.filter = f, !.timer = f]
    BY <1>1 DEF C!FilterChanged
  <2>2. IsUi(ui') /\ ui'.filter = f /\ ui'.timer = f
    BY <2>1 DEF ShowcaseInv, IsUi
  <2> QED
    BY <2>2, PortalAssumption DEF ShowcaseInv, C!FilterIsAsked, C!Filters
<1>2. CASE ~(f.query # ui.filter.query \/ f.price # ui.filter.price)
  <2>1. ui' = [[ui EXCEPT !.filter = f, !.timer = None]
                 EXCEPT !.refreshing = TRUE, !.asked = f]
    BY <1>2 DEF C!FilterChanged, C!Load
  <2>2. IsUi(ui') /\ ui'.filter = f /\ ui'.timer = None /\ ui'.asked = f
    BY <2>1 DEF ShowcaseInv, IsUi
  <2> QED
    BY <2>2 DEF ShowcaseInv, C!FilterIsAsked
<1> QED
  BY <1>1, <1>2

\* A step that leaves the filter, its timer and the last load alone.
LEMMA RestKeepsInv ==
  ASSUME ShowcaseInv, IsUi(ui'), ui'.filter = ui.filter, ui'.timer = ui.timer, ui'.asked = ui.asked
  PROVE  ShowcaseInv'
BY DEF ShowcaseInv, C!FilterIsAsked

LEMMA UserKeepsInv == ASSUME ShowcaseInv, C!UserStep PROVE ShowcaseInv'
<1>1. ASSUME NEW q \in Queries, NEW p \in Prices, C!Type(q, p) PROVE ShowcaseInv'
  <2>1. [ui.filter EXCEPT !.query = q, !.price = p] \in C!Filters
    BY DEF ShowcaseInv, C!Filters
  <2> QED
    BY <1>1, <2>1, ChangeKeepsInv DEF C!Type
<1>2. ASSUME NEW v \in Choices, C!Choose(v) PROVE ShowcaseInv'
  <2>1. [ui.filter EXCEPT !.choice = v] \in C!Filters
    BY DEF ShowcaseInv, C!Filters
  <2> QED
    BY <1>2, <2>1, ChangeKeepsInv DEF C!Choose
<1>3. CASE C!ResetFilters
  <2>1. [ui.filter EXCEPT !.price = NoPrice, !.choice = Usual] \in C!Filters
    BY PortalAssumption DEF ShowcaseInv, C!Filters
  <2> QED
    BY <1>3, <2>1, ChangeKeepsInv DEF C!ResetFilters
<1>4. CASE C!ShowMore
  <2>1. \/ ui' = [ui EXCEPT !.refreshing = TRUE, !.asked = ui.filter]
        \/ ui' = [ui EXCEPT !.more = TRUE]
    BY <1>4 DEF C!ShowMore, C!Load
  <2> QED
    BY <2>1 DEF ShowcaseInv, IsUi, C!FilterIsAsked
<1> QED
  BY <1>1, <1>2, <1>3, <1>4 DEF C!UserStep

\* The timer asks for the filter it was set with, which is the one shown.
LEMMA TimerKeepsInv == ASSUME ShowcaseInv, C!TimerFires PROVE ShowcaseInv'
<1>1. ui' = [[ui EXCEPT !.timer = None] EXCEPT !.refreshing = TRUE, !.asked = ui.timer]
  BY DEF C!TimerFires, C!Load
<1>2. IsUi(ui') /\ ui'.filter = ui.filter /\ ui'.timer = None /\ ui'.asked = ui.timer
  BY <1>1 DEF ShowcaseInv, IsUi
<1> QED
  BY <1>2 DEF ShowcaseInv, C!FilterIsAsked, C!TimerFires

\* Records of the page that agree on the filter, its timer and the last load.
Alike(u, v) ==
  IsUi(v) /\ v.filter = u.filter /\ v.timer = u.timer /\ v.asked = u.asked

\* The list and its prices have fields of their own.
LEMMA DataIsAside ==
  ASSUME NEW u, IsUi(u), NEW f \in {"products", "total", "priced", "ready"}, NEW x
  PROVE  Alike(u, [u EXCEPT ![f] = x])
<1> DEFINE v == [u EXCEPT ![f] = x]
<1>1. DOMAIN v = {"filter", "timer", "asked", "suppliers", "products", "total",
                  "priced", "ready", "refreshing", "more"}
  BY DEF IsUi
<1>2. v = [k \in DOMAIN v |-> v[k]]
  OBVIOUS
<1>3. v.filter = u.filter /\ v.timer = u.timer /\ v.asked = u.asked
  BY DEF IsUi
<1> HIDE DEF v
<1>4. IsUi(v)
  BY <1>1, <1>2 DEF IsUi
<1> QED
  BY <1>3, <1>4 DEF Alike, v

LEMMA TwoAreAside ==
  ASSUME NEW u, IsUi(u), NEW f \in {"products", "priced"}, NEW x,
         NEW g \in {"total", "ready"}, NEW y
  PROVE  Alike(u, [[u EXCEPT ![f] = x] EXCEPT ![g] = y])
<1> DEFINE v == [u EXCEPT ![f] = x]
<1>1. Alike(u, v)
  BY DataIsAside
<1> HIDE DEF v
<1>2. Alike(v, [v EXCEPT ![g] = y])
  BY <1>1, DataIsAside DEF Alike
<1>3. Alike(u, [v EXCEPT ![g] = y])
  BY <1>1, <1>2 DEF Alike
<1> QED
  BY <1>3 DEF v

\* An answer never touches the filter: not even a late one of another filter.
LEMMA AnswerKeepsInv == ASSUME ShowcaseInv, NEW c, C!Continue(c) PROVE ShowcaseInv'
<1>1. CASE C!OnList(c)
  <2> DEFINE d == pending[c].ans
             shown == IF ui.products = None THEN <<>> ELSE ui.products
             first == [ui EXCEPT !.products = d.page, !.total = d.total,
                                 !.priced = {}, !.ready = FALSE]
             next == [ui EXCEPT !.products = shown \o d.page, !.total = d.total]
             u == IF pending[c].arg.offset = 0 THEN first ELSE next
  <2>1. ui' = C!Loaded([u EXCEPT !.ready = TRUE]) \/ ui' = C!Loaded(u)
    <3>1. CASE d.page = <<>>
      BY <1>1, <3>1 DEF C!OnList
    <3>2. CASE d.page # <<>>
      BY <1>1, <3>2 DEF C!OnList
    <3> QED
      BY <3>1, <3>2
  <2>2. IsUi(u) /\ u.filter = ui.filter /\ u.timer = ui.timer /\ u.asked = ui.asked
    <3> DEFINE half == [ui EXCEPT !.products = d.page, !.total = d.total]
    <3>1. Alike(ui, next) /\ Alike(ui, half)
      BY TwoAreAside DEF ShowcaseInv
    <3>2. Alike(ui, first)
      <4> HIDE DEF half
      <4>1. Alike(half, [half EXCEPT !.priced = {}, !.ready = FALSE])
        <5>1. IsUi(half)
          BY <3>1 DEF Alike
        <5> QED
          BY <5>1, TwoAreAside
      <4>2. Alike(ui, [half EXCEPT !.priced = {}, !.ready = FALSE])
        BY <3>1, <4>1 DEF Alike
      <4> QED
        BY <4>2 DEF half
    <3> HIDE DEF first, next
    <3> QED
      BY <3>1, <3>2 DEF Alike
  <2> HIDE DEF u
  <2>3. /\ IsUi(ui')
        /\ ui'.filter = u.filter /\ ui'.timer = u.timer /\ ui'.asked = u.asked
    BY <2>1, <2>2 DEF IsUi, C!Loaded
  <2> QED
    BY <2>2, <2>3, RestKeepsInv
<1>2. CASE C!OnListError(c)
  <2>1. ui' = C!Loaded(ui)
    BY <1>2 DEF C!OnListError
  <2> QED
    BY <2>1, RestKeepsInv DEF ShowcaseInv, IsUi, C!Loaded
<1>3. CASE C!OnPrices(c)
  <2>1. \E priced : ui' = [ui EXCEPT !.ready = TRUE, !.priced = priced]
    BY <1>3 DEF C!OnPrices
  <2> QED
    BY <2>1, RestKeepsInv DEF ShowcaseInv, IsUi
<1>4. CASE C!OnSuppliers(c)
  <2>1. \E known : ui' = [ui EXCEPT !.suppliers = known]
    BY <1>4 DEF C!OnSuppliers
  <2> QED
    BY <2>1, RestKeepsInv DEF ShowcaseInv, IsUi
<1> QED
  BY <1>1, <1>2, <1>3, <1>4 DEF C!Continue

\* The showcase never forgets a change of its filter: it has asked for it, or a
\* timer with exactly this filter runs.
THEOREM NoChangeIsLost == Spec => []FilterIsAsked
<1> DEFINE PInv == page = "catalog" => ShowcaseInv
<1>1. Init => PInv
  <2> SUFFICES ASSUME Init, page = "catalog" PROVE ShowcaseInv
    OBVIOUS
  <2>1. C!Init
    BY DEF Init
  <2> QED
    BY <2>1, PortalAssumption DEF C!Init, ShowcaseInv, IsUi, C!FilterIsAsked, C!Filters
<1>2. PInv /\ [Next]_vars => PInv'
  <2> SUFFICES ASSUME PInv, [Next]_vars, page' = "catalog" PROVE ShowcaseInv'
    OBVIOUS
  <2>1. page = "catalog" /\ ShowcaseInv
    BY DEF Next, vars
  <2>2. ASSUME NEW c, C!Serve(c) PROVE ShowcaseInv'
    <3>1. ui' = ui
      BY <2>2 DEF C!Serve, C!ServeList, C!ServePrices, C!ServeSuppliers, C!RefuseCall
    <3> QED
      BY <2>1, <3>1 DEF ShowcaseInv, C!FilterIsAsked
  <2>3. CASE UNCHANGED vars
    BY <2>1, <2>3 DEF vars, ShowcaseInv, C!FilterIsAsked
  <2>4. CASE Next
    <3>1. C!Next
      BY <2>1, <2>4 DEF Next
    <3> QED
      BY <2>1, <2>2, <3>1, UserKeepsInv, TimerKeepsInv, AnswerKeepsInv DEF C!Next
  <2> QED
    BY <2>3, <2>4
<1>3. PInv => FilterIsAsked
  BY DEF ShowcaseInv, FilterIsAsked
<1> QED
  BY <1>1, <1>2, <1>3, PTL DEF Spec

(* What the entry of a call says after a step. *)

\* The entry of c says this, and the others what they said.
Says(c, op, arg, ans) ==
  /\ pending'[c].op = op /\ pending'[c].arg = arg /\ pending'[c].ans = ans
  /\ \A d \in Calls \ {c} : pending'[d] = pending[d]

LEMMA EntrySays ==
  ASSUME CallsInv, NEW c \in Calls, NEW op, NEW arg, NEW ans,
         pending' = [pending EXCEPT ![c] = [op |-> op, arg |-> arg, ans |-> ans]]
  PROVE  CallsInv' /\ Says(c, op, arg, ans)
BY DEF CallsInv, Says

LEMMA AnswerSays ==
  ASSUME CallsInv, NEW c \in Calls, NEW a, pending' = [pending EXCEPT ![c].ans = a]
  PROVE  CallsInv' /\ Says(c, pending[c].op, pending[c].arg, a)
BY DEF CallsInv, Says

LEMMA AskSays ==
  ASSUME CallsInv, NEW op, NEW arg, Ask(op, arg)
  PROVE  \E c \in Calls : Says(c, op, arg, Sent) /\ CallsInv' /\ c = NextCall
<1>1. NextCall \in Calls
  BY DEF Ask, CanCall, NextCall
<1>2. pending' = [pending EXCEPT ![NextCall] = [op |-> op, arg |-> arg, ans |-> Sent]]
  BY DEF Ask, Await, Request
<1> HIDE DEF NextCall
<1> QED
  BY <1>1, <1>2, EntrySays

LEMMA AwaitSays ==
  ASSUME CallsInv, NEW c \in Calls, NEW op, NEW arg, Await(c, op, arg)
  PROVE  CallsInv' /\ Says(c, op, arg, Sent)
BY EntrySays DEF Await, Request

LEMMA ReturnSays ==
  ASSUME CallsInv, NEW c \in Calls, Return(c)
  PROVE  CallsInv' /\ Says(c, "none", None, None)
BY EntrySays DEF Return, NoCall

LEMMA OpeningSays ==
  ASSUME NEW op, NEW arg, pending = Opening(<<Request(op, arg)>>)
  PROVE  /\ CallsInv
         /\ \A c \in Calls :
              \/ pending[c].op = "none"
              \/ pending[c].op = op /\ pending[c].arg = arg /\ pending[c].ans = Sent
BY DEF CallsInv, Opening, Request, NoCall

\* A page that mounts with two calls.
LEMMA TwoOpeningSay ==
  ASSUME NEW op1, NEW arg1, NEW op2, NEW arg2,
         pending = Opening(<<Request(op1, arg1), Request(op2, arg2)>>)
  PROVE  /\ CallsInv
         /\ \A c \in Calls :
              \/ pending[c].op = "none"
              \/ pending[c].op = op1 /\ pending[c].arg = arg1 /\ pending[c].ans = Sent
              \/ pending[c].op = op2 /\ pending[c].arg = arg2 /\ pending[c].ans = Sent
<1> DEFINE both == {Request(op1, arg1), Request(op2, arg2)}
           s == <<Request(op1, arg1), Request(op2, arg2)>>
<1>1. DOMAIN s = 1..2 /\ \A c \in 1..2 : s[c] \in both
  OBVIOUS
<1>2. \A c \in Calls : pending[c] \in both \cup {NoCall}
  <2> HIDE DEF s
  <2> QED
    BY <1>1 DEF Opening, s
<1>3. DOMAIN pending = Calls
  BY DEF Opening
<1> QED
  BY <1>2, <1>3 DEF CallsInv, Request, NoCall

(* The matching. *)

\* The choice of a row, and its call.
RowStates == [selected : Cards \cup {None}, call : Calls \cup {None}]
Candidates == [Offers -> Seq(Cards)]
\* What the answers of a load bring, and which rows are matched.
RowCall(op, arg, ans) ==
  /\ op = "unmatched" => ans \in {Sent, Failed} \/ ans.offers \subseteq Offers
  /\ op = "suggest" => ans \in {Sent, Failed} \cup Candidates
  /\ op \in {"confirm", "create"} => arg.offer \in Offers
RowFields == {"offers", "batch", "cands", "row", "loading", "auto"}
RowsTyped(u) ==
  /\ RowFields \subseteq DOMAIN u
  /\ u.offers \subseteq Offers /\ u.batch \in Batches \cup {None} /\ u.cands \in Candidates
  /\ u.row \in [Offers -> RowStates \cup {None}]
Rendered(u) == \A o \in Offers : u.row[o] # None <=> o \in M!Shown(u)
MatchTypes ==
  /\ CallsInv /\ db \subseteq Offers /\ RowsTyped(ui) /\ Rendered(ui)
  /\ \A c \in Calls : RowCall(pending[c].op, pending[c].arg, pending[c].ans)

\* The state of a row that is on the screen is not None.
LEMMA RowsAreNotNone == None \notin RowStates
BY TypesAssumption DEF TypesAssumption, RowStates

\* A render gives each row on the screen a state and drops the others.
LEMMA RenderTypes ==
  ASSUME NEW u, RowsTyped(u) PROVE RowsTyped(M!Render(u)) /\ Rendered(M!Render(u))
<1> DEFINE Row(o) == IF o \notin M!Shown(u) THEN None
                     ELSE IF u.row[o] # None THEN u.row[o]
                     ELSE [selected |-> M!First(u.cands[o]), call |-> None]
           row == [o \in Offers |-> Row(o)]
<1>1. ASSUME NEW o \in Offers
      PROVE  /\ Row(o) \in RowStates \cup {None}
             /\ Row(o) # None <=> o \in M!Shown(u)
  <2>1. u.cands[o] \in Seq(Cards) /\ u.row[o] \in RowStates \cup {None}
    BY <1>1 DEF RowsTyped, Candidates
  <2>2. M!First(u.cands[o]) \in Cards \cup {None}
    BY <2>1 DEF M!First
  <2>3. [selected |-> M!First(u.cands[o]), call |-> None] \in RowStates
    BY <2>2 DEF RowStates
  <2> QED
    BY <2>1, <2>3, RowsAreNotNone
<1> HIDE DEF Row
<1>2. M!Render(u) = [u EXCEPT !.row = row]
  BY DEF M!Render, Row
<1>3. /\ row \in [Offers -> RowStates \cup {None}]
      /\ \A o \in Offers : row[o] # None <=> o \in M!Shown(u)
  BY <1>1
<1> HIDE DEF row
<1>4. RowsTyped(M!Render(u)) /\ M!Render(u).row = row
  BY <1>2, <1>3 DEF RowsTyped, RowFields
<1>5. M!Shown(M!Render(u)) = M!Shown(u)
  BY <1>2 DEF M!Shown, RowsTyped, RowFields
<1> QED
  BY <1>3, <1>4, <1>5 DEF Rendered

LEMMA MatchTypesInit == ASSUME M!Init PROVE MatchTypes
<1>1. PICK b \in Batches \cup {None} :
        /\ ui = M!Render([M!Blank EXCEPT !.batch = b, !.loading = (b # None)])
        /\ pending = IF b = None THEN M!NoCalls
                     ELSE M!Opening(<<M!Request("unmatched", [batch |-> b, auto |-> FALSE])>>)
  BY DEF M!Init
<1> DEFINE u == [M!Blank EXCEPT !.batch = b, !.loading = (b # None)]
           arg == [batch |-> b, auto |-> FALSE]
<1>2. RowsTyped(u)
  BY DEF M!Blank, M!NoCandidates, RowsTyped, RowFields, Candidates
<1>3. ui = M!Render(u)
  BY <1>1
<1>4. pending = NoCalls \/ pending = Opening(<<Request("unmatched", arg)>>)
  BY <1>1 DEF M!NoCalls, M!Opening, M!Request, M!NoCall, M!Calls,
              NoCalls, Opening, Request, NoCall, Calls
<1> HIDE DEF u, arg
<1>5. CallsInv /\ \A c \in Calls : RowCall(pending[c].op, pending[c].arg, pending[c].ans)
  <2>1. CASE pending = NoCalls
    BY <2>1 DEF CallsInv, NoCalls, NoCall, RowCall
  <2>2. CASE pending = Opening(<<Request("unmatched", arg)>>)
    BY <2>2, OpeningSays DEF RowCall
  <2> QED
    BY <1>4, <2>1, <2>2
<1> QED
  BY <1>2, <1>3, <1>5, RenderTypes DEF M!Init, MatchTypes

LEMMA MatchTypesStay == ASSUME MatchTypes, M!Next PROVE MatchTypes'
<1> DEFINE Said == \A c \in Calls : RowCall(pending[c].op, pending[c].arg, pending[c].ans)
           Good(u) == RowsTyped(u) /\ Rendered(u)
<1>1. CallsInv /\ db \subseteq Offers /\ RowsTyped(ui) /\ Good(ui) /\ Said
  BY DEF MatchTypes
<1>2. ASSUME NEW c \in Calls, NEW op, NEW arg, NEW ans, Says(c, op, arg, ans), CallsInv',
             RowCall(op, arg, ans), db' \subseteq Offers, Good(ui')
      PROVE  MatchTypes'
  BY <1>1, <1>2 DEF Says, MatchTypes
<1>3. ASSUME UNCHANGED <<db, pending>>, Good(ui') PROVE MatchTypes'
  BY <1>1, <1>3 DEF CallsInv, MatchTypes
<1>4. ASSUME NEW op, NEW arg, Ask(op, arg), db' = db, Good(ui'), RowCall(op, arg, Sent)
      PROVE  MatchTypes'
  BY <1>1, <1>2, <1>4, AskSays
<1>5. ASSUME NEW c \in Calls, Return(c), db' = db, Good(ui') PROVE MatchTypes'
  <2>1. CallsInv' /\ Says(c, "none", None, None) /\ RowCall("none", None, None)
    BY <1>1, <1>5, ReturnSays DEF RowCall
  <2> QED
    BY <1>1, <1>2, <1>5, <2>1
<1>6. ASSUME NEW c \in Calls, NEW op, NEW arg, Await(c, op, arg), db' = db, Good(ui'),
             RowCall(op, arg, Sent)
      PROVE  MatchTypes'
  BY <1>1, <1>2, <1>6, AwaitSays
<1>7. ASSUME NEW u, RowsTyped(u) PROVE Good(M!Render(u))
  BY <1>7, RenderTypes
<1> HIDE DEF Said
\* The state of a row that is shown changes, and is a state of a row.
<1>8. ASSUME NEW o \in Offers, ui.row[o] # None, NEW r \in RowStates,
             ui' = [ui EXCEPT !.row[o] = r]
      PROVE  Good(ui')
  <2>1. RowsTyped(ui')
    BY <1>1, <1>8 DEF RowsTyped, RowFields
  <2>2. M!Shown(ui') = M!Shown(ui)
    BY <1>1, <1>8 DEF M!Shown, RowsTyped, RowFields
  <2>3. \A p \in Offers : ui'.row[p] # None <=> ui.row[p] # None
    BY <1>1, <1>8, RowsAreNotNone DEF RowsTyped, RowFields
  <2> QED
    BY <1>1, <2>1, <2>2, <2>3 DEF Rendered
<1>9. ASSUME NEW o \in Offers, ui.row[o] # None PROVE ui.row[o] \in RowStates
  BY <1>1, <1>9 DEF RowsTyped
<1> HIDE DEF Good
<1>10. CASE M!UserStep
  <2>1. ASSUME NEW b \in Batches, M!SelectBatch(b) PROVE MatchTypes'
    <3> DEFINE u == [ui EXCEPT !.batch = b, !.loading = TRUE]
    <3>1. RowsTyped(u)
      BY <1>1 DEF RowsTyped, RowFields
    <3>2. /\ ui' = M!Render(u) /\ db' = db /\ CanCall
          /\ Await(NextCall, "unmatched", [batch |-> b, auto |-> FALSE])
      BY <2>1, MatchCalls DEF M!SelectBatch
    <3>3. Ask("unmatched", [batch |-> b, auto |-> FALSE])
      BY <3>2 DEF Ask
    <3>4. RowCall("unmatched", [batch |-> b, auto |-> FALSE], Sent)
      BY DEF RowCall
    <3> HIDE DEF u
    <3> QED
      BY <1>4, <1>7, <3>1, <3>2, <3>3, <3>4
  <2>2. CASE M!SelectNone
    <3> DEFINE u == [ui EXCEPT !.batch = None, !.offers = {}, !.cands = M!NoCandidates,
                               !.total = 0, !.matched = 0]
    <3>1. M!NoCandidates \in Candidates
      BY DEF M!NoCandidates, Candidates
    <3>2. RowsTyped(u)
      BY <1>1, <3>1 DEF RowsTyped, RowFields
    <3>3. ui' = M!Render(u) /\ UNCHANGED <<db, pending>>
      BY <2>2 DEF M!SelectNone
    <3> HIDE DEF u
    <3> QED
      BY <1>3, <1>7, <3>2, <3>3
  <2>3. CASE M!OnAutoProcess
    <3>1. PICK b : Ask("auto", b)
      BY <2>3, MatchCalls DEF M!OnAutoProcess
    <3>2. RowsTyped(ui') /\ Rendered(ui') /\ db' = db
      BY <1>1, <2>3 DEF M!OnAutoProcess, RowsTyped, RowFields, Good, Rendered, M!Shown
    <3>3. RowCall("auto", b, Sent)
      BY DEF RowCall
    <3> QED
      BY <1>4, <3>1, <3>2, <3>3 DEF Good
  <2>4. ASSUME NEW o \in Offers, NEW p \in Cards, M!Choose(o, p) PROVE MatchTypes'
    <3>1. ui.row[o] # None /\ ui' = [ui EXCEPT !.row[o].selected = p] /\ UNCHANGED <<db, pending>>
      BY <2>4 DEF M!Choose
    <3>2. [ui.row[o] EXCEPT !.selected = p] \in RowStates
      BY <1>9, <3>1 DEF RowStates
    <3>3. ui' = [ui EXCEPT !.row[o] = [ui.row[o] EXCEPT !.selected = p]]
      BY <1>1, <3>1 DEF RowsTyped, RowFields
    <3> QED
      BY <1>3, <1>8, <3>1, <3>2, <3>3
  <2>5. ASSUME NEW o \in Offers,
               M!ConfirmSelected(o) \/ M!CreateFromOffer(o)
                 \/ \E p \in Cards : M!ConfirmFound(o, p)
        PROVE  MatchTypes'
    <3>1. /\ ui.row[o] # None /\ ui' = [ui EXCEPT !.row[o].call = NextCall] /\ db' = db
          /\ \E op \in {"confirm", "create"} : \E p : Ask(op, [offer |-> o, card |-> p])
      BY <2>5, MatchCalls DEF M!ConfirmSelected, M!CreateFromOffer, M!ConfirmFound
    <3>2. NextCall \in Calls
      BY <3>1 DEF Ask, CanCall, NextCall
    <3>3. [ui.row[o] EXCEPT !.call = NextCall] \in RowStates
      BY <1>9, <3>1, <3>2 DEF RowStates
    <3>4. ui' = [ui EXCEPT !.row[o] = [ui.row[o] EXCEPT !.call = NextCall]]
      BY <1>1, <3>1 DEF RowsTyped, RowFields
    <3>5. Good(ui')
      BY <1>8, <3>1, <3>3, <3>4
    <3>6. \A op, p : RowCall(op, [offer |-> o, card |-> p], Sent)
      BY DEF RowCall
    <3> QED
      BY <1>4, <3>1, <3>5, <3>6
  <2> QED
    BY <1>10, <2>1, <2>2, <2>3, <2>4, <2>5 DEF M!UserStep
<1>11. ASSUME NEW c \in Calls, M!Serve(c) PROVE MatchTypes'
  <2>1. RowCall(pending[c].op, pending[c].arg, pending[c].ans)
    BY <1>1 DEF Said
  <2>2. ui' = ui /\ db' \subseteq Offers
    BY <1>1, <1>11, <2>1
    DEF M!Serve, M!ServeUnmatched, M!ServeSuggest, M!ServeMatch, M!ServeAuto, M!RefuseCall,
        M!Unmatched, M!RowsOf, RowCall
  <2>3. PICK a : /\ pending' = [pending EXCEPT ![c].ans = a]
                 /\ RowCall(pending[c].op, pending[c].arg, a)
    <3>1. CASE M!ServeUnmatched(c)
      <4> DEFINE b == pending[c].arg.batch
                 answer == [offers |-> M!Unmatched(b), total |-> M!Cardinality(M!RowsOf(b)),
                            matched |-> M!Cardinality(M!RowsOf(b) \ M!Unmatched(b))]
      <4>1. answer.offers \subseteq Offers
        BY DEF M!Unmatched, M!RowsOf
      <4>2. \E a \in {answer, Failed} : pending' = [pending EXCEPT ![c].ans = a]
        BY <3>1 DEF M!ServeUnmatched, M!Reply
      <4> HIDE DEF answer
      <4> QED
        BY <3>1, <4>1, <4>2 DEF M!ServeUnmatched, RowCall
    <3>2. CASE M!ServeSuggest(c)
      <4> DEFINE answer == [o \in Offers |-> IF o \in pending[c].arg.list
                                             THEN Ranking[o] ELSE <<>>]
      <4>1. answer \in Candidates
        BY TypesAssumption DEF TypesAssumption, Candidates
      <4>2. \E a \in {answer, Failed} : pending' = [pending EXCEPT ![c].ans = a]
        BY <3>2 DEF M!ServeSuggest, M!Reply
      <4> HIDE DEF answer
      <4> QED
        BY <3>2, <4>1, <4>2 DEF M!ServeSuggest, RowCall
    <3>3. CASE M!ServeMatch(c) \/ M!ServeAuto(c)
      BY <2>1, <3>3 DEF M!ServeMatch, M!ServeAuto, M!Reply, RowCall
    <3>4. CASE M!RefuseCall(c)
      BY <2>1, <3>4 DEF M!RefuseCall, M!Refuse, RowCall
    <3> QED
      BY <1>11, <3>1, <3>2, <3>3, <3>4 DEF M!Serve
  <2> QED
    BY <1>1, <1>2, <2>2, <2>3, AnswerSays
<1>12. ASSUME NEW c \in Calls, NEW u, RowsTyped(u), M!EndLoad(c, u) PROVE MatchTypes'
  <2> DEFINE w == [u EXCEPT !.loading = FALSE,
                            !.auto = IF pending[c].arg.auto THEN FALSE ELSE u.auto]
  <2>1. RowsTyped(w)
    BY <1>12 DEF RowsTyped, RowFields
  <2>2. ui' = M!Render(w) /\ Return(c) /\ db' = db
    BY <1>12, MatchCalls DEF M!EndLoad
  <2> HIDE DEF w
  <2> QED
    BY <1>5, <1>7, <2>1, <2>2
<1>13. ASSUME NEW c \in Calls, M!Continue(c) PROVE MatchTypes'
  <2>1. RowCall(pending[c].op, pending[c].arg, pending[c].ans)
    BY <1>1 DEF Said
  <2>2. CASE M!OnUnmatched(c)
    <3> DEFINE d == pending[c].ans
               u == [ui EXCEPT !.offers = d.offers, !.total = d.total, !.matched = d.matched]
               w == [u EXCEPT !.cands = M!NoCandidates]
               arg == [list |-> d.offers, auto |-> pending[c].arg.auto]
    <3>1. d.offers \subseteq Offers
      BY <2>1, <2>2 DEF M!OnUnmatched, M!Ok, M!Answered, RowCall
    <3>2. M!NoCandidates \in Candidates
      BY DEF M!NoCandidates, Candidates
    <3>3. RowsTyped(u) /\ RowsTyped(w)
      BY <1>1, <3>1, <3>2 DEF RowsTyped, RowFields
    <3>4. \/ ui' = M!Render(u) /\ Await(c, "suggest", arg) /\ db' = db
          \/ M!EndLoad(c, w)
      BY <2>2, MatchCalls DEF M!OnUnmatched
    <3>5. RowCall("suggest", arg, Sent)
      BY DEF RowCall
    <3> HIDE DEF u, w, arg
    <3> QED
      BY <1>6, <1>7, <1>12, <3>3, <3>4, <3>5
  <2>3. CASE M!OnSuggest(c)
    <3> DEFINE u == [ui EXCEPT !.cands = pending[c].ans]
    <3>1. pending[c].ans \in Candidates
      BY <2>1, <2>3 DEF M!OnSuggest, M!Ok, M!Answered, RowCall
    <3>2. RowsTyped(u) /\ M!EndLoad(c, u)
      BY <1>1, <2>3, <3>1 DEF M!OnSuggest, RowsTyped, RowFields
    <3> HIDE DEF u
    <3> QED
      BY <1>12, <3>2
  <2>4. CASE M!OnLoadError(c)
    BY <1>1, <1>12, <2>4 DEF M!OnLoadError
  <2>5. CASE M!OnAuto(c)
    <3>1. CASE M!Ok(c)
      <4> DEFINE u == [ui EXCEPT !.loading = TRUE]
                 arg == [batch |-> pending[c].arg, auto |-> TRUE]
      <4>1. RowsTyped(u)
        BY <1>1 DEF RowsTyped, RowFields
      <4>2. ui' = M!Render(u) /\ Await(c, "unmatched", arg) /\ db' = db
        BY <2>5, <3>1, MatchCalls DEF M!OnAuto
      <4>3. RowCall("unmatched", arg, Sent)
        BY DEF RowCall
      <4> HIDE DEF u, arg
      <4> QED
        BY <1>6, <1>7, <4>1, <4>2, <4>3
    <3>2. CASE ~M!Ok(c)
      <4>1. Return(c) /\ db' = db /\ ui' = [ui EXCEPT !.auto = FALSE]
        BY <2>5, <3>2, MatchCalls DEF M!OnAuto
      <4>2. Good(ui')
        BY <1>1, <4>1 DEF RowsTyped, RowFields, Good, Rendered, M!Shown
      <4> QED
        BY <1>5, <4>1, <4>2
    <3> QED
      BY <3>1, <3>2
  <2>6. CASE M!OnDone(c)
    <3> DEFINE u == [ui EXCEPT !.offers = @ \ {pending[c].arg.offer}, !.matched = @ + 1]
    <3>1. RowsTyped(u)
      BY <1>1 DEF RowsTyped, RowFields
    <3>2. ui' = M!Render(u) /\ Return(c) /\ db' = db
      BY <2>6, MatchCalls DEF M!OnDone
    <3> HIDE DEF u
    <3> QED
      BY <1>5, <1>7, <3>1, <3>2
  <2>7. CASE M!OnMatchError(c)
    <3> DEFINE o == pending[c].arg.offer
    <3>1. o \in Offers /\ Return(c) /\ db' = db
      BY <2>1, <2>7, MatchCalls DEF M!OnMatchError, RowCall
    <3>2. ui' = IF ui.row[o] # None /\ ui.row[o].call = c
                THEN [ui EXCEPT !.row[o].call = None] ELSE ui
      BY <2>7 DEF M!OnMatchError
    <3> HIDE DEF o
    <3>3. CASE ui.row[o] # None /\ ui.row[o].call = c
      <4>1. [ui.row[o] EXCEPT !.call = None] \in RowStates
        BY <1>9, <3>1, <3>3 DEF RowStates
      <4>2. ui' = [ui EXCEPT !.row[o] = [ui.row[o] EXCEPT !.call = None]]
        BY <1>1, <3>1, <3>2, <3>3 DEF RowsTyped, RowFields
      <4>3. Good(ui')
        BY <1>8, <3>1, <3>3, <4>1, <4>2
      <4> QED
        BY <1>5, <3>1, <4>3
    <3>4. CASE ~(ui.row[o] # None /\ ui.row[o].call = c)
      BY <1>1, <1>5, <3>1, <3>2, <3>4
    <3> QED
      BY <3>3, <3>4
  <2> QED
    BY <1>13, <2>2, <2>3, <2>4, <2>5, <2>6, <2>7 DEF M!Continue
<1> QED
  BY <1>10, <1>11, <1>13 DEF M!Next, M!Calls, Calls

LEMMA MatchTypesAre == ASSUME MatchTypes PROVE M!TypeOK
BY DEF MatchTypes, RowsTyped, Rendered, M!TypeOK

(* The price lists. *)

\* The list of the price lists names those there are.
BatchLists(op, ans, d) == op = "batches" => ans \in {Sent, Failed} \cup SUBSET d
ImportTypes ==
  /\ CallsInv /\ {"supplier", "file", "open", "batches"} \subseteq DOMAIN ui
  /\ I!TypeOK
  /\ \A c \in Calls : BatchLists(pending[c].op, pending[c].ans, db)

\* Price lists are added and never go, so an answer of before stays true.
LEMMA BatchListsGrow ==
  ASSUME ImportTypes, NEW c \in Calls, NEW op, NEW arg, NEW ans, Says(c, op, arg, ans),
         db \subseteq db', BatchLists(op, ans, db')
  PROVE  \A d \in Calls : BatchLists(pending[d].op, pending[d].ans, db)'
BY DEF ImportTypes, Says, BatchLists

LEMMA ImportTypesInit == ASSUME I!Init PROVE ImportTypes
<1>1. pending = Opening(<<Request("suppliers", None), Request("batches", None)>>)
  BY DEF I!Init, I!Opening, I!Request, I!NoCall, I!Calls, Opening, Request, NoCall, Calls
<1>2. CallsInv /\ \A c \in Calls : BatchLists(pending[c].op, pending[c].ans, db)
  BY <1>1, TwoOpeningSay DEF BatchLists
<1> QED
  BY <1>2, PortalAssumption DEF PortalAssumption, I!Init, I!Blank, I!TypeOK, ImportTypes

LEMMA ImportTypesStay == ASSUME ImportTypes, I!Next PROVE ImportTypes'
<1> DEFINE Fields == {"supplier", "file", "open", "batches"}
           Typed(u, d) == /\ Fields \subseteq DOMAIN u /\ u.batches \subseteq d
                          /\ u.supplier \in Suppliers \cup {None}
                          /\ u.file \in Files \cup {None} /\ u.open \subseteq Offers
           Lists == \A c \in Calls : BatchLists(pending[c].op, pending[c].ans, db)
<1>1. CallsInv /\ Typed(ui, db) /\ Lists /\ db \subseteq Batches
  BY DEF ImportTypes, I!TypeOK
<1>2. ASSUME Typed(ui', db'), db' \subseteq Batches, CallsInv', Lists'
      PROVE  ImportTypes'
  BY <1>2 DEF ImportTypes, I!TypeOK
<1>3. ASSUME NEW c \in Calls, NEW op, NEW arg, NEW ans, Says(c, op, arg, ans), CallsInv',
             BatchLists(op, ans, db'), db \subseteq db', db' \subseteq Batches, Typed(ui', db')
      PROVE  ImportTypes'
  BY <1>2, <1>3, BatchListsGrow
<1>4. ASSUME NEW u, Typed(u, db) PROVE Typed(I!Render(u), db)
  BY <1>4 DEF I!Render
<1>5. ASSUME UNCHANGED <<db, pending>>, Typed(ui', db) PROVE ImportTypes'
  BY <1>1, <1>2, <1>5 DEF CallsInv, BatchLists
<1>6. ASSUME NEW op, NEW arg, Ask(op, arg), db' = db, Typed(ui', db)
      PROVE  ImportTypes'
  BY <1>1, <1>3, <1>6, AskSays DEF BatchLists
<1>7. ASSUME NEW c \in Calls, Return(c), db' = db, Typed(ui', db) PROVE ImportTypes'
  <2>1. CallsInv' /\ Says(c, "none", None, None) /\ BatchLists("none", None, db')
    BY <1>1, <1>7, ReturnSays DEF BatchLists
  <2> QED
    BY <1>1, <1>3, <1>7, <2>1
<1>8. ASSUME NEW c \in Calls, NEW op, NEW arg, Await(c, op, arg), db' = db, Typed(ui', db)
      PROVE  ImportTypes'
  <2>1. CallsInv' /\ Says(c, op, arg, Sent) /\ BatchLists(op, Sent, db')
    BY <1>1, <1>8, AwaitSays DEF BatchLists
  <2> QED
    BY <1>1, <1>3, <1>8, <2>1
<1> HIDE DEF Lists
<1>9. CASE I!UserStep
  <2>1. ASSUME NEW s \in Suppliers \cup {None}, I!OnSelectSupplier(s) PROVE ImportTypes'
    BY <1>1, <1>5, <2>1 DEF I!OnSelectSupplier
  <2>2. ASSUME NEW f \in Files, I!ChooseFile(f) PROVE ImportTypes'
    BY <1>1, <1>5, <2>2 DEF I!ChooseFile
  <2>3. CASE I!OnPreview
    <3> DEFINE u == [ui EXCEPT !.busy = TRUE, !.shown = None]
    <3>1. Typed(u, db)
      BY <1>1
    <3>2. ui' = I!Render(u) /\ db' = db /\ \E arg : Ask("preview", arg)
      BY <2>3, ImportsCalls DEF I!OnPreview
    <3> HIDE DEF u, Typed
    <3> QED
      BY <1>4, <1>6, <3>1, <3>2
  <2>4. CASE I!OnImport
    BY <1>1, <1>6, <2>4, ImportsCalls DEF I!OnImport
  <2>5. ASSUME NEW b \in Batches, I!OpenBatch(b) PROVE ImportTypes'
    BY <1>1, <1>6, <2>5, ImportsCalls DEF I!OpenBatch
  <2>6. ASSUME NEW o \in Offers, I!ToggleMatch(o) PROVE ImportTypes'
    <3>1. CASE o \in ui.open
      <4> DEFINE u == [ui EXCEPT !.open = @ \ {o}]
      <4>1. Typed(u, db)
        BY <1>1
      <4>2. ui' = I!Render(u) /\ UNCHANGED <<db, pending>>
        BY <2>6, <3>1 DEF I!ToggleMatch
      <4> HIDE DEF u, Typed
      <4> QED
        BY <1>4, <1>5, <4>1, <4>2
    <3>2. CASE o \notin ui.open
      <4>1. Ask("suggest", o) /\ db' = db
        BY <2>6, <3>2, ImportsCalls DEF I!ToggleMatch
      <4>2. Typed(ui', db)
        BY <1>1, <2>6, <3>2 DEF I!ToggleMatch
      <4> QED
        BY <1>6, <4>1, <4>2
    <3> QED
      BY <3>1, <3>2
  <2>7. ASSUME NEW o \in Offers, I!MatchOffer(o) PROVE ImportTypes'
    <3>1. Ask("match", o) /\ db' = db /\ Typed(ui', db)
      BY <1>1, <2>7, ImportsCalls DEF I!MatchOffer
    <3> QED
      BY <1>6, <3>1
  <2> QED
    BY <1>9, <2>1, <2>2, <2>3, <2>4, <2>5, <2>6, <2>7 DEF I!UserStep
<1>10. ASSUME NEW c \in Calls, I!Serve(c) PROVE ImportTypes'
  <2>1. /\ ui' = ui /\ db \subseteq db' /\ db' \subseteq Batches
        /\ \E a : /\ pending' = [pending EXCEPT ![c].ans = a]
                  /\ BatchLists(pending[c].op, a, db')
    <3>1. CASE I!ServeImport(c)
      <4>1. ui' = ui /\ db \subseteq db' /\ db' \subseteq Batches /\ pending[c].op = "import"
        BY <1>1, <3>1 DEF I!ServeImport
      <4>2. \E a : pending' = [pending EXCEPT ![c].ans = a]
        BY <3>1 DEF I!ServeImport, I!Reply
      <4> QED
        BY <4>1, <4>2 DEF BatchLists
    <3>2. CASE I!ServeBatches(c)
      BY <1>1, <3>2 DEF I!ServeBatches, I!Reply, BatchLists
    <3>3. CASE I!ServeOther(c)
      BY <1>1, <3>3 DEF I!ServeOther, I!Reply, BatchLists
    <3>4. CASE I!RefuseCall(c)
      BY <1>1, <3>4 DEF I!RefuseCall, I!Refuse, BatchLists
    <3> QED
      BY <1>10, <3>1, <3>2, <3>3, <3>4 DEF I!Serve
  <2>2. PICK a : CallsInv' /\ Says(c, pending[c].op, pending[c].arg, a)
                 /\ BatchLists(pending[c].op, a, db')
    BY <1>1, <2>1, AnswerSays
  <2>3. Typed(ui', db')
    BY <1>1, <2>1
  <2> HIDE DEF Typed
  <2> QED
    BY <1>3, <2>1, <2>2, <2>3
<1>11. ASSUME NEW c \in Calls, I!Continue(c) PROVE ImportTypes'
  <2>1. db' = db
    BY <1>11 DEF I!Continue, I!OnSuppliers, I!OnBatches, I!OnPreviewDone, I!OnImportDone,
                 I!OnOffers, I!OnCardAnswer
  <2>2. Return(c) \/ \E op, arg : Await(c, op, arg)
    BY <1>11, ImportsCalls
    DEF I!Continue, I!OnSuppliers, I!OnBatches, I!OnPreviewDone, I!OnImportDone,
        I!OnOffers, I!OnCardAnswer
  <2>3. Typed(ui', db)
    <3>1. CASE I!OnBatches(c)
      <4> DEFINE u == IF I!Ok(c) THEN [ui EXCEPT !.batches = pending[c].ans] ELSE ui
      <4>1. I!Ok(c) => pending[c].ans \subseteq db
        BY <1>1, <3>1 DEF I!OnBatches, I!Ok, I!Answered, BatchLists, Lists
      <4>2. Typed(u, db)
        BY <1>1, <4>1
      <4>3. ui' \in {u, [u EXCEPT !.busy = FALSE]}
        BY <3>1 DEF I!OnBatches
      <4> HIDE DEF u
      <4> QED
        BY <4>2, <4>3
    <3>2. CASE I!OnOffers(c)
      <4> DEFINE u == [ui EXCEPT !.busy = ui.busy /\ ~pending[c].arg.import]
                 w == [u EXCEPT !.shown = pending[c].arg.batch, !.open = {}]
      <4>1. Typed(u, db) /\ Typed(w, db)
        BY <1>1
      <4>2. ui' \in {u, I!Render(w)}
        BY <3>2 DEF I!OnOffers
      <4> HIDE DEF u, w, Typed
      <4> QED
        BY <1>4, <4>1, <4>2
    <3>3. CASE I!OnSuppliers(c) \/ I!OnPreviewDone(c) \/ I!OnImportDone(c) \/ I!OnCardAnswer(c)
      BY <1>1, <3>3 DEF I!OnSuppliers, I!OnPreviewDone, I!OnImportDone, I!OnCardAnswer
    <3> QED
      BY <1>11, <3>1, <3>2, <3>3 DEF I!Continue
  <2> HIDE DEF Typed
  <2> QED
    BY <1>7, <1>8, <2>1, <2>2, <2>3
<1> QED
  BY <1>9, <1>10, <1>11 DEF I!Next, I!Calls, Calls

LEMMA ImportTypesAre == ASSUME ImportTypes PROVE I!TypeOK
BY DEF ImportTypes

(* The showcase. *)

\* A page of a listing is a list of cards.
LEMMA PagesOfLists ==
  ASSUME NEW s \in Seq(Products), NEW m \in Nat, NEW n \in Nat, n <= Len(s)
  PROVE  SubSeq(s, m + 1, n) \in Seq(Products)
OBVIOUS

\* A list brings a page and the length of all, prices are asked for cards.
ShowCall(op, arg, ans) ==
  /\ op = "list" => /\ arg \in [filter : C!Filters, offset : Nat]
                    /\ ans \in {Sent, Failed} \cup [page : Seq(Products), total : Nat]
  /\ op = "prices" => arg \subseteq Products /\ ans \in {Sent, Failed} \cup SUBSET Products
ShowFields == {"filter", "asked", "timer", "products", "priced", "total"}
ShowTyped(u) ==
  /\ ShowFields \subseteq DOMAIN u
  /\ u.filter \in C!Filters /\ u.asked \in C!Filters /\ u.timer \in C!Filters \cup {None}
  /\ u.products # None => u.products \in Seq(Products)
  /\ u.priced \subseteq Products /\ u.total \in Nat
ShowTypes ==
  /\ CallsInv /\ ShowTyped(ui)
  /\ \A c \in Calls : ShowCall(pending[c].op, pending[c].arg, pending[c].ans)

\* The calls of the page's instance are those of WebCalls.
LEMMA ShowcaseCalls ==
  /\ \A op, arg : C!Ask(op, arg) => Ask(op, arg)
  /\ \A c, op, arg : C!Await(c, op, arg) => Await(c, op, arg)
  /\ \A c : C!Return(c) => Return(c)
BY DEF C!Ask, C!CanCall, C!NextCall, C!Idle, C!Calls, C!Await, C!Request, C!Return, C!NoCall,
       Ask, CanCall, NextCall, Idle, Calls, Await, Request, Return, NoCall

LEMMA ShowTypesInit == ASSUME C!Init PROVE ShowTypes
<1> DEFINE f == [query |-> NoQuery, price |-> NoPrice, choice |-> Usual]
           arg == [filter |-> f, offset |-> 0]
<1>1. f \in C!Filters
  BY PortalAssumption DEF PortalAssumption, C!Filters
<1>2. pending = Opening(<<Request("list", arg), Request("suppliers", None)>>)
  BY DEF C!Init, C!Opening, C!Request, C!NoCall, C!Calls, Opening, Request, NoCall, Calls
<1>3. arg \in [filter : C!Filters, offset : Nat]
  BY <1>1
<1>4. ShowTyped(ui)
  BY <1>1 DEF C!Init, ShowTyped, ShowFields
<1> HIDE DEF f, arg
<1>5. CallsInv /\ \A c \in Calls : ShowCall(pending[c].op, pending[c].arg, pending[c].ans)
  BY <1>2, <1>3, TwoOpeningSay DEF ShowCall
<1> QED
  BY <1>4, <1>5 DEF ShowTypes

LEMMA ShowTypesStay == ASSUME ShowTypes, C!Next PROVE ShowTypes'
<1> DEFINE Said == \A c \in Calls : ShowCall(pending[c].op, pending[c].arg, pending[c].ans)
<1>1. CallsInv /\ ShowTyped(ui) /\ Said
  BY DEF ShowTypes
<1>2. ASSUME NEW c \in Calls, NEW op, NEW arg, NEW ans, Says(c, op, arg, ans), CallsInv',
             ShowCall(op, arg, ans), ShowTyped(ui')
      PROVE  ShowTypes'
  BY <1>1, <1>2 DEF Says, ShowTypes
<1>3. ASSUME UNCHANGED pending, ShowTyped(ui') PROVE ShowTypes'
  BY <1>1, <1>3 DEF CallsInv, ShowTypes
<1>4. ASSUME NEW op, NEW arg, Ask(op, arg), ShowTyped(ui'), ShowCall(op, arg, Sent)
      PROVE  ShowTypes'
  BY <1>1, <1>2, <1>4, AskSays
<1>5. ASSUME NEW c \in Calls, Return(c), ShowTyped(ui') PROVE ShowTypes'
  <2>1. CallsInv' /\ Says(c, "none", None, None) /\ ShowCall("none", None, None)
    BY <1>1, <1>5, ReturnSays DEF ShowCall
  <2> QED
    BY <1>1, <1>2, <1>5, <2>1
<1> HIDE DEF Said
<1>6. ASSUME NEW u, ShowTyped(u), NEW f \in C!Filters, NEW o \in Nat, C!Load(u, f, o)
      PROVE  ShowTypes'
  <2>1. Ask("list", [filter |-> f, offset |-> o])
    BY <1>6, ShowcaseCalls DEF C!Load
  <2>2. ShowTyped(ui')
    BY <1>6 DEF C!Load, ShowTyped, ShowFields
  <2>3. ShowCall("list", [filter |-> f, offset |-> o], Sent)
    BY DEF ShowCall
  <2> QED
    BY <1>4, <2>1, <2>2, <2>3
<1>7. ASSUME NEW f \in C!Filters, C!FilterChanged(f) PROVE ShowTypes'
  <2> DEFINE u == [ui EXCEPT !.filter = f, !.timer = f]
             w == [ui EXCEPT !.filter = f, !.timer = None]
  <2>1. ShowTyped(u) /\ ShowTyped(w)
    BY <1>1 DEF ShowTyped, ShowFields
  <2>2. \/ ui' = u /\ UNCHANGED pending
        \/ C!Load(w, f, 0)
    BY <1>7 DEF C!FilterChanged
  <2> HIDE DEF u, w
  <2> QED
    BY <1>3, <1>6, <2>1, <2>2
<1>8. CASE C!UserStep \/ C!TimerFires
  <2>1. ui.filter \in C!Filters
    BY <1>1 DEF ShowTyped
  <2>2. ASSUME NEW q \in Queries, NEW p \in Prices, C!Type(q, p) PROVE ShowTypes'
    <3>1. [ui.filter EXCEPT !.query = q, !.price = p] \in C!Filters
      BY <2>1 DEF C!Filters
    <3> QED
      BY <1>7, <2>2, <3>1 DEF C!Type
  <2>3. ASSUME NEW v \in Choices, C!Choose(v) PROVE ShowTypes'
    <3>1. [ui.filter EXCEPT !.choice = v] \in C!Filters
      BY <2>1 DEF C!Filters
    <3> QED
      BY <1>7, <2>3, <3>1 DEF C!Choose
  <2>4. CASE C!ResetFilters
    <3>1. [ui.filter EXCEPT !.price = NoPrice, !.choice = Usual] \in C!Filters
      BY <2>1, PortalAssumption DEF PortalAssumption, C!Filters
    <3> QED
      BY <1>7, <2>4, <3>1 DEF C!ResetFilters
  <2>5. CASE C!ShowMore
    <3>1. C!Load(ui, ui.filter, Len(ui.products)) /\ Len(ui.products) \in Nat
      BY <1>1, <2>5 DEF C!ShowMore, C!CanMore, ShowTyped
    <3> QED
      BY <1>1, <1>6, <2>1, <3>1
  <2>6. CASE C!TimerFires
    <3> DEFINE u == [ui EXCEPT !.timer = None]
    <3>1. ShowTyped(u) /\ ui.timer \in C!Filters
      BY <1>1, <2>6 DEF C!TimerFires, ShowTyped, ShowFields
    <3>2. C!Load(u, ui.timer, 0)
      BY <2>6 DEF C!TimerFires
    <3> HIDE DEF u
    <3> QED
      BY <1>6, <3>1, <3>2
  <2> QED
    BY <1>8, <2>2, <2>3, <2>4, <2>5, <2>6 DEF C!UserStep
<1>9. ASSUME NEW c \in Calls, C!Serve(c) PROVE ShowTypes'
  <2>1. ShowCall(pending[c].op, pending[c].arg, pending[c].ans)
    BY <1>1 DEF Said
  <2>2. PICK a : /\ pending' = [pending EXCEPT ![c].ans = a]
                 /\ ShowCall(pending[c].op, pending[c].arg, a)
    <3>1. CASE C!ServeList(c)
      <4> DEFINE all == Listing[pending[c].arg.filter]
                 o == pending[c].arg.offset
                 last == IF o + PageSize < Len(all) THEN o + PageSize ELSE Len(all)
                 answer == [page |-> SubSeq(all, o + 1, last), total |-> Len(all)]
      <4>1. pending[c].op = "list" /\ pending[c].arg \in [filter : C!Filters, offset : Nat]
        BY <2>1, <3>1 DEF C!ServeList, ShowCall
      <4>2. all \in Seq(Products) /\ o \in Nat /\ PageSize \in Nat
        BY <4>1, PortalAssumption, TypesAssumption DEF PortalAssumption, TypesAssumption
      <4>3. \E a \in {answer, Failed} : pending' = [pending EXCEPT ![c].ans = a]
        BY <3>1 DEF C!ServeList, C!Reply
      <4>4. Len(all) \in Nat
        BY <4>2
      <4> HIDE DEF all, o
      <4>5. last \in Nat /\ last <= Len(all)
        BY <4>2, <4>4
      <4> HIDE DEF last
      <4>6. answer \in [page : Seq(Products), total : Nat]
        BY <4>2, <4>4, <4>5, PagesOfLists
      <4> HIDE DEF answer
      <4> QED
        BY <4>1, <4>3, <4>6 DEF ShowCall
    <3>2. CASE C!ServePrices(c)
      BY <2>1, <3>2 DEF C!ServePrices, C!Reply, ShowCall
    <3>3. CASE C!ServeSuppliers(c)
      BY <2>1, <3>3 DEF C!ServeSuppliers, C!Reply, ShowCall
    <3>4. CASE C!RefuseCall(c)
      BY <2>1, <3>4 DEF C!RefuseCall, C!Refuse, ShowCall
    <3> QED
      BY <1>9, <3>1, <3>2, <3>3, <3>4 DEF C!Serve
  <2>3. ui' = ui
    BY <1>9 DEF C!Serve, C!ServeList, C!ServePrices, C!ServeSuppliers, C!RefuseCall
  <2> QED
    BY <1>1, <1>2, <2>2, <2>3, AnswerSays
<1>10. ASSUME NEW c \in Calls, C!OnList(c) PROVE ShowTypes'
  <2> DEFINE d == pending[c].ans
             shown == IF ui.products = None THEN <<>> ELSE ui.products
             first == [ui EXCEPT !.products = d.page, !.total = d.total, !.priced = {},
                                 !.ready = FALSE]
             more == [ui EXCEPT !.products = shown \o d.page, !.total = d.total]
             u == IF pending[c].arg.offset = 0 THEN first ELSE more
  <2>1. d \in [page : Seq(Products), total : Nat]
    <3>1. ShowCall(pending[c].op, pending[c].arg, d)
      BY <1>1 DEF Said
    <3> QED
      BY <1>10, <3>1 DEF C!OnList, C!Ok, C!Answered, ShowCall
  <2>2. d.page \in Seq(Products) /\ d.total \in Nat
    BY <2>1
  <2>3. shown \o d.page \in Seq(Products)
    <3>1. shown \in Seq(Products)
      BY <1>1 DEF ShowTyped
    <3> HIDE DEF shown, d
    <3> QED
      BY <2>2, <3>1
  <2>4. ShowTyped(u)
    <3> DEFINE all == shown \o d.page
               t == d.total
               p == d.page
    <3>1. p \in Seq(Products) /\ t \in Nat /\ all \in Seq(Products)
      BY <2>2, <2>3
    <3>2. /\ first = [ui EXCEPT !.products = p, !.total = t, !.priced = {}, !.ready = FALSE]
          /\ more = [ui EXCEPT !.products = all, !.total = t]
      OBVIOUS
    <3> HIDE DEF all, t, p, first, more
    <3>3. ShowTyped(first) /\ ShowTyped(more)
      BY <1>1, <3>1, <3>2 DEF ShowTyped, ShowFields
    <3> QED
      BY <3>3
  <2>5. C!IdsOf(d.page) \subseteq Products
    BY <2>2 DEF C!IdsOf
  <2>6. ASSUME NEW v, ShowTyped(v)
        PROVE  ShowTyped(C!Loaded(v)) /\ ShowTyped(C!Loaded([v EXCEPT !.ready = TRUE]))
    BY <2>6 DEF C!Loaded, ShowTyped, ShowFields
  <2>7. \/ ui' = C!Loaded([u EXCEPT !.ready = TRUE]) /\ Return(c)
        \/ ui' = C!Loaded(u) /\ Await(c, "prices", C!IdsOf(d.page))
    BY <1>10, ShowcaseCalls DEF C!OnList
  <2>8. ShowCall("prices", C!IdsOf(d.page), Sent)
    BY <2>5 DEF ShowCall
  <2> HIDE DEF u, d
  <2>9. CASE ui' = C!Loaded([u EXCEPT !.ready = TRUE]) /\ Return(c)
    BY <1>5, <2>4, <2>6, <2>9
  <2>10. CASE ui' = C!Loaded(u) /\ Await(c, "prices", C!IdsOf(d.page))
    <3>1. CallsInv' /\ Says(c, "prices", C!IdsOf(d.page), Sent)
      BY <1>1, <2>10, AwaitSays
    <3> QED
      BY <1>2, <2>4, <2>6, <2>8, <2>10, <3>1
  <2> QED
    BY <2>7, <2>9, <2>10
<1>11. ASSUME NEW c \in Calls, C!OnListError(c) \/ C!OnPrices(c) \/ C!OnSuppliers(c)
       PROVE  ShowTypes'
  <2>1. Return(c)
    BY <1>11, ShowcaseCalls DEF C!OnListError, C!OnPrices, C!OnSuppliers
  <2>2. CASE C!OnListError(c) \/ C!OnSuppliers(c)
    <3>1. ShowTyped(ui')
      BY <1>1, <2>2 DEF C!OnListError, C!OnSuppliers, C!Loaded, ShowTyped, ShowFields
    <3> QED
      BY <1>5, <2>1, <3>1
  <2>3. CASE C!OnPrices(c)
    <3>1. ShowCall(pending[c].op, pending[c].arg, pending[c].ans)
      BY <1>1 DEF Said
    <3>2. C!Ok(c) => pending[c].ans \subseteq Products
      BY <2>3, <3>1 DEF C!OnPrices, C!Ok, C!Answered, ShowCall
    <3>3. PICK priced \in SUBSET Products :
            ui' = [ui EXCEPT !.ready = TRUE, !.priced = priced]
      <4> DEFINE priced == IF C!Ok(c) THEN ui.priced \cup pending[c].ans ELSE ui.priced
      <4>1. priced \in SUBSET Products
        BY <1>1, <3>2 DEF ShowTyped
      <4>2. ui' = [ui EXCEPT !.ready = TRUE, !.priced = priced]
        BY <2>3 DEF C!OnPrices
      <4> HIDE DEF priced
      <4> QED
        BY <4>1, <4>2
    <3>4. ShowTyped(ui')
      BY <1>1, <3>3 DEF ShowTyped, ShowFields
    <3> QED
      BY <1>5, <2>1, <3>4
  <2> QED
    BY <1>11, <2>2, <2>3
<1> QED
  BY <1>8, <1>9, <1>10, <1>11 DEF C!Next, C!Continue, C!Calls, Calls

LEMMA ShowTypesAre == ASSUME ShowTypes PROVE C!TypeOK
BY DEF ShowTypes, ShowTyped, C!IdsOf, C!TypeOK

(* The page of a card. *)

\* A list of photos: whatever they are, the first of some stands at 1.
IsList(s) == s # <<>> => 1 \in DOMAIN s
CardFields == {"id", "loading", "shown", "images", "active", "tier"}
CardTyped(u) ==
  /\ CardFields \subseteq DOMAIN u
  /\ u.id \in Products /\ u.tier \in D!Tiers
  /\ u.shown => ~u.loading
  /\ u.active # None => \E n \in DOMAIN u.images : u.images[n] = u.active
CardCall(op, arg) == op = "page" => "images" \in DOMAIN arg /\ IsList(arg.images)
PageTypes ==
  /\ CallsInv /\ CardTyped(ui)
  /\ \A c \in Calls : pending[c].op \in {"none", "page"}
                      /\ CardCall(pending[c].op, pending[c].arg)

\* Photos that are deleted meanwhile are left out, and the others move up.
LEMMA RemainingIsList ==
  ASSUME NEW p \in Products PROVE IsList(D!Remaining(PagePhotos[p]))
<1> DEFINE s == PagePhotos[p]
           kept == {n \in DOMAIN s : s[n] \notin db}
           At(k) == CHOOSE n \in kept : D!Cardinality({m \in kept : m <= n}) = k
           rest == [i \in 1..D!Cardinality(kept) |-> s[At(i)]]
<1>1. D!Remaining(s) = rest
  BY DEF D!Remaining
<1>2. D!Cardinality(kept) \in Nat
  <2>1. DOMAIN s = 1..Len(s) /\ Len(s) \in Nat
    BY TypesAssumption DEF TypesAssumption
  <2>2. IsFiniteSet(1..Len(s))
    BY <2>1, FS_Interval
  <2>3. IsFiniteSet(kept)
    BY <2>1, <2>2, FS_Subset
  <2>4. D!Cardinality(kept) = Cardinality(kept)
    BY DEF D!Cardinality, Cardinality
  <2> HIDE DEF kept
  <2> QED
    BY <2>3, <2>4, FS_CardinalityType
<1> DEFINE k == D!Cardinality(kept)
<1>3. k \in Nat
  BY <1>2
<1> HIDE DEF kept, At, k
<1>4. DOMAIN rest = 1..k
  BY DEF k
<1>5. CASE k = 0
  <2>1. rest = <<>>
    BY <1>4, <1>5 DEF k
  <2> QED
    BY <1>1, <2>1 DEF IsList
<1>6. CASE k # 0
  <2>1. 1 \in 1..k
    BY <1>3, <1>6
  <2> HIDE DEF rest
  <2>2. IsList(rest)
    BY <1>4, <2>1 DEF IsList
  <2> QED
    BY <1>1, <2>2
<1> QED
  BY <1>5, <1>6

LEMMA PageTypesInit == ASSUME D!Init PROVE PageTypes
<1>1. pending = Opening(<<Request("page", [left |-> D!Parts, images |-> <<>>])>>)
  BY DEF D!Init, D!Opening, D!Request, D!NoCall, D!Calls, Opening, Request, NoCall, Calls
<1>2. /\ CallsInv
      /\ \A c \in Calls : pending[c].op \in {"none", "page"}
                          /\ CardCall(pending[c].op, pending[c].arg)
  BY <1>1, OpeningSays DEF CardCall, IsList
<1> QED
  BY <1>2 DEF D!Init, D!Tiers, PageTypes, CardTyped, CardFields

LEMMA PageTypesStay == ASSUME PageTypes, D!Next PROVE PageTypes'
<1> DEFINE Entry(c) == pending[c].op \in {"none", "page"}
                       /\ CardCall(pending[c].op, pending[c].arg)
<1>1. CallsInv /\ CardTyped(ui) /\ \A c \in Calls : Entry(c)
  BY DEF PageTypes
<1>2. ASSUME UNCHANGED pending, CardTyped(ui') PROVE PageTypes'
  BY <1>1, <1>2 DEF CallsInv, PageTypes
<1>3. ASSUME NEW c \in Calls, NEW op \in {"none", "page"}, NEW arg, CallsInv',
             pending'[c].op = op, pending'[c].arg = arg,
             \A d \in Calls \ {c} : pending'[d] = pending[d],
             CardCall(op, arg), CardTyped(ui')
      PROVE  PageTypes'
  BY <1>1, <1>3 DEF PageTypes
<1>4. CASE D!UserStep
  <2>1. ASSUME NEW n \in DOMAIN ui.images, D!OpenPhoto(ui.images[n]) PROVE PageTypes'
    <3>1. UNCHANGED pending /\ CardTyped(ui')
      BY <1>1, <2>1 DEF D!OpenPhoto, CardTyped, CardFields
    <3> QED
      BY <1>2, <3>1
  <2>2. ASSUME NEW t \in D!Tiers, D!ChooseTier(t) PROVE PageTypes'
    <3>1. UNCHANGED pending /\ CardTyped(ui')
      BY <1>1, <2>2 DEF D!ChooseTier, CardTyped, CardFields
    <3> QED
      BY <1>2, <3>1
  <2> QED
    BY <1>4, <2>1, <2>2 DEF D!UserStep
<1>5. ASSUME NEW x, D!DeleteElsewhere(x) PROVE PageTypes'
  BY <1>1, <1>2, <1>5 DEF D!DeleteElsewhere
<1>6. ASSUME NEW c \in Calls, D!RefuseCall(c) PROVE PageTypes'
  <2>1. ui' = ui /\ pending' = [pending EXCEPT ![c].ans = Failed]
    BY <1>6 DEF D!RefuseCall, D!Refuse
  <2>2. CallsInv' /\ Says(c, pending[c].op, pending[c].arg, Failed)
    BY <1>1, <2>1, AnswerSays
  <2> QED
    BY <1>1, <1>3, <2>1, <2>2 DEF Says
<1>7. ASSUME NEW c \in Calls, NEW part, D!ServePart(c, part) PROVE PageTypes'
  <2>1. PICK left, images, ans :
          /\ pending' = [pending EXCEPT ![c].arg = [left |-> left, images |-> images],
                                        ![c].ans = ans]
          /\ images \in {pending[c].arg.images, <<>>, D!Remaining(PagePhotos[ui.id])}
    BY <1>7 DEF D!ServePart
  <2>2. pending[c].op = "page" /\ ui' = ui
    BY <1>1, <1>7 DEF D!ServePart, D!Waiting, D!Idle
  <2>3. IsList(images)
    <3>1. ui.id \in Products /\ IsList(pending[c].arg.images)
      BY <1>1, <2>2 DEF CardTyped, CardCall
    <3>2. IsList(<<>>)
      BY DEF IsList
    <3> QED
      BY <2>1, <3>1, <3>2, RemainingIsList
  <2>4. /\ CallsInv' /\ pending'[c].op = "page"
        /\ pending'[c].arg = [left |-> left, images |-> images]
        /\ \A d \in Calls \ {c} : pending'[d] = pending[d]
    BY <1>1, <2>1, <2>2 DEF CallsInv
  <2>5. CardCall("page", [left |-> left, images |-> images])
    BY <2>3 DEF CardCall
  <2> QED
    BY <1>1, <1>3, <2>2, <2>4, <2>5
<1>8. ASSUME NEW c \in Calls, D!OnPage(c) PROVE PageTypes'
  <2> DEFINE s == pending[c].arg.images
             u == [ui EXCEPT !.loading = FALSE]
             first == IF s = <<>> THEN None ELSE s[1]
  <2>1. pending[c].op = "page"
    BY <1>1, <1>8 DEF D!OnPage, D!Answered, D!Idle
  <2>2. IsList(s)
    BY <1>1, <2>1 DEF CardCall
  <2>3. \/ ui' = u
        \/ ui' = [u EXCEPT !.shown = TRUE, !.images = s, !.active = first]
    BY <1>8 DEF D!OnPage
  <2>4. CardTyped(u) /\ ~u.loading
    BY <1>1 DEF CardTyped, CardFields
  <2>5. first # None => \E n \in DOMAIN s : s[n] = first
    BY <2>2 DEF IsList
  <2> HIDE DEF u, s, first
  <2>6. CardTyped(ui')
    BY <2>3, <2>4, <2>5 DEF CardTyped, CardFields
  <2>7. Return(c)
    BY <1>8 DEF D!OnPage, D!Return, D!NoCall, Return, NoCall
  <2>8. CallsInv' /\ Says(c, "none", None, None)
    BY <1>1, <2>7, ReturnSays
  <2>9. CardCall("none", None)
    BY DEF CardCall
  <2> QED
    BY <1>3, <2>6, <2>8, <2>9 DEF Says
<1> QED
  BY <1>4, <1>5, <1>6, <1>7, <1>8
  DEF D!Next, D!ElsewhereStep, D!Serve, D!Continue, D!Calls, Calls

LEMMA PageTypesAre == ASSUME PageTypes PROVE D!TypeOK
BY DEF PageTypes, CardTyped, CardFields, D!TypeOK

(* The comparison. *)

\* A search answers with cards.
SearchAnswer(op, ans) == op = "search" => ans \in {Sent, Failed} \cup SUBSET Products
CompareTypes ==
  /\ CompareInv /\ {"results", "selected", "loading"} \subseteq DOMAIN ui
  /\ P!TypeOK
  /\ \A c \in Calls : SearchAnswer(pending[c].op, pending[c].ans)

LEMMA CompareTypesInit == ASSUME P!Init PROVE CompareTypes
<1>1. \A c \in Calls : pending[c].op = "none"
  BY DEF P!Init, P!NoCalls, P!NoCall, P!Calls, Calls
<1> QED
  BY <1>1, CompareInit DEF P!Init, P!TypeOK, P!Tiers, SearchAnswer, CompareTypes

LEMMA CompareTypesStay == ASSUME CompareTypes, P!Next PROVE CompareTypes'
<1> DEFINE Fields == {"results", "selected", "loading", "cmp", "tier"}
           Typed(u) == /\ Fields \subseteq DOMAIN u /\ u.results \subseteq Products
                       /\ u.selected \in Products \cup {None}
           Tiered(u) == u.tier # "base" => P!TableShown(u)
           Answers == \A c \in Calls : SearchAnswer(pending[c].op, pending[c].ans)
<1>1. CallsInv /\ CompareInv' /\ Typed(ui) /\ Tiered(ui) /\ Answers
  BY CompareNext DEF CompareTypes, CompareInv, P!TypeOK
<1>2. CallsInv' /\ {"cmp", "tier"} \subseteq DOMAIN ui'
      /\ ui'.cmp \in Products \cup {None} /\ ui'.tier \in P!Tiers
  BY <1>1 DEF CompareInv, Tiers, P!Tiers
<1>3. ASSUME Typed(ui'), Tiered(ui'), Answers' PROVE CompareTypes'
  BY <1>1, <1>2, <1>3 DEF CompareTypes, P!TypeOK
<1>4. ASSUME NEW u, Typed(u) PROVE Typed(P!Render(u)) /\ Tiered(P!Render(u))
  BY <1>4 DEF P!Render, P!TableShown
<1>5. ASSUME UNCHANGED pending PROVE Answers'
  BY <1>1, <1>5
<1>6. ASSUME NEW c \in Calls, NEW op, NEW arg, NEW ans, Says(c, op, arg, ans), SearchAnswer(op, ans)
      PROVE  Answers'
  BY <1>1, <1>6 DEF Says
<1>7. ASSUME NEW op, NEW arg, Ask(op, arg) PROVE Answers'
  BY <1>1, <1>6, <1>7, AskSays DEF SearchAnswer
<1> HIDE DEF Answers
<1>8. CASE P!TypeQuery \/ P!ClearQuery
  <2> DEFINE u == [ui EXCEPT !.selected = None, !.cmp = None]
             w == [ui EXCEPT !.selected = None, !.cmp = None, !.results = {}]
  <2>1. Typed(u) /\ Typed(w)
    BY <1>1
  <2>2. ui' \in {P!Render(u), P!Render(w)}
    BY <1>8 DEF P!TypeQuery, P!ClearQuery
  <2>3. Answers'
    BY <1>5, <1>7, <1>8, CompareCalls DEF P!TypeQuery, P!ClearQuery
  <2> HIDE DEF u, w, Typed, Tiered
  <2> QED
    BY <1>3, <1>4, <2>1, <2>2, <2>3
<1>9. ASSUME NEW p \in Products, P!Pick(p) PROVE CompareTypes'
  <2> DEFINE u == [ui EXCEPT !.selected = p, !.results = {}, !.loading = TRUE, !.cmp = None]
  <2>1. Typed(u)
    BY <1>1
  <2>2. ui' = P!Render(u) /\ Answers'
    BY <1>7, <1>9, CompareCalls DEF P!Pick
  <2> HIDE DEF u, Typed, Tiered
  <2> QED
    BY <1>3, <1>4, <2>1, <2>2
<1>10. ASSUME NEW t \in P!Tiers, P!ChooseTier(t) PROVE CompareTypes'
  <2>1. P!TableShown(ui) /\ ui' = [ui EXCEPT !.tier = t] /\ Answers'
    BY <1>5, <1>10 DEF P!ChooseTier
  <2>2. Typed(ui') /\ Tiered(ui')
    BY <1>1, <2>1 DEF P!TableShown
  <2> QED
    BY <1>3, <2>1, <2>2
<1>11. ASSUME NEW c \in Calls, P!Serve(c) PROVE CompareTypes'
  <2>1. \E a : pending' = [pending EXCEPT ![c].ans = a] /\ SearchAnswer(pending[c].op, a)
    <3>1. CASE P!ServeSearch(c)
      BY <3>1 DEF P!ServeSearch, P!Reply, SearchAnswer
    <3>2. CASE P!ServePrices(c)
      BY <3>2 DEF P!ServePrices, P!Reply, SearchAnswer
    <3>3. CASE P!RefuseCall(c)
      BY <3>3 DEF P!RefuseCall, P!Refuse, SearchAnswer
    <3> QED
      BY <1>11, <3>1, <3>2, <3>3 DEF P!Serve
  <2>2. Answers'
    BY <1>1, <1>6, <2>1, AnswerSays
  <2>3. ui' = ui
    BY <1>11 DEF P!Serve, P!ServeSearch, P!ServePrices, P!RefuseCall
  <2> QED
    BY <1>1, <1>3, <2>2, <2>3
<1>12. ASSUME NEW c \in Calls, P!Continue(c) PROVE CompareTypes'
  <2>1. Answers'
    <3>1. Return(c)
      BY <1>12, CompareCalls DEF P!Continue, P!OnSearch, P!OnPrices
    <3>2. Says(c, "none", None, None) /\ SearchAnswer("none", None)
      BY <1>1, <3>1, ReturnSays DEF SearchAnswer
    <3> QED
      BY <1>6, <3>2
  <2>2. CASE P!OnSearch(c)
    <3>1. P!Ok(c) => pending[c].ans \subseteq Products
      BY <1>1, <2>2 DEF P!OnSearch, P!Ok, P!Answered, SearchAnswer, Answers
    <3>2. Typed(ui')
      BY <1>1, <2>2, <3>1 DEF P!OnSearch
    <3>3. Tiered(ui')
      BY <1>1, <2>2 DEF P!OnSearch, P!TableShown
    <3> QED
      BY <1>3, <2>1, <3>2, <3>3
  <2>3. CASE P!OnPrices(c)
    <3> DEFINE u == [ui EXCEPT !.loading = FALSE,
                               !.cmp = IF P!Ok(c) THEN pending[c].arg ELSE ui.cmp]
    <3>1. Typed(u)
      BY <1>1
    <3>2. ui' = P!Render(u)
      BY <2>3 DEF P!OnPrices
    <3> HIDE DEF u, Typed, Tiered
    <3> QED
      BY <1>3, <1>4, <2>1, <3>1, <3>2
  <2> QED
    BY <1>12, <2>2, <2>3 DEF P!Continue
<1> QED
  BY <1>8, <1>9, <1>10, <1>11, <1>12 DEF P!Next, P!UserStep, P!Calls, Calls

LEMMA CompareTypesAre == ASSUME CompareTypes PROVE P!TypeOK
BY DEF CompareTypes

(* The list of the cards. *)

\* What a handler carries along, and the length of the page of a list.
ListCall(op, arg, ans) ==
  /\ op \in {"create", "photo"}
       => {"query", "photos"} \subseteq DOMAIN arg /\ arg.query \in Searches
  /\ op = "category" => arg \in Searches
  /\ op = "list" => /\ {"query", "offset"} \subseteq DOMAIN arg
                    /\ arg.query \in Searches /\ arg.offset \in Nat
                    /\ ans \in Nat \cup {Sent, Failed}
ProductFields == {"query", "timer", "len", "files"}
ProductTypes ==
  /\ CallsInv /\ ProductFields \subseteq DOMAIN ui
  /\ L!TypeOK
  /\ \A c \in Calls : ListCall(pending[c].op, pending[c].arg, pending[c].ans)

LEMMA ProductTypesInit == ASSUME L!Init PROVE ProductTypes
<1>1. pending = Opening(<<Request("categories", None)>>)
  BY DEF L!Init, L!Opening, L!Request, L!NoCall, L!Calls, Opening, Request, NoCall, Calls
<1>2. CallsInv /\ \A c \in Calls : ListCall(pending[c].op, pending[c].arg, pending[c].ans)
  BY <1>1, OpeningSays DEF ListCall
<1>3. L!TypeOK
  BY PortalAssumption, TypesAssumption
  DEF PortalAssumption, TypesAssumption, L!Init, L!TypeOK
<1> QED
  BY <1>2, <1>3 DEF L!Init, ProductTypes, ProductFields

LEMMA ProductTypesStay == ASSUME ProductTypes, L!Next PROVE ProductTypes'
<1> DEFINE Typed(u) == /\ ProductFields \subseteq DOMAIN u
                       /\ u.query \in Searches /\ u.timer \in Searches \cup {None}
                       /\ u.len \in Nat /\ u.files \in FormFiles \cup {0}
           Said == \A c \in Calls : ListCall(pending[c].op, pending[c].arg, pending[c].ans)
<1>1. CallsInv /\ Typed(ui) /\ Said /\ db \in 0..MaxNewCards
  BY DEF ProductTypes, L!TypeOK
<1>2. ASSUME Typed(ui'), db' \in 0..MaxNewCards, CallsInv', Said' PROVE ProductTypes'
  BY <1>2 DEF ProductTypes, L!TypeOK
<1>3. ASSUME NEW c \in Calls, NEW op, NEW arg, NEW ans, Says(c, op, arg, ans), CallsInv',
             ListCall(op, arg, ans), db' \in 0..MaxNewCards, Typed(ui')
      PROVE  ProductTypes'
  BY <1>1, <1>2, <1>3 DEF Says
<1>4. ASSUME UNCHANGED <<db, pending>>, Typed(ui') PROVE ProductTypes'
  BY <1>1, <1>2, <1>4 DEF CallsInv
<1>5. ASSUME NEW op, NEW arg, Ask(op, arg), db' = db, Typed(ui'), ListCall(op, arg, Sent)
      PROVE  ProductTypes'
  BY <1>1, <1>3, <1>5, AskSays
<1>6. ASSUME NEW c \in Calls, Return(c), db' = db, Typed(ui') PROVE ProductTypes'
  <2>1. CallsInv' /\ Says(c, "none", None, None) /\ ListCall("none", None, None)
    BY <1>1, <1>6, ReturnSays DEF ListCall
  <2> QED
    BY <1>1, <1>3, <1>6, <2>1
<1>7. ASSUME NEW c \in Calls, NEW op, NEW arg, Await(c, op, arg), db' = db, Typed(ui'),
             ListCall(op, arg, Sent)
      PROVE  ProductTypes'
  BY <1>1, <1>3, <1>7, AwaitSays
<1>8. ASSUME NEW u, Typed(u), NEW o PROVE Typed(L!Loading(u, o))
  BY <1>8 DEF L!Loading, ProductFields
<1>9. ASSUME NEW q \in Searches, NEW o \in Nat
      PROVE  /\ ListCall("list", [query |-> q, offset |-> o], Sent)
             /\ ListCall("list", [query |-> q, offset |-> o, create |-> TRUE], Sent)
  BY DEF ListCall
<1> HIDE DEF Said
<1>10. ASSUME NEW u, Typed(u), NEW q \in Searches, NEW o \in Nat, L!Load(u, q, o), db' = db
       PROVE  ProductTypes'
  BY <1>5, <1>8, <1>9, <1>10, ProductsCalls DEF L!Load
<1>11. CASE L!UserStep \/ L!TimerFires
  <2>1. ASSUME NEW q \in Searches, L!Search(q) PROVE ProductTypes'
    BY <1>1, <1>4, <2>1 DEF L!Search, ProductFields
  <2>2. CASE L!ShowMore
    <3>1. ui.query \in Searches /\ ui.len \in Nat
      BY <1>1
    <3>2. L!Load(ui, ui.query, ui.len) /\ db' = db
      BY <2>2 DEF L!ShowMore
    <3> HIDE DEF Typed
    <3> QED
      BY <1>1, <1>10, <3>1, <3>2
  <2>3. ASSUME NEW n \in FormFiles, L!FillForm(n) PROVE ProductTypes'
    BY <1>1, <1>4, <2>3 DEF L!FillForm, ProductFields
  <2>4. CASE L!OnCreate
    <3>1. Ask("create", [photos |-> ui.files, query |-> ui.query]) /\ db' = db
      BY <2>4, ProductsCalls DEF L!OnCreate
    <3>2. Typed(ui') /\ ListCall("create", [photos |-> ui.files, query |-> ui.query], Sent)
      BY <1>1, <2>4 DEF L!OnCreate, ListCall, ProductFields
    <3> QED
      BY <1>5, <3>1, <3>2
  <2>5. CASE L!SetCategory
    <3>1. Ask("category", ui.query) /\ UNCHANGED <<ui, db>>
      BY <2>5, ProductsCalls DEF L!SetCategory
    <3>2. Typed(ui') /\ ListCall("category", ui.query, Sent)
      BY <1>1, <3>1 DEF ListCall
    <3> QED
      BY <1>5, <3>1, <3>2
  <2>6. CASE L!TimerFires
    <3> DEFINE u == [ui EXCEPT !.timer = None]
    <3>1. Typed(u) /\ ui.timer \in Searches
      BY <1>1, <2>6 DEF L!TimerFires, ProductFields
    <3>2. L!Load(u, ui.timer, 0) /\ db' = db /\ 0 \in Nat
      BY <2>6 DEF L!TimerFires
    <3> HIDE DEF Typed, u
    <3> QED
      BY <1>10, <3>1, <3>2
  <2> QED
    BY <1>11, <2>1, <2>2, <2>3, <2>4, <2>5, <2>6 DEF L!UserStep
<1>12. ASSUME NEW c \in Calls, L!Serve(c) PROVE ProductTypes'
  <2>1. ui' = ui /\ db' \in 0..MaxNewCards
    BY <1>1, <1>12, TypesAssumption
    DEF TypesAssumption, L!Serve, L!ServeCreate, L!ServeList, L!ServeOther, L!RefuseCall
  <2>2. PICK a : /\ pending' = [pending EXCEPT ![c].ans = a]
                 /\ ListCall(pending[c].op, pending[c].arg, a)
    <3>1. ListCall(pending[c].op, pending[c].arg, pending[c].ans)
      BY <1>1 DEF Said
    <3>2. CASE L!ServeList(c)
      <4> DEFINE left == Total[pending[c].arg.query] - pending[c].arg.offset
                 n == IF left > PageSize THEN PageSize ELSE IF left > 0 THEN left ELSE 0
      <4>1. Total[pending[c].arg.query] \in Nat /\ pending[c].arg.offset \in Nat
        BY <3>1, <3>2, PortalAssumption DEF PortalAssumption, L!ServeList, ListCall
      <4>2. n \in Nat
        BY <4>1, PortalAssumption DEF PortalAssumption
      <4>3. \E a \in {n, Failed} : pending' = [pending EXCEPT ![c].ans = a]
        BY <3>2 DEF L!ServeList, L!Reply
      <4> HIDE DEF n
      <4> QED
        BY <3>1, <4>2, <4>3 DEF ListCall
    <3>3. CASE L!ServeCreate(c)
      BY <3>1, <3>3 DEF L!ServeCreate, L!Reply, ListCall
    <3>4. CASE L!ServeOther(c)
      BY <3>1, <3>4 DEF L!ServeOther, L!Reply, ListCall
    <3>5. CASE L!RefuseCall(c)
      BY <3>1, <3>5 DEF L!RefuseCall, L!Refuse, ListCall
    <3> QED
      BY <1>12, <3>2, <3>3, <3>4, <3>5 DEF L!Serve
  <2> QED
    BY <1>1, <1>3, <2>1, <2>2, AnswerSays
<1>13. ASSUME NEW c \in Calls, L!Continue(c) PROVE ProductTypes'
  <2>1. ListCall(pending[c].op, pending[c].arg, pending[c].ans) /\ db' = db
    BY <1>1, <1>13 DEF Said, L!Continue, L!OnCreated, L!OnCreateError, L!OnList,
                       L!OnCategory, L!OnCategories
  <2>2. CASE L!OnCreated(c)
    <3> DEFINE q == pending[c].arg.query
               n == pending[c].arg.photos
               u == [ui EXCEPT !.filled = FALSE, !.files = 0]
    <3>1. q \in Searches /\ L!NextPhoto(c, n, q)
      BY <2>1, <2>2 DEF L!OnCreated, ListCall
    <3>2. Typed(u)
      BY <1>1 DEF ProductFields
    <3>3. ListCall("photo", [photos |-> n - 1, query |-> q], Sent)
      BY <3>1 DEF ListCall
    <3> HIDE DEF Typed, q, n, u
    <3>4. CASE n > 0
      <4>1. Await(c, "photo", [photos |-> n - 1, query |-> q]) /\ ui' = ui
        BY <3>1, <3>4, ProductsCalls DEF L!NextPhoto
      <4> QED
        BY <1>1, <1>7, <2>1, <3>3, <4>1
    <3>5. CASE ~(n > 0)
      <4>1. /\ Await(c, "list", [query |-> q, offset |-> 0, create |-> TRUE])
            /\ ui' = L!Loading(u, 0)
        BY <3>1, <3>5, ProductsCalls DEF L!NextPhoto, u
      <4> QED
        BY <1>7, <1>8, <1>9, <2>1, <3>1, <3>2, <4>1
    <3> QED
      BY <3>4, <3>5
  <2>3. CASE L!OnCreateError(c) \/ L!OnCategories(c)
    <3>1. Return(c) /\ Typed(ui')
      BY <1>1, <2>3, ProductsCalls DEF L!OnCreateError, L!OnCategories, ProductFields
    <3> QED
      BY <1>6, <2>1, <3>1
  <2>4. CASE L!OnList(c)
    <3> DEFINE a == pending[c].arg
               n == pending[c].ans
               u == [ui EXCEPT !.loading = FALSE, !.more = FALSE,
                               !.saving = ui.saving /\ ~L!OfCreate(c)]
    <3>1. L!Ok(c) => n \in Nat
      BY <2>1, <2>4 DEF L!OnList, L!Ok, L!Answered, ListCall
    <3>2. Typed(u) /\ u.len \in Nat
      BY <1>1 DEF ProductFields
    <3>3. ui' = IF ~L!Ok(c) THEN u
                ELSE IF a.offset = 0 THEN [u EXCEPT !.len = n, !.total = Total[a.query]]
                ELSE [u EXCEPT !.len = u.len + n, !.total = Total[a.query]]
      BY <2>4 DEF L!OnList
    <3> HIDE DEF u, n
    <3>4. L!Ok(c) => u.len + n \in Nat
      BY <3>1, <3>2
    <3>5. Typed(ui')
      BY <3>1, <3>2, <3>3, <3>4 DEF ProductFields
    <3>6. Return(c)
      BY <2>4, ProductsCalls DEF L!OnList
    <3> QED
      BY <1>6, <2>1, <3>5, <3>6
  <2>5. CASE L!OnCategory(c)
    <3>1. CASE L!Ok(c)
      <4>1. pending[c].arg \in Searches
        BY <2>1, <2>5 DEF L!OnCategory, ListCall
      <4>2. /\ Await(c, "list", [query |-> pending[c].arg, offset |-> 0])
            /\ ui' = L!Loading(ui, 0)
        BY <2>5, <3>1, ProductsCalls DEF L!OnCategory
      <4> HIDE DEF Typed
      <4> QED
        BY <1>1, <1>7, <1>8, <1>9, <2>1, <4>1, <4>2
    <3>2. CASE ~L!Ok(c)
      <4>1. Return(c) /\ ui' = ui
        BY <2>5, <3>2, ProductsCalls DEF L!OnCategory
      <4> QED
        BY <1>1, <1>6, <2>1, <4>1
    <3> QED
      BY <3>1, <3>2
  <2> QED
    BY <1>13, <2>2, <2>3, <2>4, <2>5 DEF L!Continue
<1> QED
  BY <1>11, <1>12, <1>13 DEF L!Next, L!Calls, Calls

LEMMA ProductTypesAre == ASSUME ProductTypes PROVE L!TypeOK
BY DEF ProductTypes

(* The panel of a card. *)

\* The fields of the panel.
EditTypes == {"card", "form"} \subseteq DOMAIN ui /\ E!TypeOK

LEMMA EditTypesInit == ASSUME E!Init PROVE EditTypes
BY DEF E!Init, EditTypes, E!TypeOK

LEMMA EditTypesStay == ASSUME EditTypes, E!Next PROVE EditTypes'
<1> DEFINE Fields == {"card", "form"}
<1>1. Fields \subseteq DOMAIN ui /\ db \subseteq Products
  BY DEF EditTypes, E!TypeOK
<1>2. ASSUME db' \subseteq db, Fields \subseteq DOMAIN ui',
             \/ ui'.card = ui.card /\ ui'.form = ui.form
             \/ ui'.card = None
             \/ ui'.card \in Products /\ ui'.form = ui'.card
      PROVE  EditTypes'
  BY <1>2 DEF EditTypes, E!TypeOK
<1>3. ASSUME NEW p \in Products, E!Open(p) PROVE EditTypes'
  BY <1>1, <1>2, <1>3 DEF E!Open
<1>4. CASE E!Close
  BY <1>1, <1>2, <1>4 DEF E!Close
<1>5. CASE E!Edit \/ E!OnSave \/ E!OnDeleteFirst \/ E!OnDelete
  BY <1>1, <1>2, <1>5 DEF E!Edit, E!OnSave, E!OnDeleteFirst, E!OnDelete
<1>6. ASSUME NEW c, E!Serve(c) PROVE EditTypes'
  BY <1>1, <1>2, <1>6 DEF E!Serve, E!ServeSave, E!ServeDelete, E!RefuseCall
<1>7. ASSUME NEW c, E!Continue(c) PROVE EditTypes'
  BY <1>1, <1>2, <1>7 DEF E!Continue, E!OnDone, E!OnError
<1> QED
  BY <1>3, <1>4, <1>5, <1>6, <1>7 DEF E!Next, E!UserStep

(* The panel of the photos. *)

\* Every call of the panel names a card, and a load brings photos.
PhotoCall(op, arg, ans) ==
  /\ op \in {"load", "add", "remove", "order"} => "card" \in DOMAIN arg /\ arg.card \in Products
  /\ op = "load" => ans \in {Sent, Failed} \cup Seq(F!AllPhotos)
PhotoFields == {"card", "images", "busy", "changed"}
PanelTyped(u) ==
  /\ PhotoFields \subseteq DOMAIN u
  /\ u.card \in Products \cup {None} /\ u.images \in Seq(F!AllPhotos)
IsGallery(s) == s \in Seq(F!AllPhotos) /\ Len(s) <= MaxImages
GalleriesTyped(d) == d \in [Products -> Seq(F!AllPhotos)] /\ \A p \in Products : IsGallery(d[p])
PhotoTypes ==
  /\ CallsInv /\ PanelTyped(ui) /\ GalleriesTyped(db)
  /\ \A c \in Calls : PhotoCall(pending[c].op, pending[c].arg, pending[c].ans)

\* A gallery without a photo is a gallery, and so is one in another order.
LEMMA WithoutIsGallery ==
  ASSUME NEW s, IsGallery(s), NEW i PROVE IsGallery(F!Without(s, i))
<1> DEFINE gone == CHOOSE n \in DOMAIN s : s[n] = i
           rest == [n \in 1..(Len(s) - 1) |-> s[IF n < gone THEN n ELSE n + 1]]
<1>1. CASE i \notin F!PhotosOf(s)
  BY <1>1 DEF F!Without
<1>2. CASE i \in F!PhotosOf(s)
  <2>1. F!Without(s, i) = rest
    BY <1>2 DEF F!Without
  <2>2. gone \in DOMAIN s /\ Len(s) \in Nat /\ DOMAIN s = 1..Len(s)
    BY <1>2 DEF F!PhotosOf, IsGallery
  <2> HIDE DEF gone
  <2>3. Len(s) - 1 \in Nat
    BY <2>2
  <2>4. ASSUME NEW n \in 1..(Len(s) - 1)
        PROVE  s[IF n < gone THEN n ELSE n + 1] \in F!AllPhotos
    BY <2>2, <2>4 DEF IsGallery
  <2>5. rest \in [1..(Len(s) - 1) -> F!AllPhotos]
    BY <2>4
  <2>6. rest \in Seq(F!AllPhotos) /\ Len(rest) = Len(s) - 1
    BY <2>3, <2>5
  <2> HIDE DEF rest
  <2> QED
    BY <2>1, <2>2, <2>6, TypesAssumption DEF TypesAssumption, IsGallery
<1> QED
  BY <1>1, <1>2

LEMMA OrderIsGallery ==
  ASSUME NEW s, IsGallery(s), NEW order, NEW t \in F!Orders(s, order) PROVE IsGallery(t)
<1>1. t \in [DOMAIN s -> F!PhotosOf(s)]
  BY DEF F!Orders
<1>2. DOMAIN s = 1..Len(s) /\ Len(s) \in Nat /\ F!PhotosOf(s) \subseteq F!AllPhotos
  BY DEF F!PhotosOf, IsGallery
<1>3. t \in [1..Len(s) -> F!AllPhotos]
  BY <1>1, <1>2
<1>4. t \in Seq(F!AllPhotos) /\ Len(t) = Len(s)
  BY <1>2, <1>3
<1> QED
  BY <1>4 DEF IsGallery

LEMMA PhotoTypesInit == ASSUME F!Init PROVE PhotoTypes
<1>1. \A c \in Calls : pending[c] = NoCall
  BY DEF F!Init, F!NoCalls, F!NoCall, F!Calls, NoCall, Calls
<1>2. CallsInv /\ \A c \in Calls : PhotoCall(pending[c].op, pending[c].arg, pending[c].ans)
  BY <1>1 DEF F!Init, F!NoCalls, F!Calls, Calls, CallsInv, NoCall, PhotoCall
<1>3. PanelTyped(ui)
  BY DEF F!Init, PanelTyped, PhotoFields
<1>4. GalleriesTyped(db)
  BY TypesAssumption DEF TypesAssumption, F!Init, GalleriesTyped, IsGallery
<1> QED
  BY <1>2, <1>3, <1>4 DEF PhotoTypes

LEMMA PhotoTypesStay == ASSUME PhotoTypes, F!Next PROVE PhotoTypes'
<1> DEFINE Said == \A c \in Calls : PhotoCall(pending[c].op, pending[c].arg, pending[c].ans)
<1>1. CallsInv /\ PanelTyped(ui) /\ GalleriesTyped(db) /\ Said
  BY DEF PhotoTypes
<1>2. ASSUME NEW c \in Calls, NEW op, NEW arg, NEW ans, Says(c, op, arg, ans), CallsInv',
             PhotoCall(op, arg, ans), GalleriesTyped(db'), PanelTyped(ui')
      PROVE  PhotoTypes'
  BY <1>1, <1>2 DEF Says, PhotoTypes
<1>3. ASSUME UNCHANGED <<db, pending>>, PanelTyped(ui') PROVE PhotoTypes'
  BY <1>1, <1>3 DEF CallsInv, PhotoTypes
<1>4. ASSUME NEW op, NEW arg, Ask(op, arg), db' = db, PanelTyped(ui'),
             "card" \in DOMAIN arg, arg.card \in Products
      PROVE  PhotoTypes'
  BY <1>1, <1>2, <1>4, AskSays DEF PhotoCall
<1>5. ASSUME NEW c \in Calls, Return(c), db' = db, PanelTyped(ui') PROVE PhotoTypes'
  <2>1. CallsInv' /\ Says(c, "none", None, None) /\ PhotoCall("none", None, None)
    BY <1>1, <1>5, ReturnSays DEF PhotoCall
  <2> QED
    BY <1>1, <1>2, <1>5, <2>1
<1>6. ASSUME NEW c \in Calls, NEW op, NEW arg, Await(c, op, arg), db' = db, PanelTyped(ui'),
             "card" \in DOMAIN arg, arg.card \in Products
      PROVE  PhotoTypes'
  <2>1. CallsInv' /\ Says(c, op, arg, Sent) /\ PhotoCall(op, arg, Sent)
    BY <1>1, <1>6, AwaitSays DEF PhotoCall
  <2> QED
    BY <1>1, <1>2, <1>6, <2>1
<1> HIDE DEF Said
<1>7. CASE F!UserStep
  <2>1. ASSUME NEW p \in Products, F!Open(p) PROVE PhotoTypes'
    <3>1. Ask("load", [card |-> p, ends |-> FALSE]) /\ db' = db
      BY <2>1, PhotosCalls DEF F!Open
    <3>2. PanelTyped(ui')
      BY <1>1, <2>1 DEF F!Open, PanelTyped, PhotoFields
    <3> QED
      BY <1>4, <3>1, <3>2
  <2>2. CASE F!Close
    <3>1. PanelTyped(ui') /\ UNCHANGED <<db, pending>>
      BY <1>1, <2>2 DEF F!Close, PanelTyped, PhotoFields
    <3> QED
      BY <1>3, <3>1
  <2>3. ASSUME NEW n, F!OnFiles(n) PROVE PhotoTypes'
    <3>1. PICK left : Ask("add", [card |-> ui.card, left |-> left])
      BY <2>3, PhotosCalls DEF F!OnFiles
    <3>2. PanelTyped(ui') /\ db' = db /\ ui.card \in Products
      BY <1>1, <2>3 DEF F!OnFiles, F!CanAdd, PanelTyped, PhotoFields
    <3> QED
      BY <1>4, <3>1, <3>2
  <2>4. ASSUME NEW i, F!RemovePhoto(i) PROVE PhotoTypes'
    <3>1. PICK photo : Ask("remove", [card |-> ui.card, photo |-> photo])
      BY <2>4, PhotosCalls DEF F!RemovePhoto
    <3>2. PanelTyped(ui') /\ db' = db /\ ui.card \in Products
      BY <1>1, <2>4 DEF F!RemovePhoto, F!CanChange, PanelTyped, PhotoFields
    <3> QED
      BY <1>4, <3>1, <3>2
  <2>5. ASSUME NEW i, NEW j, F!MovePhoto(i, j) PROVE PhotoTypes'
    <3> DEFINE next == F!Swapped(ui.images, i, j)
    <3>1. /\ Ask("order", [card |-> ui.card, order |-> next]) /\ db' = db
          /\ ui' = [ui EXCEPT !.images = next]
      BY <2>5, PhotosCalls DEF F!MovePhoto
    <3>2. ui.card \in Products /\ i \in DOMAIN ui.images /\ j \in DOMAIN ui.images
      BY <1>1, <2>5 DEF F!MovePhoto, F!CanChange, PanelTyped
    <3>3. next \in Seq(F!AllPhotos)
      <4>1. ui.images \in Seq(F!AllPhotos)
        BY <1>1 DEF PanelTyped
      <4>2. ui.images[i] \in F!AllPhotos /\ ui.images[j] \in F!AllPhotos
        BY <3>2, <4>1
      <4> QED
        BY <3>2, <4>1, <4>2 DEF F!Swapped
    <3> HIDE DEF next
    <3>4. PanelTyped(ui')
      BY <1>1, <3>1, <3>3 DEF PanelTyped, PhotoFields
    <3> QED
      BY <1>4, <3>1, <3>2, <3>4
  <2> QED
    BY <1>7, <2>1, <2>2, <2>3, <2>4, <2>5 DEF F!UserStep
<1>8. ASSUME NEW c \in Calls, F!Serve(c) PROVE PhotoTypes'
  <2> DEFINE card == pending[c].arg.card
  <2>1. PhotoCall(pending[c].op, pending[c].arg, pending[c].ans)
    BY <1>1 DEF Said
  <2>2. ui' = ui
    BY <1>8 DEF F!Serve, F!ServeLoad, F!ServeAdd, F!ServeRemove, F!ServeOrder, F!RefuseCall
  <2>3. GalleriesTyped(db')
    <3>1. CASE F!ServeLoad(c) \/ F!RefuseCall(c)
      BY <1>1, <3>1 DEF F!ServeLoad, F!RefuseCall
    <3>2. ASSUME card \in Products, NEW s, IsGallery(s), db' = [db EXCEPT ![card] = s]
          PROVE  GalleriesTyped(db')
      <4> HIDE DEF card
      <4> QED
        BY <1>1, <3>2 DEF GalleriesTyped, IsGallery
    <3>3. CASE F!ServeAdd(c)
      <4>1. card \in Products
        BY <2>1, <3>3 DEF F!ServeAdd, PhotoCall
      <4>2. PICK i \in NewPhotos : db' = [db EXCEPT ![card] = Append(@, i)]
        BY <3>3 DEF F!ServeAdd
      <4>3. IsGallery(db[card]) /\ Len(db[card]) < MaxImages
        BY <1>1, <3>3, <4>1 DEF F!ServeAdd, GalleriesTyped
      <4>4. i \in F!AllPhotos
        BY <4>2 DEF F!AllPhotos
      <4>5. IsGallery(Append(db[card], i))
        <5> DEFINE s == db[card]
        <5>1. s \in Seq(F!AllPhotos) /\ Len(s) < MaxImages /\ MaxImages \in Nat
          BY <4>3, TypesAssumption DEF TypesAssumption, IsGallery
        <5> HIDE DEF s
        <5>2. Append(s, i) \in Seq(F!AllPhotos) /\ Len(Append(s, i)) <= MaxImages
          BY <4>4, <5>1
        <5> QED
          BY <5>2 DEF IsGallery, s
      <4>6. db' = [db EXCEPT ![card] = Append(db[card], i)]
        BY <1>1, <4>1, <4>2 DEF GalleriesTyped
      <4> HIDE DEF card
      <4> QED
        BY <3>2, <4>1, <4>5, <4>6
    <3>4. CASE F!ServeRemove(c)
      <4>1. PICK i : db' = [p \in Products |-> F!Without(db[p], i)]
        BY <3>4 DEF F!ServeRemove
      <4>2. \A p \in Products : IsGallery(F!Without(db[p], i))
        BY <1>1, WithoutIsGallery DEF GalleriesTyped
      <4> QED
        BY <4>1, <4>2 DEF GalleriesTyped, IsGallery
    <3>5. CASE F!ServeOrder(c)
      <4>1. card \in Products
        BY <2>1, <3>5 DEF F!ServeOrder, PhotoCall
      <4>2. PICK t \in F!Orders(db[card], pending[c].arg.order) : db' = [db EXCEPT ![card] = t]
        BY <3>5 DEF F!ServeOrder
      <4>3. IsGallery(t)
        BY <1>1, <4>1, <4>2, OrderIsGallery DEF GalleriesTyped
      <4> QED
        BY <3>2, <4>1, <4>2, <4>3
    <3> QED
      BY <1>8, <3>1, <3>3, <3>4, <3>5 DEF F!Serve
  <2>4. PICK a : /\ pending' = [pending EXCEPT ![c].ans = a]
                 /\ PhotoCall(pending[c].op, pending[c].arg, a)
    <3>1. CASE F!ServeLoad(c)
      <4>1. db[card] \in Seq(F!AllPhotos)
        BY <1>1, <2>1, <3>1 DEF F!ServeLoad, PhotoCall, GalleriesTyped
      <4>2. \E a \in {db[card], Failed} : pending' = [pending EXCEPT ![c].ans = a]
        BY <3>1 DEF F!ServeLoad, F!Reply
      <4> QED
        BY <2>1, <4>1, <4>2 DEF PhotoCall
    <3>2. CASE pending[c].op # "load" /\ \E a : pending' = [pending EXCEPT ![c].ans = a]
      BY <2>1, <3>2 DEF PhotoCall
    <3>3. CASE F!ServeAdd(c) \/ F!ServeRemove(c) \/ F!ServeOrder(c)
      BY <3>2, <3>3 DEF F!ServeAdd, F!ServeRemove, F!ServeOrder, F!Reply
    <3>4. CASE F!RefuseCall(c)
      BY <2>1, <3>4 DEF F!RefuseCall, F!Refuse, PhotoCall
    <3> QED
      BY <1>8, <3>1, <3>3, <3>4 DEF F!Serve
  <2> QED
    BY <1>1, <1>2, <2>2, <2>3, <2>4, AnswerSays
<1>9. ASSUME NEW c \in Calls, F!Continue(c) PROVE PhotoTypes'
  <2>1. PhotoCall(pending[c].op, pending[c].arg, pending[c].ans)
    BY <1>1 DEF Said
  <2>2. CASE F!OnLoad(c)
    <3>1. F!Ok(c) => pending[c].ans \in Seq(F!AllPhotos)
      BY <2>1, <2>2 DEF F!OnLoad, F!Ok, F!Answered, PhotoCall
    <3> DEFINE s == IF F!Ok(c) THEN pending[c].ans ELSE ui.images
               b == ui.busy /\ ~pending[c].arg.ends
    <3>2. s \in Seq(F!AllPhotos)
      BY <1>1, <3>1 DEF PanelTyped
    <3>3. ui' = [ui EXCEPT !.images = s, !.busy = b] /\ Return(c) /\ db' = db
      BY <2>2, PhotosCalls DEF F!OnLoad
    <3> HIDE DEF s, b
    <3>4. PanelTyped(ui')
      BY <1>1, <3>2, <3>3 DEF PanelTyped, PhotoFields
    <3> QED
      BY <1>5, <3>3, <3>4
  <2>3. CASE F!OnAdd(c) \/ F!OnRemove(c)
    <3>1. pending[c].op \in {"add", "remove"} /\ db' = db
      BY <2>3 DEF F!OnAdd, F!OnRemove
    <3>2. "card" \in DOMAIN pending[c].arg /\ pending[c].arg.card \in Products
      BY <2>1, <3>1 DEF PhotoCall
    <3>3. PanelTyped(ui')
      BY <1>1, <2>3 DEF F!OnAdd, F!OnRemove, PanelTyped, PhotoFields
    <3>4. \E op, arg : Await(c, op, arg) /\ "card" \in DOMAIN arg /\ arg.card \in Products
      BY <2>3, <3>2, PhotosCalls DEF F!OnAdd, F!OnRemove
    <3> QED
      BY <1>6, <3>1, <3>3, <3>4
  <2>4. CASE F!OnChangeError(c)
    <3>1. PanelTyped(ui') /\ Return(c) /\ db' = db
      BY <1>1, <2>4, PhotosCalls DEF F!OnChangeError, PanelTyped, PhotoFields
    <3> QED
      BY <1>5, <3>1
  <2>5. CASE F!OnOrder(c)
    <3>1. PanelTyped(ui') /\ db' = db
      BY <1>1, <2>5 DEF F!OnOrder, PanelTyped, PhotoFields
    <3>2. \/ Return(c)
          \/ /\ Await(c, "load", [card |-> pending[c].arg.card, ends |-> FALSE])
             /\ pending[c].arg.card \in Products
      BY <2>1, <2>5, PhotosCalls DEF F!OnOrder, PhotoCall
    <3> QED
      BY <1>5, <1>6, <3>1, <3>2
  <2> QED
    BY <1>9, <2>2, <2>3, <2>4, <2>5 DEF F!Continue
<1> QED
  BY <1>7, <1>8, <1>9 DEF F!Next, F!Calls, Calls

LEMMA PhotoTypesAre == ASSUME PhotoTypes PROVE F!TypeOK
BY DEF PhotoTypes, PanelTyped, GalleriesTyped, IsGallery, F!PhotosOf, F!TypeOK

(* The tree of the categories. *)

\* Each of the suppliers' categories has a category of the tree or none.
MapStates == [Raw -> Nodes \cup {None}]
\* A load brings categories and mappings; a mapping is of a supplier's category.
TreeCall(op, arg, ans) ==
  /\ op = "load" => ans \in {Sent, Failed} \cup [cats : SUBSET Nodes, maps : MapStates]
  /\ op = "map" => arg \in [raw : Raw, to : Nodes \cup {None}, make : BOOLEAN]
TreeTyped(u) ==
  /\ {"cats", "maps", "edit"} \subseteq DOMAIN u
  /\ u.cats \subseteq Nodes /\ u.maps \in MapStates /\ u.edit \in Nodes \cup {None}
TreeStore(d) ==
  d \in [live : SUBSET Nodes, born : SUBSET Nodes, maps : MapStates] /\ d.live \subseteq d.born
TreeTypes ==
  /\ CallsInv /\ TreeTyped(ui) /\ TreeStore(db)
  /\ \A c \in Calls : TreeCall(pending[c].op, pending[c].arg, pending[c].ans)

LEMMA TreeTypesInit == ASSUME K!Init PROVE TreeTypes
<1>1. pending = Opening(<<Request("load", "page")>>)
  BY DEF K!Init, K!Opening, K!Request, K!NoCall, K!Calls, Opening, Request, NoCall, Calls
<1>2. CallsInv /\ \A c \in Calls : TreeCall(pending[c].op, pending[c].arg, pending[c].ans)
  BY <1>1, OpeningSays DEF TreeCall
<1>3. K!Unmapped \in MapStates
  BY DEF K!Unmapped, MapStates
<1>4. TreeTyped(ui) /\ TreeStore(db)
  BY <1>3 DEF K!Init, TreeTyped, TreeStore
<1> QED
  BY <1>2, <1>4 DEF TreeTypes

LEMMA TreeTypesStay == ASSUME TreeTypes, K!Next PROVE TreeTypes'
<1> DEFINE Said == \A c \in Calls : TreeCall(pending[c].op, pending[c].arg, pending[c].ans)
<1>1. CallsInv /\ TreeTyped(ui) /\ Said /\ TreeStore(db)
  BY DEF TreeTypes
<1>2. ASSUME NEW c \in Calls, NEW op, NEW arg, NEW ans, Says(c, op, arg, ans), CallsInv',
             TreeCall(op, arg, ans), TreeStore(db'), TreeTyped(ui')
      PROVE  TreeTypes'
  BY <1>1, <1>2 DEF Says, TreeTypes
<1>3. ASSUME UNCHANGED <<db, pending>>, TreeTyped(ui') PROVE TreeTypes'
  BY <1>1, <1>3 DEF CallsInv, TreeTypes
<1>4. ASSUME NEW op, NEW arg, Ask(op, arg), db' = db, TreeTyped(ui'), TreeCall(op, arg, Sent)
      PROVE  TreeTypes'
  BY <1>1, <1>2, <1>4, AskSays
<1>5. ASSUME NEW c \in Calls, Return(c), db' = db, TreeTyped(ui') PROVE TreeTypes'
  <2>1. CallsInv' /\ Says(c, "none", None, None) /\ TreeCall("none", None, None)
    BY <1>1, <1>5, ReturnSays DEF TreeCall
  <2> QED
    BY <1>1, <1>2, <1>5, <2>1
<1>6. ASSUME NEW u, TreeTyped(u), NEW for PROVE TreeTyped(K!Ended(u, for))
  BY <1>6 DEF K!Ended, TreeTyped
<1> HIDE DEF Said
<1>7. CASE K!UserStep
  <2>1. ASSUME NEW n \in Nodes, K!StartEdit(n) PROVE TreeTypes'
    BY <1>1, <1>3, <2>1 DEF K!StartEdit, TreeTyped
  <2>2. CASE K!CancelEdit
    BY <1>1, <1>3, <2>2 DEF K!CancelEdit, TreeTyped
  <2>3. CASE K!OnCreate \/ K!OnApplyMappings
    <3>1. TreeTyped(ui') /\ db' = db
      BY <1>1, <2>3 DEF K!OnCreate, K!OnApplyMappings, TreeTyped
    <3>2. PICK op \in {"create", "apply"} : Ask(op, None)
      BY <2>3, CategoriesCalls DEF K!OnCreate, K!OnApplyMappings
    <3>3. TreeCall(op, None, Sent)
      BY DEF TreeCall
    <3> QED
      BY <1>4, <3>1, <3>2, <3>3
  <2>4. ASSUME NEW n \in Nodes, K!OnDelete(n) PROVE TreeTypes'
    <3>1. Ask("delete", n) /\ UNCHANGED <<ui, db>>
      BY <2>4, CategoriesCalls DEF K!OnDelete
    <3>2. TreeCall("delete", n, Sent)
      BY DEF TreeCall
    <3> QED
      BY <1>1, <1>4, <3>1, <3>2
  <2>5. CASE K!OnSaveEdit
    <3>1. Ask("save", ui.edit) /\ UNCHANGED <<ui, db>>
      BY <2>5, CategoriesCalls DEF K!OnSaveEdit
    <3>2. TreeCall("save", ui.edit, Sent)
      BY DEF TreeCall
    <3> QED
      BY <1>1, <1>4, <3>1, <3>2
  <2>6. ASSUME NEW r \in Raw, NEW n \in Nodes \cup {None},
               K!MakeSupplierCat(r) \/ K!MapSupplierCat(r, n)
        PROVE  TreeTypes'
    <3>1. PICK arg \in [raw : Raw, to : Nodes \cup {None}, make : BOOLEAN] : Ask("map", arg)
      <4>1. CASE K!MakeSupplierCat(r)
        BY <4>1, CategoriesCalls DEF K!MakeSupplierCat
      <4>2. CASE K!MapSupplierCat(r, n)
        BY <4>2, CategoriesCalls DEF K!MapSupplierCat
      <4> QED
        BY <2>6, <4>1, <4>2
    <3>2. UNCHANGED <<ui, db>>
      BY <2>6 DEF K!MakeSupplierCat, K!MapSupplierCat
    <3>3. TreeCall("map", arg, Sent)
      BY DEF TreeCall
    <3> QED
      BY <1>1, <1>4, <3>1, <3>2, <3>3
  <2> QED
    BY <1>7, <2>1, <2>2, <2>3, <2>4, <2>5, <2>6 DEF K!UserStep
<1>8. ASSUME NEW c \in Calls, K!Serve(c) PROVE TreeTypes'
  <2> DEFINE op == pending[c].op
             arg == pending[c].arg
  <2>1. TreeCall(op, arg, pending[c].ans)
    BY <1>1 DEF Said
  <2>2. ui' = ui /\ TreeStore(db')
    <3>1. CASE K!ServeLoad(c) \/ K!ServeSave(c) \/ K!ServeApply(c) \/ K!RefuseCall(c)
      BY <1>1, <3>1 DEF K!ServeLoad, K!ServeSave, K!ServeApply, K!RefuseCall
    <3>2. ASSUME NEW n \in Nodes PROVE TreeStore(K!Born(db, n))
      BY <1>1 DEF K!Born, TreeStore
    <3>3. CASE K!ServeCreate(c)
      BY <1>1, <3>2, <3>3 DEF K!ServeCreate
    <3>4. CASE K!ServeDelete(c)
      <4>1. PICK gone \in SUBSET db.live :
              db' = [db EXCEPT !.live = @ \ gone,
                               !.maps = [r \in Raw |-> IF @[r] \in gone THEN None ELSE @[r]]]
        BY <3>4 DEF K!ServeDelete
      <4>2. [r \in Raw |-> IF db.maps[r] \in gone THEN None ELSE db.maps[r]] \in MapStates
        BY <1>1 DEF TreeStore, MapStates
      <4> QED
        BY <1>1, <3>4, <4>1, <4>2 DEF K!ServeDelete, TreeStore
    <3>5. CASE K!ServeMap(c)
      <4>1. arg \in [raw : Raw, to : Nodes \cup {None}, make : BOOLEAN] /\ ui' = ui
        BY <2>1, <3>5 DEF K!ServeMap, TreeCall
      <4>2. \E d : \E n \in Nodes \cup {None} :
              TreeStore(d) /\ db' = [d EXCEPT !.maps[arg.raw] = n]
        <5>1. CASE arg.make
          <6>1. PICK n \in Nodes : db' = [K!Born(db, n) EXCEPT !.maps[arg.raw] = n]
            BY <3>5, <5>1 DEF K!ServeMap
          <6> QED
            BY <3>2, <6>1
        <5>2. CASE ~arg.make
          BY <1>1, <3>5, <4>1, <5>2 DEF K!ServeMap
        <5> QED
          BY <5>1, <5>2
      <4>3. PICK d : \E n \in Nodes \cup {None} :
              TreeStore(d) /\ db' = [d EXCEPT !.maps[arg.raw] = n]
        BY <4>2
      <4>4. PICK n \in Nodes \cup {None} : TreeStore(d) /\ db' = [d EXCEPT !.maps[arg.raw] = n]
        BY <4>3
      <4>5. [d.maps EXCEPT ![arg.raw] = n] \in MapStates
        BY <4>4 DEF TreeStore, MapStates
      <4> HIDE DEF arg
      <4> QED
        BY <4>1, <4>4, <4>5 DEF TreeStore
    <3> QED
      BY <1>8, <3>1, <3>3, <3>4, <3>5 DEF K!Serve
  <2>3. \E a : pending' = [pending EXCEPT ![c].ans = a] /\ TreeCall(op, arg, a)
    <3>1. CASE K!ServeLoad(c)
      BY <1>1, <2>1, <3>1 DEF K!ServeLoad, K!Reply, TreeCall, TreeStore
    <3>2. CASE op # "load" /\ \E a : pending' = [pending EXCEPT ![c].ans = a]
      BY <2>1, <3>2 DEF TreeCall
    <3>3. CASE K!ServeCreate(c) \/ K!ServeSave(c) \/ K!ServeDelete(c) \/ K!ServeMap(c)
               \/ K!ServeApply(c)
      BY <3>2, <3>3
      DEF K!ServeCreate, K!ServeSave, K!ServeDelete, K!ServeMap, K!ServeApply, K!Reply
    <3>4. CASE K!RefuseCall(c)
      BY <2>1, <3>4 DEF K!RefuseCall, K!Refuse, TreeCall
    <3> QED
      BY <1>8, <3>1, <3>3, <3>4 DEF K!Serve
  <2> HIDE DEF op, arg
  <2> QED
    BY <1>1, <1>2, <2>2, <2>3, AnswerSays DEF op, arg
<1>9. ASSUME NEW c \in Calls, K!OnLoad(c) \/ K!OnLoadError(c) \/ K!OnError(c)
      PROVE  TreeTypes'
  <2>1. Return(c) /\ db' = db
    BY <1>9, CategoriesCalls DEF K!OnLoad, K!OnLoadError, K!OnError
  <2>2. PICK u, for : TreeTyped(u) /\ ui' = K!Ended(u, for)
    <3>1. CASE K!OnLoad(c)
      <4> DEFINE u == [ui EXCEPT !.loading = FALSE, !.cats = pending[c].ans.cats,
                                 !.maps = pending[c].ans.maps]
      <4>1. pending[c].ans \in [cats : SUBSET Nodes, maps : MapStates]
        BY <1>1, <3>1 DEF K!OnLoad, K!Ok, K!Answered, TreeCall, Said
      <4>2. TreeTyped(u)
        BY <1>1, <4>1 DEF TreeTyped
      <4>3. ui' = K!Ended(u, pending[c].arg)
        BY <3>1 DEF K!OnLoad
      <4> HIDE DEF u
      <4> QED
        BY <4>2, <4>3
    <3>2. CASE K!OnLoadError(c)
      <4> DEFINE u == [ui EXCEPT !.loading = FALSE]
      <4>1. TreeTyped(u)
        BY <1>1 DEF TreeTyped
      <4>2. ui' = K!Ended(u, pending[c].arg)
        BY <3>2 DEF K!OnLoadError
      <4> HIDE DEF u
      <4> QED
        BY <4>1, <4>2
    <3>3. CASE K!OnError(c)
      BY <1>1, <3>3 DEF K!OnError
    <3> QED
      BY <1>9, <3>1, <3>2, <3>3
  <2> QED
    BY <1>5, <1>6, <2>1, <2>2
<1>10. ASSUME NEW c \in Calls, K!OnDone(c) PROVE TreeTypes'
  <2>1. PICK for : Await(c, "load", for)
    BY <1>10, CategoriesCalls DEF K!OnDone
  <2>2. TreeTyped(ui') /\ db' = db
    BY <1>1, <1>10 DEF K!OnDone, TreeTyped
  <2>3. CallsInv' /\ Says(c, "load", for, Sent) /\ TreeCall("load", for, Sent)
    BY <1>1, <2>1, AwaitSays DEF TreeCall
  <2> QED
    BY <1>1, <1>2, <2>2, <2>3
<1> QED
  BY <1>7, <1>8, <1>9, <1>10 DEF K!Next, K!Continue, K!Calls, Calls

LEMMA TreeTypesAre == ASSUME TreeTypes PROVE K!TypeOK
BY DEF TreeTypes, TreeTyped, TreeStore, MapStates, K!TypeOK

(* The suppliers. *)

\* Suppliers that are on the page or in a panel have been made.
SupplierTypes ==
  /\ TableInv
  /\ db \in [live : SUBSET SupplierIds, born : SUBSET SupplierIds] /\ db.live \subseteq db.born
  /\ "editing" \in DOMAIN ui /\ ui.editing \in SupplierIds \cup {None}

LEMMA SupplierTypesInit == ASSUME V!Init PROVE SupplierTypes
<1>1. PICK s \in SUBSET SupplierIds : db = [live |-> s, born |-> s]
  BY DEF V!Init
<1>2. db \in [live : SUBSET SupplierIds, born : SUBSET SupplierIds] /\ db.live \subseteq db.born
  BY <1>1
<1>3. "editing" \in DOMAIN ui /\ ui.editing = None
  BY DEF V!Init
<1> QED
  BY <1>2, <1>3, TableInit DEF SupplierTypes

LEMMA SupplierTypesStay == ASSUME SupplierTypes, V!Next PROVE SupplierTypes'
<1> DEFINE Rows == [live : SUBSET SupplierIds, born : SUBSET SupplierIds]
<1>1. /\ TableInv' /\ db \in Rows /\ db.live \subseteq db.born
      /\ "editing" \in DOMAIN ui /\ ui.editing \in SupplierIds \cup {None}
  BY TableNext DEF SupplierTypes
<1>2. ASSUME db' \in Rows, db'.live \subseteq db'.born, "editing" \in DOMAIN ui',
             ui'.editing \in SupplierIds \cup {None}
      PROVE  SupplierTypes'
  BY <1>1, <1>2 DEF SupplierTypes
<1>3. ASSUME NEW s \in SupplierIds, V!StartEdit(s) PROVE SupplierTypes'
  BY <1>1, <1>2, <1>3 DEF V!StartEdit
<1>4. CASE V!OnCreate \/ V!CloseEdit \/ V!OnSaveEdit \/ V!OnDelete \/ V!TurnPage
  BY <1>1, <1>2, <1>4 DEF V!OnCreate, V!CloseEdit, V!OnSaveEdit, V!OnDelete, V!TurnPage
<1>5. ASSUME NEW c \in Calls, V!ServeCreate(c) PROVE SupplierTypes'
  BY <1>1, <1>2, <1>5 DEF V!ServeCreate
<1>6. ASSUME NEW c \in Calls, V!ServeDelete(c) PROVE SupplierTypes'
  BY <1>1, <1>2, <1>6 DEF V!ServeDelete
<1>7. ASSUME NEW c \in Calls, V!ServeList(c) \/ V!ServeSave(c) \/ V!RefuseCall(c)
      PROVE  SupplierTypes'
  BY <1>1, <1>2, <1>7 DEF V!ServeList, V!ServeSave, V!RefuseCall
<1>8. ASSUME NEW u, NEW for, "editing" \in DOMAIN u
      PROVE  "editing" \in DOMAIN V!Ended(u, for) /\ V!Ended(u, for).editing = u.editing
  BY <1>8 DEF V!Ended
<1>9. ASSUME NEW c \in Calls, V!OnLoad(c) \/ V!OnLoadError(c) \/ V!OnError(c)
      PROVE  SupplierTypes'
  <2>1. db' = db
    BY <1>9 DEF V!OnLoad, V!OnLoadError, V!OnError
  <2>2. PICK u, for : /\ ui' = V!Ended(u, for)
                      /\ "editing" \in DOMAIN u /\ u.editing = ui.editing
    <3>1. CASE V!OnLoad(c)
      <4> DEFINE u == [ui EXCEPT !.loading = FALSE, !.list = pending[c].ans,
                                 !.table = V!Refreshed(ui.table)]
      <4>1. "editing" \in DOMAIN u /\ u.editing = ui.editing
        BY <1>1
      <4>2. ui' = V!Ended(u, pending[c].arg)
        BY <3>1 DEF V!OnLoad
      <4> HIDE DEF u
      <4> QED
        BY <4>1, <4>2
    <3>2. CASE V!OnLoadError(c)
      <4> DEFINE u == [ui EXCEPT !.loading = FALSE, !.table = V!Uncovered(ui.table)]
      <4>1. "editing" \in DOMAIN u /\ u.editing = ui.editing
        BY <1>1
      <4>2. ui' = V!Ended(u, pending[c].arg)
        BY <3>2 DEF V!OnLoadError
      <4> HIDE DEF u
      <4> QED
        BY <4>1, <4>2
    <3>3. CASE V!OnError(c)
      BY <1>1, <3>3 DEF V!OnError
    <3> QED
      BY <1>9, <3>1, <3>2, <3>3
  <2> QED
    BY <1>1, <1>2, <1>8, <2>1, <2>2
<1>10. ASSUME NEW c \in Calls, V!OnDone(c) PROVE SupplierTypes'
  BY <1>1, <1>2, <1>10 DEF V!OnDone
<1> QED
  BY <1>3, <1>4, <1>5, <1>6, <1>7, <1>9, <1>10
  DEF V!Next, V!UserStep, V!Serve, V!Continue, V!Calls, Calls

LEMMA SupplierTypesAre == ASSUME SupplierTypes PROVE V!TypeOK
BY DEF SupplierTypes, TableInv, Fits, V!TypeOK

(* The users and their table. *)

\* The table has a first page also when the list is empty.
Placed(t, n) == Fits(t, IF n = 0 THEN 1 ELSE n)
UserLists(op, ans) == op = "load" => ans \in 1..MaxUsers \cup {Sent, Failed}
UserTypes ==
  /\ CallsInv /\ db \in 1..MaxUsers
  /\ {"rows", "table", "loading"} \subseteq DOMAIN ui /\ ui.rows \in 0..MaxUsers
  /\ ui.table # NoTable => Placed(ui.table, ui.rows) /\ ~ui.loading
  /\ \A c \in Calls : UserLists(pending[c].op, pending[c].ans)

\* The table of the users turns its pages as that of the suppliers.
LEMMA FootersAreAlike ==
  /\ U!NewTable = V!NewTable
  /\ \A t : U!Refreshed(t) = V!Refreshed(t) /\ U!Uncovered(t) = V!Uncovered(t)
  /\ \A t, n : U!Turned(t, n) = V!Turned(t, n)
<1>1. U!NewTable = V!NewTable
  BY DEF U!NewTable, V!NewTable
<1>2. \A t : U!Refreshed(t) = V!Refreshed(t) /\ U!Uncovered(t) = V!Uncovered(t)
  BY <1>1 DEF U!Refreshed, V!Refreshed, U!Uncovered, V!Uncovered
<1>3. \A t, n : U!PageCount(t, n) = V!PageCount(t, n)
  BY DEF U!PageCount, V!PageCount
<1>4. \A t, n : /\ U!CanNextPage(t, n) <=> V!CanNextPage(t, n)
                /\ U!CanPreviousPage(t) <=> V!CanPreviousPage(t)
  BY <1>3 DEF U!CanNextPage, V!CanNextPage, U!CanPreviousPage, V!CanPreviousPage
<1>5. \A t, s : U!SetPageSize(t, s) = V!SetPageSize(t, s)
  BY DEF U!SetPageSize, V!SetPageSize
<1>6. \A t, n : U!Turned(t, n) = V!Turned(t, n)
  BY <1>3, <1>4, <1>5 DEF U!Turned, V!Turned
<1> QED
  BY <1>1, <1>2, <1>6

\* An empty list has no second page.
LEMMA TurnedIsPlaced ==
  ASSUME NEW n \in Nat, NEW t, Placed(t, n), NEW u \in V!Turned(t, n)
  PROVE  Placed(u, n)
<1>1. CASE n # 0
  BY <1>1, TurnedFits DEF Placed
<1>2. CASE n = 0
  <2>1. /\ t.index \in Nat /\ t.size \in Nat \ {0} /\ Fits(t, 1)
    BY <1>2, PortalAssumption DEF PortalAssumption, Placed, Fits
  <2>2. ~V!CanNextPage(t, 0)
    <3> DEFINE s == t.size
    <3>1. s \in Nat \ {0}
      BY <2>1
    <3> HIDE DEF s
    <3>2. (0 + s - 1) \div s = 0
      BY <3>1
    <3> QED
      BY <2>1, <3>2 DEF V!CanNextPage, V!PageCount, s
  <2>3. u \in V!Turned(t, 1)
    BY <1>2, <2>2 DEF V!Turned
  <2>4. Fits(u, 1)
    BY <2>1, <2>3, TurnedFits
  <2> QED
    BY <1>2, <2>4 DEF Placed
<1> QED
  BY <1>1, <1>2

\* One entry changes, and the answers are still lengths of lists.
LEMMA UserListsAre ==
  ASSUME UserTypes, NEW c \in Calls, NEW op, NEW arg, NEW ans, Says(c, op, arg, ans),
         UserLists(op, ans)
  PROVE  \A d \in Calls : UserLists(pending'[d].op, pending'[d].ans)
BY DEF UserTypes, Says

LEMMA UserTypesInit == ASSUME U!Init PROVE UserTypes
<1>1. pending = Opening(<<Request("load", "page")>>) \/ pending = NoCalls
  BY DEF U!Init, U!Opening, U!Request, U!NoCall, U!NoCalls, U!Calls,
         Opening, Request, NoCall, NoCalls, Calls
<1>2. CallsInv /\ \A c \in Calls : UserLists(pending[c].op, pending[c].ans)
  <2>1. CASE pending = Opening(<<Request("load", "page")>>)
    BY <2>1, OpeningSays DEF UserLists
  <2>2. CASE pending = NoCalls
    BY <2>2 DEF CallsInv, NoCalls, NoCall, UserLists
  <2> QED
    BY <1>1, <2>1, <2>2
<1>3. db \in 1..MaxUsers
  BY TypesAssumption DEF TypesAssumption, U!Init
<1>4. /\ {"rows", "table", "loading"} \subseteq DOMAIN ui /\ ui.rows = 0 /\ ui.table = NoTable
  BY DEF U!Init
<1> QED
  BY <1>2, <1>3, <1>4, TypesAssumption DEF TypesAssumption, UserTypes

LEMMA UserTypesStay == ASSUME UserTypes, U!Next PROVE UserTypes'
<1> DEFINE Fields == {"rows", "table", "loading"}
<1>1. /\ CallsInv /\ db \in 1..MaxUsers
      /\ Fields \subseteq DOMAIN ui /\ ui.rows \in 0..MaxUsers /\ ui.rows \in Nat
      /\ ui.table # NoTable => Placed(ui.table, ui.rows) /\ ~ui.loading
      /\ \A c \in Calls : UserLists(pending[c].op, pending[c].ans)
  BY TypesAssumption DEF TypesAssumption, UserTypes
<1>2. ASSUME NEW c \in Calls, NEW op, NEW arg, NEW ans, Says(c, op, arg, ans), CallsInv',
             UserLists(op, ans), db' \in 1..MaxUsers,
             Fields \subseteq DOMAIN ui', ui'.rows \in 0..MaxUsers,
             ui'.table # NoTable => Placed(ui'.table, ui'.rows) /\ ~ui'.loading
      PROVE  UserTypes'
  BY <1>2, UserListsAre DEF UserTypes
<1>3. CASE U!TurnPage
  <2>1. PICK t \in V!Turned(ui.table, ui.rows) :
          /\ ui.table # NoTable /\ ui' = [ui EXCEPT !.table = t] /\ UNCHANGED <<db, pending>>
    BY <1>3, FootersAreAlike DEF U!TurnPage
  <2>2. Placed(t, ui.rows)
    BY <1>1, <2>1, TurnedIsPlaced
  <2> QED
    BY <1>1, <2>1, <2>2 DEF UserTypes, CallsInv
<1>4. CASE U!OnCreate
  <2>1. Ask("create", None) /\ db' = db /\ ui' = [ui EXCEPT !.saving = TRUE]
    BY <1>4, UsersCalls DEF U!OnCreate
  <2>2. /\ Fields \subseteq DOMAIN ui' /\ ui'.rows = ui.rows /\ ui'.table = ui.table
        /\ ui'.loading = ui.loading
    BY <1>1, <2>1
  <2> QED
    BY <1>1, <1>2, <2>1, <2>2, AskSays DEF UserLists
<1>5. ASSUME NEW c \in Calls, U!Serve(c) PROVE UserTypes'
  <2>1. /\ ui' = ui /\ db' \in 1..MaxUsers
        /\ \E a : /\ pending' = [pending EXCEPT ![c].ans = a]
                  /\ UserLists(pending[c].op, a)
    <3>1. CASE U!ServeList(c)
      BY <1>1, <3>1 DEF U!ServeList, U!Reply, UserLists
    <3>2. CASE U!ServeCreate(c)
      <4>1. db' \in 1..MaxUsers
        BY <1>1, <3>2, TypesAssumption DEF TypesAssumption, U!ServeCreate
      <4> QED
        BY <3>2, <4>1 DEF U!ServeCreate, U!Reply, UserLists
    <3>3. CASE U!RefuseCall(c)
      BY <1>1, <3>3 DEF U!RefuseCall, U!Refuse, UserLists
    <3> QED
      BY <1>5, <3>1, <3>2, <3>3 DEF U!Serve
  <2> QED
    BY <1>1, <1>2, <2>1, AnswerSays
<1>6. ASSUME NEW u, NEW for, Fields \subseteq DOMAIN u
      PROVE  /\ Fields \subseteq DOMAIN U!Ended(u, for) /\ U!Ended(u, for).rows = u.rows
             /\ U!Ended(u, for).table = u.table /\ ~U!Ended(u, for).loading
  BY <1>6 DEF U!Ended
<1>7. ASSUME NEW c \in Calls, Return(c), db' = db, NEW u, NEW for, ui' = U!Ended(u, for),
             Fields \subseteq DOMAIN u, u.rows \in 0..MaxUsers, Placed(u.table, u.rows)
      PROVE  UserTypes'
  <2>1. CallsInv' /\ Says(c, "none", None, None)
    BY <1>1, <1>7, ReturnSays
  <2> QED
    BY <1>1, <1>2, <1>6, <1>7, <2>1 DEF UserLists
<1>8. ASSUME NEW c \in Calls, U!OnLoad(c) PROVE UserTypes'
  <2> DEFINE n == pending[c].ans
             t == V!Refreshed(ui.table)
             u == [ui EXCEPT !.rows = n, !.table = t]
  <2>1. n \in 1..MaxUsers
    BY <1>1, <1>8 DEF U!OnLoad, U!Ok, U!Answered, UserLists
  <2>2. Placed(t, n)
    <3>1. n \in Nat /\ n # 0
      BY <2>1, TypesAssumption DEF TypesAssumption
    <3>2. ui.table # NoTable => ui.table \in [index : Nat, size : Sizes]
      BY <1>1 DEF Placed, Fits
    <3> HIDE DEF n
    <3> QED
      BY <3>1, <3>2, RefreshedFits DEF Placed
  <2>3. Fields \subseteq DOMAIN u /\ u.rows = n /\ u.table = t
    BY <1>1
  <2>4. ui' = U!Ended(u, pending[c].arg) /\ Return(c) /\ db' = db
    BY <1>8, UsersCalls, FootersAreAlike DEF U!OnLoad
  <2>5. n \in 0..MaxUsers
    BY <2>1
  <2> HIDE DEF u, t, n
  <2> QED
    BY <1>7, <2>2, <2>3, <2>4, <2>5
<1>9. ASSUME NEW c \in Calls, U!OnLoadError(c) PROVE UserTypes'
  <2> DEFINE t == V!Uncovered(ui.table)
             u == [ui EXCEPT !.table = t]
  <2>1. Placed(t, ui.rows)
    BY <1>1, NewTableFits DEF V!Uncovered, Placed
  <2>2. Fields \subseteq DOMAIN u /\ u.rows = ui.rows /\ u.table = t
    BY <1>1
  <2>3. ui' = U!Ended(u, pending[c].arg) /\ Return(c) /\ db' = db
    BY <1>9, UsersCalls, FootersAreAlike DEF U!OnLoadError
  <2> HIDE DEF u, t
  <2> QED
    BY <1>1, <1>7, <2>1, <2>2, <2>3
<1>10. ASSUME NEW c \in Calls, U!OnCreated(c) PROVE UserTypes'
  <2>1. /\ Await(c, "load", "create") /\ db' = db
        /\ ui' = [ui EXCEPT !.loading = TRUE, !.table = NoTable]
    BY <1>10, UsersCalls DEF U!OnCreated
  <2>2. Fields \subseteq DOMAIN ui' /\ ui'.rows = ui.rows /\ ui'.table = NoTable
    BY <1>1, <2>1
  <2>3. CallsInv' /\ Says(c, "load", "create", Sent) /\ UserLists("load", Sent)
    BY <1>1, <2>1, AwaitSays DEF UserLists
  <2> QED
    BY <1>1, <1>2, <2>1, <2>2, <2>3
<1>11. ASSUME NEW c \in Calls, U!OnCreateError(c) PROVE UserTypes'
  <2>1. Return(c) /\ db' = db /\ ui' = [ui EXCEPT !.saving = FALSE]
    BY <1>11, UsersCalls DEF U!OnCreateError
  <2>2. /\ Fields \subseteq DOMAIN ui' /\ ui'.rows = ui.rows /\ ui'.table = ui.table
        /\ ui'.loading = ui.loading
    BY <1>1, <2>1
  <2>3. CallsInv' /\ Says(c, "none", None, None) /\ UserLists("none", None)
    BY <1>1, <2>1, ReturnSays DEF UserLists
  <2> QED
    BY <1>1, <1>2, <2>1, <2>2, <2>3
<1> QED
  BY <1>3, <1>4, <1>5, <1>8, <1>9, <1>10, <1>11 DEF U!Next, U!Continue, U!Calls, Calls

LEMMA UserTypesAre == ASSUME UserTypes PROVE U!TypeOK
<1> SUFFICES ASSUME ui.table # NoTable
             PROVE  ui.table \in [index : 0..MaxUsers, size : Sizes]
  BY DEF UserTypes, U!TypeOK
<1> DEFINE n == IF ui.rows = 0 THEN 1 ELSE ui.rows
           i == ui.table.index
           s == ui.table.size
<1>1. /\ n \in Nat /\ n > 0 /\ n <= MaxUsers /\ MaxUsers \in Nat
  BY TypesAssumption DEF TypesAssumption, UserTypes
<1>2. ui.table \in [index : Nat, size : Sizes] /\ i * s < n
  BY <1>1 DEF UserTypes, Placed, Fits
<1>3. i \in Nat /\ s \in Nat \ {0}
  BY <1>2, PortalAssumption DEF PortalAssumption
<1> HIDE DEF n, i, s
<1>4. i <= i * s
  BY <1>3
<1>5. i \in 0..MaxUsers
  <2> DEFINE x == i * s
  <2>1. x \in Nat /\ i <= x /\ x < n
    BY <1>2, <1>3, <1>4
  <2> HIDE DEF x
  <2> QED
    BY <1>1, <1>3, <2>1
<1> QED
  BY <1>2, <1>5 DEF i

(* The dialog of the wipe. *)

\* A call is under way while the dialog is busy, and a busy dialog is open.
WipeTypes ==
  /\ CallsInv /\ WipeInv
  /\ db \subseteq {"prices", "cards", "suppliers"}
  /\ ui.open \/ ~ui.busy
  /\ OneFor(Working, ui.busy)

\* The calls of the dialog's instance are those of WebCalls.
LEMMA WipeCalls ==
  /\ \A op, arg : W!Ask(op, arg) => Ask(op, arg)
  /\ \A c : W!Return(c) => Return(c)
  /\ \A c : W!Waiting(c) \/ W!Answered(c) => ~Idle(c)
  /\ W!NoCalls = NoCalls
BY DEF W!Ask, W!CanCall, W!NextCall, W!Idle, W!Calls, W!Await, W!Request, W!Return,
       W!NoCall, W!Waiting, W!Answered, W!NoCalls,
       Ask, CanCall, NextCall, Idle, Calls, Await, Request, Return, NoCall, NoCalls

LEMMA WipeTypesInit == ASSUME W!Init PROVE WipeTypes
<1>1. pending = NoCalls
  BY WipeCalls DEF W!Init
<1>2. CallsInv /\ Working = {}
  BY <1>1 DEF CallsInv, Working, Idle, NoCalls, NoCall
<1> QED
  BY <1>2, WipeInit DEF W!Init, W!Blank, WipeTypes, OneFor, Single

LEMMA WipeTypesStay == ASSUME WipeTypes, W!Next PROVE WipeTypes'
<1> DEFINE Fields == {"open", "form", "busy", "entered"}
<1>1. /\ CallsInv /\ WipeInv' /\ db \subseteq {"prices", "cards", "suppliers"}
      /\ Fields \subseteq DOMAIN ui /\ (ui.open \/ ~ui.busy)
      /\ OneFor(Working, ui.busy)
  BY WipeNext DEF WipeTypes, WipeInv
<1>2. ASSUME db' \subseteq db, CallsInv', Working' = Working, ui'.busy = ui.busy,
             ui'.open \/ ~ui'.busy
      PROVE  WipeTypes'
  BY <1>1, <1>2 DEF WipeTypes
<1>3. CASE \/ W!Open \/ W!TickSuppliers \/ W!Close
           \/ \E right \in BOOLEAN : W!TypeWord(right)
  <2>1. db' = db /\ pending' = pending
    BY <1>3 DEF W!Open, W!TickSuppliers, W!Close, W!TypeWord
  <2>2. ui'.busy = ui.busy /\ (ui'.open \/ ~ui'.busy)
    BY <1>1, <1>3 DEF W!Open, W!TickSuppliers, W!Close, W!TypeWord
  <2>3. CallsInv' /\ Working' = Working
    BY <1>1, <2>1 DEF CallsInv, Working, Idle
  <2> QED
    BY <1>2, <2>1, <2>2, <2>3
<1>4. CASE W!OnWipe
  <2>1. PICK arg : Ask("wipe", arg)
    BY <1>4, WipeCalls DEF W!OnWipe
  <2>2. ~ui.busy /\ ui.open /\ ui'.open /\ ui'.busy /\ db' = db
    BY <1>1, <1>4 DEF W!OnWipe, W!CanWipe
  <2>3. PICK c \in Calls : Says(c, "wipe", arg, Sent) /\ CallsInv'
    BY <1>1, <2>1, AskSays
  <2>4. Working = {}
    BY <1>1, <2>2 DEF OneFor
  <2>5. Working' = {c}
    BY <2>3, <2>4 DEF Working, Idle, Says
  <2> QED
    BY <1>1, <2>2, <2>3, <2>5 DEF WipeTypes, OneFor, Single
<1>5. ASSUME NEW c \in Calls, W!Serve(c) PROVE WipeTypes'
  <2>1. ui' = ui /\ db' \subseteq db
    BY <1>5 DEF W!Serve, W!ServeImports, W!ServeCatalog, W!RefuseCall
  <2>2. \/ pending' = [pending EXCEPT ![c].arg.imports = TRUE]
        \/ \E a : pending' = [pending EXCEPT ![c].ans = a]
    BY <1>5 DEF W!Serve, W!ServeImports, W!ServeCatalog, W!RefuseCall, W!Reply, W!Refuse
  <2>3. CallsInv' /\ \A d \in Calls : pending'[d].op = pending[d].op
    BY <1>1, <2>2 DEF CallsInv
  <2>4. Working' = Working
    BY <2>3 DEF Working, Idle
  <2> QED
    BY <1>1, <1>2, <2>1, <2>3, <2>4
<1>6. ASSUME NEW c \in Calls, W!OnWiped(c) PROVE WipeTypes'
  <2>1. pending' = NoCalls /\ db' = db /\ ~ui'.busy
    BY <1>6, WipeCalls DEF W!OnWiped, W!Blank
  <2>2. CallsInv' /\ Working' = {}
    BY <2>1 DEF CallsInv, Working, Idle, NoCalls, NoCall
  <2> QED
    BY <1>1, <2>1, <2>2 DEF WipeTypes, OneFor, Single
<1>7. ASSUME NEW c \in Calls, W!OnWipeError(c) PROVE WipeTypes'
  <2>1. Return(c) /\ ~Idle(c) /\ db' = db /\ ~ui'.busy
    BY <1>1, <1>7, WipeCalls DEF W!OnWipeError
  <2>2. CallsInv' /\ Says(c, "none", None, None)
    BY <1>1, <2>1, ReturnSays
  <2>3. Working = {c}
    BY <1>1, <2>1 DEF OneFor, Single, Working
  <2>4. Working' = {}
    BY <2>2, <2>3 DEF Working, Idle, Says
  <2> QED
    BY <1>1, <2>1, <2>2, <2>4 DEF WipeTypes, OneFor, Single
<1> QED
  BY <1>3, <1>4, <1>5, <1>6, <1>7 DEF W!Next, W!Continue, W!Calls, Calls

LEMMA WipeTypesAre == ASSUME WipeTypes PROVE W!TypeOK
BY DEF WipeTypes, WipeInv, W!TypeOK, OneFor, Working, W!Quiet, W!Idle, W!Calls, Idle, Calls

(* The session: the shell of the portal and the page of login. *)

\* The shell knows the user or waits for the answer; Kratos answers with a role.
ShellUi == {u \in [place : {"app"}, visit : BOOLEAN, loading : BOOLEAN, user : Roles \cup {None}] :
              u.loading <=> u.user = None}
LoginUi == [place : {"login"}, visit : BOOLEAN, url : {"bare", "flow"}, flow : {None, "open"},
            submitting : BOOLEAN]
UserAnswer(op, ans) == op = "whoami" => ans \in Roles \cup {Sent, Failed}
SessionTypes ==
  /\ CallsInv /\ db \in Roles \cup {None}
  /\ ui \in ShellUi \cup LoginUi
  /\ \A c \in Calls : UserAnswer(pending[c].op, pending[c].ans)

\* One entry changes, and the answers are still of Kratos.
LEMMA UserAnswers ==
  ASSUME SessionTypes, NEW c \in Calls, NEW op, NEW arg, NEW ans, Says(c, op, arg, ans),
         UserAnswer(op, ans)
  PROVE  \A d \in Calls : UserAnswer(pending'[d].op, pending'[d].ans)
BY DEF SessionTypes, Says

\* What the shell and the page of login start with.
LEMMA MountsTyped ==
  ASSUME NEW v \in BOOLEAN, NEW url \in {"bare", "flow"}
  PROVE  S!Shell(v) \in ShellUi /\ S!Login(v, url) \in LoginUi
BY DEF S!Shell, S!Login, ShellUi, LoginUi

LEMMA SessionTypesInit == ASSUME S!Init PROVE SessionTypes
<1>1. pending = Opening(<<Request("whoami", None)>>)
  BY DEF S!Init, S!Opening, S!Request, S!NoCall, S!Calls, Opening, Request, NoCall, Calls
<1>2. CallsInv /\ \A c \in Calls : UserAnswer(pending[c].op, pending[c].ans)
  BY <1>1, OpeningSays DEF UserAnswer
<1>3. db \in Roles \cup {None} /\ ui \in {S!Shell(TRUE), S!Login(TRUE, "bare")}
  BY DEF S!Init
<1> QED
  BY <1>2, <1>3, MountsTyped DEF SessionTypes

\* Going to the portal or to the login mounts it anew.
LEMMA SessionMounts ==
  ASSUME SessionTypes, S!ToShell \/ \E url \in {"bare", "flow"} : S!ToLogin(url),
         db' \in Roles \cup {None}
  PROVE  SessionTypes'
<1>1. pending' = Opening(<<Request("whoami", None)>>)
  BY DEF S!ToShell, S!ToLogin, S!GoTo, S!Opening, S!Request, S!NoCall, S!Calls,
         Opening, Request, NoCall, Calls
<1>2. CallsInv' /\ \A c \in Calls : UserAnswer(pending'[c].op, pending'[c].ans)
  BY <1>1 DEF CallsInv, UserAnswer, Opening, Request, NoCall
<1>3. ui' \in ShellUi \cup LoginUi
  <2> DEFINE v == ~ui.visit
  <2>1. v \in BOOLEAN
    OBVIOUS
  <2>2. ui' = S!Shell(v) \/ \E url \in {"bare", "flow"} : ui' = S!Login(v, url)
    BY DEF S!ToShell, S!ToLogin, S!GoTo
  <2> HIDE DEF v
  <2> QED
    BY <2>1, <2>2, MountsTyped
<1> QED
  BY <1>2, <1>3 DEF SessionTypes

LEMMA SessionTypesStay == ASSUME SessionTypes, S!Next PROVE SessionTypes'
<1>1. /\ CallsInv /\ db \in Roles \cup {None} /\ ui \in ShellUi \cup LoginUi
      /\ \A c \in Calls : UserAnswer(pending[c].op, pending[c].ans)
  BY DEF SessionTypes
<1>2. ASSUME NEW c \in Calls, NEW op, NEW arg, NEW ans, Says(c, op, arg, ans), CallsInv',
             UserAnswer(op, ans), db' \in Roles \cup {None}, ui' \in ShellUi \cup LoginUi
      PROVE  SessionTypes'
  BY <1>2, UserAnswers DEF SessionTypes
<1>3. CASE S!Expire
  BY <1>1, <1>3 DEF S!Expire, SessionTypes, CallsInv
<1>4. CASE S!Logout
  <2>1. Ask("logout", None) /\ UNCHANGED <<ui, db>>
    BY <1>4, SessionCalls DEF S!Logout
  <2> QED
    BY <1>1, <1>2, <2>1, AskSays DEF UserAnswer
<1>5. CASE S!Submit
  <2>1. /\ Ask("login", None) /\ db' = db /\ ui.place = "login"
        /\ ui' = [ui EXCEPT !.submitting = TRUE]
    BY <1>5, SessionCalls DEF S!Submit, S!CanSubmit
  <2>2. ui' \in LoginUi
    BY <1>1, <2>1 DEF ShellUi, LoginUi
  <2> QED
    BY <1>1, <1>2, <2>1, <2>2, AskSays DEF UserAnswer
<1>6. ASSUME NEW c \in Calls, S!Serve(c) PROVE SessionTypes'
  <2>1. /\ ui' = ui /\ db' \in Roles \cup {None}
        /\ \E a : /\ pending' = [pending EXCEPT ![c].ans = a]
                  /\ UserAnswer(pending[c].op, a)
    <3>1. CASE S!ServeWhoAmI(c)
      BY <1>1, <3>1 DEF S!ServeWhoAmI, S!Reply, UserAnswer
    <3>2. CASE S!ServeFlow(c)
      BY <1>1, <3>2 DEF S!ServeFlow, S!Reply, UserAnswer
    <3>3. CASE S!ServeLogin(c)
      BY <1>1, <3>3 DEF S!ServeLogin, S!Reply, UserAnswer
    <3>4. CASE S!RefuseCall(c)
      BY <1>1, <3>4 DEF S!RefuseCall, S!Refuse, UserAnswer
    <3> QED
      BY <1>6, <3>1, <3>2, <3>3, <3>4 DEF S!Serve
  <2> QED
    BY <1>1, <1>2, <2>1, AnswerSays
<1>7. ASSUME NEW c \in Calls,
             \/ S!OnNoUser(c) \/ S!OnLogout(c) \/ S!OnLogoutError(c)
             \/ S!OnActiveSession(c) \/ S!OnNoFlow(c) \/ S!OnLoggedIn(c)
      PROVE  SessionTypes'
  <2>1. S!ToShell \/ \E url \in {"bare", "flow"} : S!ToLogin(url)
    BY <1>7 DEF S!OnNoUser, S!OnLogout, S!OnLogoutError, S!OnActiveSession, S!OnNoFlow,
                S!OnLoggedIn, S!ToKratos
  <2>2. db' \in Roles \cup {None}
    BY <1>1, <1>7 DEF S!OnNoUser, S!OnLogout, S!OnLogoutError, S!OnActiveSession, S!OnNoFlow,
                      S!OnLoggedIn
  <2> QED
    BY <2>1, <2>2, SessionMounts
<1>8. ASSUME NEW c \in Calls, S!OnNoSession(c) PROVE SessionTypes'
  <2>1. CASE ui.url = "bare"
    <3>1. db' = db /\ (S!ToShell \/ S!ToLogin("flow"))
      BY <1>8, <2>1 DEF S!OnNoSession, S!ToKratos
    <3> QED
      BY <1>1, <3>1, SessionMounts
  <2>2. CASE ui.url # "bare"
    <3>1. Await(c, "flow", None) /\ UNCHANGED <<ui, db>>
      BY <1>8, <2>2, SessionCalls DEF S!OnNoSession
    <3> QED
      BY <1>1, <1>2, <3>1, AwaitSays DEF UserAnswer
  <2> QED
    BY <2>1, <2>2
<1>9. ASSUME NEW c \in Calls, S!OnUser(c) \/ S!OnFlow(c) \/ S!OnLoginError(c)
      PROVE  SessionTypes'
  <2>1. Return(c) /\ db' = db
    BY <1>9, SessionCalls DEF S!OnUser, S!OnFlow, S!OnLoginError
  <2>2. ui' \in ShellUi \cup LoginUi
    <3>1. CASE S!OnUser(c)
      <4>1. pending[c].ans \in Roles /\ ui.place = "app"
        BY <1>1, <3>1 DEF S!OnUser, S!Ok, S!Answered, UserAnswer
      <4>2. ui' = [ui EXCEPT !.user = pending[c].ans, !.loading = FALSE]
        BY <3>1 DEF S!OnUser
      <4> QED
        BY <1>1, <4>1, <4>2, TypesAssumption DEF TypesAssumption, ShellUi, LoginUi
    <3>2. CASE S!OnFlow(c)
      BY <1>1, <3>2 DEF S!OnFlow, ShellUi, LoginUi
    <3>3. CASE S!OnLoginError(c)
      BY <1>1, <3>3 DEF S!OnLoginError, ShellUi, LoginUi
    <3> QED
      BY <1>9, <3>1, <3>2, <3>3
  <2>3. UserAnswer("none", None)
    BY DEF UserAnswer
  <2> QED
    BY <1>1, <1>2, <2>1, <2>2, <2>3, ReturnSays
<1> QED
  BY <1>3, <1>4, <1>5, <1>6, <1>7, <1>8, <1>9 DEF S!Next, S!Continue, S!Calls, Calls

LEMMA SessionTypesAre == ASSUME SessionTypes PROVE S!TypeOK
BY DEF SessionTypes, ShellUi, LoginUi, S!TypeOK

(* The portal: one of the pages, which keeps its types. *)

TypesInv ==
  /\ page = "matching" => MatchTypes
  /\ page = "imports" => ImportTypes
  /\ page = "catalog" => ShowTypes
  /\ page = "product" => PageTypes
  /\ page = "compare" => CompareTypes
  /\ page = "products" => ProductTypes
  /\ page = "edit" => EditTypes
  /\ page = "photos" => PhotoTypes
  /\ page = "categories" => TreeTypes
  /\ page = "suppliers" => SupplierTypes
  /\ page = "users" => UserTypes
  /\ page = "wipe" => WipeTypes
  /\ page = "session" => SessionTypes

LEMMA TypesInit == Init => TypesInv
BY MatchTypesInit, ImportTypesInit, ShowTypesInit, PageTypesInit, CompareTypesInit,
   ProductTypesInit, EditTypesInit, PhotoTypesInit, TreeTypesInit, SupplierTypesInit,
   UserTypesInit, WipeTypesInit, SessionTypesInit
   DEF Init, TypesInv

LEMMA TypesNext == TypesInv /\ [Next]_vars => TypesInv'
<1> SUFFICES ASSUME TypesInv, [Next]_vars PROVE TypesInv'
  OBVIOUS
<1>1. CASE Next
  <2>1. page' = page
    BY <1>1 DEF Next
  <2>2. page = "matching" => MatchTypes'
    BY <1>1, MatchTypesStay DEF Next, TypesInv
  <2>3. page = "imports" => ImportTypes'
    BY <1>1, ImportTypesStay DEF Next, TypesInv
  <2>4. page = "catalog" => ShowTypes'
    BY <1>1, ShowTypesStay DEF Next, TypesInv
  <2>5. page = "product" => PageTypes'
    BY <1>1, PageTypesStay DEF Next, TypesInv
  <2>6. page = "compare" => CompareTypes'
    BY <1>1, CompareTypesStay DEF Next, TypesInv
  <2>7. page = "products" => ProductTypes'
    BY <1>1, ProductTypesStay DEF Next, TypesInv
  <2>8. page = "edit" => EditTypes'
    BY <1>1, EditTypesStay DEF Next, TypesInv
  <2>9. page = "photos" => PhotoTypes'
    BY <1>1, PhotoTypesStay DEF Next, TypesInv
  <2>10. page = "categories" => TreeTypes'
    BY <1>1, TreeTypesStay DEF Next, TypesInv
  <2>11. page = "suppliers" => SupplierTypes'
    BY <1>1, SupplierTypesStay DEF Next, TypesInv
  <2>12. page = "users" => UserTypes'
    BY <1>1, UserTypesStay DEF Next, TypesInv
  <2>13. page = "wipe" => WipeTypes'
    BY <1>1, WipeTypesStay DEF Next, TypesInv
  <2>14. page = "session" => SessionTypes'
    BY <1>1, SessionTypesStay DEF Next, TypesInv
  <2> QED
    BY <2>1, <2>2, <2>3, <2>4, <2>5, <2>6, <2>7, <2>8, <2>9, <2>10, <2>11, <2>12, <2>13,
       <2>14 DEF TypesInv
<1>2. CASE UNCHANGED vars
  <2>1. UNCHANGED <<page, ui, db, pending>>
    BY <1>2 DEF vars
  <2>2. MatchTypes => MatchTypes'
    BY <2>1 DEF MatchTypes, CallsInv, RowsTyped, Rendered, RowCall, M!Shown
  <2>3. ImportTypes => ImportTypes'
    BY <2>1 DEF ImportTypes, CallsInv, BatchLists, I!TypeOK
  <2>4. ShowTypes => ShowTypes'
    BY <2>1 DEF ShowTypes, CallsInv, ShowTyped, ShowCall
  <2>5. PageTypes => PageTypes'
    BY <2>1 DEF PageTypes, CallsInv, CardTyped, CardCall, IsList
  <2>6. CompareTypes => CompareTypes'
    BY <2>1 DEF CompareTypes, CompareInv, CallsInv, SearchAnswer, P!TypeOK, P!TableShown
  <2>7. ProductTypes => ProductTypes'
    BY <2>1 DEF ProductTypes, CallsInv, ListCall, L!TypeOK
  <2>8. EditTypes => EditTypes'
    BY <2>1 DEF EditTypes, E!TypeOK
  <2>9. PhotoTypes => PhotoTypes'
    BY <2>1 DEF PhotoTypes, CallsInv, PanelTyped, GalleriesTyped, IsGallery, PhotoCall
  <2>10. TreeTypes => TreeTypes'
    BY <2>1 DEF TreeTypes, CallsInv, TreeTyped, TreeStore, TreeCall
  <2>11. SupplierTypes => SupplierTypes'
    BY <2>1 DEF SupplierTypes, TableInv, ListAnswers, CallsInv, Fits
  <2>12. UserTypes => UserTypes'
    BY <2>1 DEF UserTypes, CallsInv, Placed, Fits, UserLists
  <2>13. WipeTypes => WipeTypes'
    BY <2>1 DEF WipeTypes, WipeInv, CallsInv, OneFor, Single, Working, Idle
  <2>14. SessionTypes => SessionTypes'
    BY <2>1 DEF SessionTypes, CallsInv, UserAnswer
  <2> QED
    BY <2>1, <2>2, <2>3, <2>4, <2>5, <2>6, <2>7, <2>8, <2>9, <2>10, <2>11, <2>12, <2>13,
       <2>14 DEF TypesInv
<1> QED
  BY <1>1, <1>2

\* Whatever the users press and the calls bring, a page keeps what it relies on:
\* its rows and cards are of the lists it has had, each call carries what its
\* handler will read, and no more photos, cards or users than there may be.
THEOREM TypesOfPagesStay == Spec => []TypeOK
<1>1. TypesInv => TypeOK
  BY MatchTypesAre, ImportTypesAre, ShowTypesAre, PageTypesAre, CompareTypesAre,
     ProductTypesAre, PhotoTypesAre, TreeTypesAre, SupplierTypesAre,
     UserTypesAre, WipeTypesAre, SessionTypesAre
     DEF TypesInv, EditTypes, TypeOK
<1> QED
  BY <1>1, TypesInit, TypesNext, PTL DEF Spec
=============================================================================
