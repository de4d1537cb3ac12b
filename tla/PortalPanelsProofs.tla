------------------------- MODULE PortalPanelsProofs --------------------------
(* What a panel, a dialog or a list of the portal does next to its own       *)
(* calls, for any number of handlers that wait and any data: the panels of a *)
(* card, of its photos and of a supplier, the run over a price list, the     *)
(* dialog of a wipe.                                                         *)
EXTENDS PortalCallsProofs

----------------------------------------------------------------------------
(* The panel of a card *)

Working == {c \in Calls : ~Idle(c)}

\* The second click on the bin is on the card of the first.
EditInv ==
  /\ CallsInv /\ {"card", "confirm", "busy", "asked"} \subseteq DOMAIN ui
  /\ OneFor(Working, ui.busy)
  /\ ui.card # None /\ ui.confirm => ui.asked = ui.card
  /\ \A c \in Calls : pending[c].op = "delete" => pending[c].arg.asked = pending[c].arg.card

LEMMA EditCalls ==
  /\ \A op, arg : E!Ask(op, arg) => Ask(op, arg)
  /\ \A c : E!Return(c) => Return(c)
  /\ \A c : E!Waiting(c) \/ E!Answered(c) => ~Idle(c)
BY DEF E!Ask, E!CanCall, E!NextCall, E!Idle, E!Calls, E!Await, E!Request, E!Return,
       E!NoCall, E!Waiting, E!Answered,
       Ask, CanCall, NextCall, Idle, Calls, Await, Request, Return, NoCall

LEMMA EditInit == ASSUME E!Init PROVE EditInv
<1>1. \A c \in Calls : pending[c].op = "none"
  BY DEF E!Init, E!NoCalls, E!NoCall, E!Calls, Calls
<1>2. CallsInv
  BY DEF E!Init, E!NoCalls, E!NoCall, E!Calls, Calls, CallsInv
<1>3. Working = {}
  BY <1>1 DEF Working, Idle
<1>4. {"card", "confirm", "busy", "asked"} \subseteq DOMAIN ui /\ ~ui.busy /\ ~ui.confirm
  BY DEF E!Init
<1> QED
  BY <1>1, <1>2, <1>3, <1>4 DEF EditInv, OneFor, Single

\* A step that asks nothing and ends nothing.
LEMMA EditStill ==
  ASSUME EditInv, CallsInv', SameCalls, DOMAIN ui' = DOMAIN ui, ui'.busy = ui.busy,
         ui'.card # None /\ ui'.confirm => ui'.asked = ui'.card,
         \A c \in Calls : pending[c].op = "delete" => pending'[c].arg = pending[c].arg
  PROVE  EditInv'
<1>1. Working' = Working
  BY DEF Working, Idle, SameCalls
<1> QED
  BY <1>1 DEF EditInv, SameCalls

LEMMA EditServe == ASSUME EditInv, NEW c \in Calls, E!Serve(c) PROVE EditInv'
<1>1. ui' = ui /\ \E a : pending' = [pending EXCEPT ![c].ans = a]
  BY DEF E!Serve, E!ServeSave, E!ServeDelete, E!RefuseCall, E!Reply, E!Refuse
<1>2. CallsInv' /\ SameCalls
  BY <1>1, AnswerChanges DEF EditInv
<1> QED
  BY <1>1, <1>2, EditStill DEF EditInv, SameCalls

LEMMA EditUser == ASSUME EditInv, E!UserStep PROVE EditInv'
<1>1. {"card", "confirm", "busy", "asked"} \subseteq DOMAIN ui /\ CallsInv
  BY DEF EditInv
<1>2. ASSUME NEW p, E!Open(p) \/ E!Close \/ E!Edit \/ E!OnDeleteFirst PROVE EditInv'
  <2>1. /\ UNCHANGED pending /\ DOMAIN ui' = DOMAIN ui /\ ui'.busy = ui.busy
        /\ ui'.card # None /\ ui'.confirm => ui'.asked = ui'.card
    BY <1>1, <1>2 DEF E!Open, E!Close, E!Edit, E!OnDeleteFirst, E!CanPress, EditInv
  <2> QED
    BY <1>1, <2>1, EditStill DEF CallsInv, SameCalls
<1>3. CASE E!OnSave \/ E!OnDelete
  <2>1. ~ui.busy /\ ui' = [ui EXCEPT !.busy = TRUE]
    BY <1>3 DEF E!OnSave, E!OnDelete, E!CanPress
  <2>2. PICK op, arg : /\ E!Ask(op, arg) /\ op # "none"
                       /\ op = "delete" => arg.asked = arg.card
    <3>1. CASE E!OnSave
      BY <3>1 DEF E!OnSave
    <3>2. CASE E!OnDelete
      BY <3>2 DEF E!OnDelete, E!CanPress, EditInv
    <3> QED
      BY <1>3, <3>1, <3>2
  <2>3. PICK c \in Calls : /\ Becomes(c, op, arg) /\ CallsInv'
    BY <1>1, <2>2, EditCalls, AskChanges
  <2>4. Working = {}
    BY <2>1 DEF EditInv, OneFor
  <2>5. Working' = {c}
    BY <2>2, <2>3, <2>4 DEF Working, Idle, Becomes
  <2>6. /\ DOMAIN ui' = DOMAIN ui /\ ui'.busy
        /\ ui'.card = ui.card /\ ui'.confirm = ui.confirm /\ ui'.asked = ui.asked
    BY <1>1, <2>1
  <2>7. \A d \in Calls : pending'[d].op = "delete" => pending'[d].arg.asked = pending'[d].arg.card
    BY <2>2, <2>3 DEF Becomes, EditInv
  <2> QED
    BY <2>3, <2>5, <2>6, <2>7 DEF EditInv, OneFor, Single
<1> QED
  BY <1>2, <1>3 DEF E!UserStep

\* The one call ends, and its flag goes.
LEMMA EditContinue == ASSUME EditInv, NEW c \in Calls, E!Continue(c) PROVE EditInv'
<1>1. /\ {"card", "confirm", "busy", "asked"} \subseteq DOMAIN ui /\ CallsInv
  BY DEF EditInv
<1>2. Return(c) /\ c \in Working
  BY EditCalls DEF E!Continue, E!OnDone, E!OnError, E!Ok, Working
<1>3. Becomes(c, "none", None) /\ CallsInv'
  BY <1>1, <1>2, ReturnChanges
<1>4. Working = {c}
  BY <1>2 DEF EditInv, OneFor, Single
<1>5. Working' = {}
  BY <1>3, <1>4 DEF Working, Idle, Becomes
<1>6. /\ DOMAIN ui' = DOMAIN ui /\ ~ui'.busy
      /\ ui'.card # None => ui'.card = ui.card /\ (ui'.confirm => ui.confirm)
      /\ ui'.asked = ui.asked
  BY <1>1 DEF E!Continue, E!OnDone, E!OnError
<1>7. \A d \in Calls : pending'[d].op = "delete" => pending'[d].arg.asked = pending'[d].arg.card
  BY <1>3 DEF Becomes, EditInv
<1> QED
  BY <1>3, <1>5, <1>6, <1>7 DEF EditInv, OneFor, Single

LEMMA EditNext == ASSUME EditInv, E!Next PROVE EditInv'
BY EditUser, EditServe, EditContinue DEF E!Next, E!Calls, Calls

LEMMA EditOneCall == ASSUME EditInv PROVE E!OneCallOfPanel
BY DEF EditInv, OneFor, Single, Working, Idle, Calls, E!OneCallOfPanel, E!Quiet, E!Idle,
       E!Calls

LEMMA EditAsked == ASSUME EditInv PROVE E!AskedBeforeDelete
BY DEF EditInv, E!AskedBeforeDelete, E!Calls, Calls

----------------------------------------------------------------------------
(* The panel of a card's photos: an upload or a deletion, and the load after *)

IsChange(op, arg) == op \in {"add", "remove"} \/ (op = "load" /\ arg.ends)
Changes == {c \in Calls : IsChange(pending[c].op, pending[c].arg)}

PhotosInv == CallsInv /\ "busy" \in DOMAIN ui /\ OneFor(Changes, ui.busy)

LEMMA PhotosCalls ==
  /\ \A op, arg : F!Ask(op, arg) => Ask(op, arg)
  /\ \A c, op, arg : F!Await(c, op, arg) => Await(c, op, arg)
  /\ \A c : F!Return(c) => Return(c)
BY DEF F!Ask, F!CanCall, F!NextCall, F!Idle, F!Calls, F!Await, F!Request, F!Return,
       F!NoCall, Ask, CanCall, NextCall, Idle, Calls, Await, Request, Return, NoCall

LEMMA PhotosInit == ASSUME F!Init PROVE PhotosInv
<1>1. \A c \in Calls : pending[c].op = "none"
  BY DEF F!Init, F!NoCalls, F!NoCall, F!Calls, Calls
<1>2. CallsInv
  BY DEF F!Init, F!NoCalls, F!NoCall, F!Calls, Calls, CallsInv
<1>3. Changes = {}
  BY <1>1 DEF Changes, IsChange
<1>4. "busy" \in DOMAIN ui /\ ~ui.busy
  BY DEF F!Init
<1> QED
  BY <1>2, <1>3, <1>4 DEF PhotosInv, OneFor, Single

LEMMA PhotosMove ==
  ASSUME PhotosInv, CallsInv', "busy" \in DOMAIN ui', NEW c \in Calls, NEW op, NEW arg,
         Becomes(c, op, arg),
         IsChange(op, arg) => (c \in Changes \/ ~ui.busy) /\ ui'.busy,
         c \in Changes /\ ~IsChange(op, arg) => ~ui'.busy,
         c \notin Changes /\ ~IsChange(op, arg) => (ui'.busy <=> ui.busy)
  PROVE  PhotosInv'
<1>1. Follows(Changes, Changes', c, ui.busy, ui'.busy)
  BY DEF Follows, Changes, Becomes
<1> QED
  BY <1>1, OneFollows DEF PhotosInv

LEMMA PhotosStill ==
  ASSUME PhotosInv, CallsInv', SameCalls, "busy" \in DOMAIN ui', ui'.busy = ui.busy
  PROVE  PhotosInv'
BY DEF PhotosInv, Changes, SameCalls

LEMMA PhotosServe == ASSUME PhotosInv, NEW c \in Calls, F!Serve(c) PROVE PhotosInv'
<1>1. ui' = ui /\ \E a : pending' = [pending EXCEPT ![c].ans = a]
  BY DEF F!Serve, F!ServeLoad, F!ServeAdd, F!ServeRemove, F!ServeOrder, F!RefuseCall,
         F!Reply, F!Refuse
<1>2. CallsInv' /\ SameCalls
  BY <1>1, AnswerChanges DEF PhotosInv
<1> QED
  BY <1>1, <1>2, PhotosStill DEF PhotosInv

LEMMA PhotosUser == ASSUME PhotosInv, F!UserStep PROVE PhotosInv'
<1>1. "busy" \in DOMAIN ui /\ CallsInv
  BY DEF PhotosInv
<1>2. ASSUME NEW op, NEW arg, F!Ask(op, arg), "busy" \in DOMAIN ui',
             IsChange(op, arg) => ~ui.busy /\ ui'.busy,
             ~IsChange(op, arg) => ui'.busy = ui.busy
      PROVE  PhotosInv'
  <2>1. PICK c \in Calls : pending[c].op = "none" /\ Becomes(c, op, arg) /\ CallsInv'
    BY <1>1, <1>2, PhotosCalls, AskChanges
  <2>2. c \notin Changes
    BY <2>1 DEF Changes, IsChange
  <2> QED
    BY <1>2, <2>1, <2>2, PhotosMove
<1>3. CASE F!Close
  <2>1. UNCHANGED pending /\ "busy" \in DOMAIN ui' /\ ui'.busy = ui.busy
    BY <1>1, <1>3 DEF F!Close
  <2> QED
    BY <1>1, <2>1, PhotosStill DEF CallsInv, SameCalls
<1>4. ASSUME NEW p, F!Open(p) PROVE PhotosInv'
  <2>1. ~IsChange("load", [card |-> p, ends |-> FALSE])
    BY DEF IsChange
  <2>2. "busy" \in DOMAIN ui' /\ ui'.busy = ui.busy
    BY <1>1, <1>4 DEF F!Open
  <2> QED
    BY <1>2, <1>4, <2>1, <2>2 DEF F!Open
<1>5. ASSUME NEW n, F!OnFiles(n) \/ F!RemovePhoto(n) PROVE PhotosInv'
  <2>1. PICK op, arg : op \in {"add", "remove"} /\ F!Ask(op, arg)
    BY <1>5 DEF F!OnFiles, F!RemovePhoto
  <2>2. ~ui.busy /\ "busy" \in DOMAIN ui' /\ ui'.busy
    BY <1>1, <1>5 DEF F!OnFiles, F!CanAdd, F!RemovePhoto, F!CanChange
  <2> QED
    BY <1>2, <2>1, <2>2 DEF IsChange
<1>6. ASSUME NEW i, NEW j, F!MovePhoto(i, j) PROVE PhotosInv'
  <2>1. PICK arg : F!Ask("order", arg)
    BY <1>6 DEF F!MovePhoto
  <2>2. "busy" \in DOMAIN ui' /\ ui'.busy = ui.busy
    BY <1>1, <1>6 DEF F!MovePhoto
  <2> QED
    BY <1>2, <2>1, <2>2 DEF IsChange
<1> QED
  BY <1>3, <1>4, <1>5, <1>6 DEF F!UserStep

LEMMA PhotosContinue == ASSUME PhotosInv, NEW c \in Calls, F!Continue(c) PROVE PhotosInv'
<1>1. "busy" \in DOMAIN ui /\ CallsInv /\ (c \in Changes => ui.busy)
  BY DEF PhotosInv, OneFor
<1>2. ASSUME Return(c), "busy" \in DOMAIN ui', c \in Changes => ~ui'.busy,
             c \notin Changes => (ui'.busy <=> ui.busy)
      PROVE  PhotosInv'
  BY <1>1, <1>2, ReturnChanges, PhotosMove DEF IsChange
<1>3. ASSUME NEW op, NEW arg, Await(c, op, arg), IsChange(op, arg) <=> c \in Changes,
             "busy" \in DOMAIN ui', ui'.busy = ui.busy
      PROVE  PhotosInv'
  BY <1>1, <1>3, AwaitChanges, PhotosMove
<1>4. CASE F!OnLoad(c)
  <2>1. c \in Changes <=> pending[c].arg.ends
    BY <1>4 DEF F!OnLoad, Changes, IsChange
  <2>2. Return(c) /\ "busy" \in DOMAIN ui' /\ (ui'.busy <=> ui.busy /\ ~pending[c].arg.ends)
    BY <1>1, <1>4, PhotosCalls DEF F!OnLoad
  <2> QED
    BY <1>2, <2>1, <2>2
<1>5. CASE F!OnAdd(c) \/ F!OnRemove(c)
  <2>1. c \in Changes
    BY <1>5 DEF F!OnAdd, F!OnRemove, Changes, IsChange
  <2>2. "busy" \in DOMAIN ui' /\ ui'.busy = ui.busy
    BY <1>1, <1>5 DEF F!OnAdd, F!OnRemove
  <2>3. \E arg : Await(c, "add", arg) \/ (Await(c, "load", arg) /\ arg.ends)
    <3>1. [card |-> pending[c].arg.card, ends |-> TRUE].ends
      OBVIOUS
    <3> QED
      BY <1>5, <3>1, PhotosCalls DEF F!OnAdd, F!OnRemove
  <2> QED
    BY <1>3, <2>1, <2>2, <2>3 DEF IsChange
<1>6. CASE F!OnChangeError(c)
  <2>1. c \in Changes
    BY <1>6 DEF F!OnChangeError, Changes, IsChange
  <2>2. Return(c) /\ "busy" \in DOMAIN ui' /\ ~ui'.busy
    BY <1>1, <1>6, PhotosCalls DEF F!OnChangeError
  <2> QED
    BY <1>2, <2>1, <2>2
<1>7. CASE F!OnOrder(c)
  <2>1. c \notin Changes
    BY <1>7 DEF F!OnOrder, Changes, IsChange
  <2>2. "busy" \in DOMAIN ui' /\ ui'.busy = ui.busy
    BY <1>1, <1>7 DEF F!OnOrder
  <2>3. Return(c) \/ Await(c, "load", [card |-> pending[c].arg.card, ends |-> FALSE])
    BY <1>7, PhotosCalls DEF F!OnOrder
  <2>4. ~IsChange("load", [card |-> pending[c].arg.card, ends |-> FALSE])
    BY DEF IsChange
  <2> QED
    BY <1>2, <1>3, <2>1, <2>2, <2>3, <2>4
<1> QED
  BY <1>4, <1>5, <1>6, <1>7 DEF F!Continue

LEMMA PhotosNext == ASSUME PhotosInv, F!Next PROVE PhotosInv'
BY PhotosUser, PhotosServe, PhotosContinue DEF F!Next, F!Calls, Calls

LEMMA PhotosOneChange == ASSUME PhotosInv PROVE F!OneChangeAtATime
BY DEF PhotosInv, OneFor, Single, Changes, IsChange, F!OneChangeAtATime, F!Calls, Calls

----------------------------------------------------------------------------
(* Matching: the automatic run, and the rows that are matched by hand *)

IsRun(op, arg) == op = "auto" \/ (op \in {"unmatched", "suggest"} /\ arg.auto)
Runs == {c \in Calls : IsRun(pending[c].op, pending[c].arg)}

IsMatch(op) == op \in {"confirm", "create"}
\* A match that is answered well is in the catalogue.
MatchAnswers ==
  \A c \in Calls :
    IsMatch(pending[c].op) => pending[c].ans \in {Sent, Failed} \/ pending[c].arg.offer \in db

MatchInv == /\ CallsInv /\ {"auto", "offers"} \subseteq DOMAIN ui
            /\ OneFor(Runs, ui.auto)
            /\ MatchAnswers

LEMMA MatchCalls ==
  /\ \A op, arg : M!Ask(op, arg) => Ask(op, arg)
  /\ \A c, op, arg : M!Await(c, op, arg) => Await(c, op, arg)
  /\ \A c : M!Return(c) => Return(c)
  /\ M!CanCall => CanCall
  /\ M!NextCall = NextCall
BY DEF M!Ask, M!CanCall, M!NextCall, M!Idle, M!Calls, M!Await, M!Request, M!Return,
       M!NoCall, Ask, CanCall, NextCall, Idle, Calls, Await, Request, Return, NoCall

\* Rendering the rows is about nothing else.
LEMMA MatchRender ==
  ASSUME NEW u PROVE DOMAIN M!Render(u) = DOMAIN u
                     /\ ("auto" \in DOMAIN u => M!Render(u).auto = u.auto)
                     /\ ("offers" \in DOMAIN u => M!Render(u).offers = u.offers)
BY DEF M!Render

LEMMA MatchInit == ASSUME M!Init PROVE MatchInv
<1>1. PICK b : /\ ui = M!Render([M!Blank EXCEPT !.batch = b, !.loading = (b # None)])
               /\ pending = IF b = None THEN M!NoCalls
                            ELSE M!Opening(<<M!Request("unmatched", [batch |-> b, auto |-> FALSE])>>)
  BY DEF M!Init
<1>2. /\ CallsInv
      /\ \A c \in Calls : \/ pending[c].op = "none"
                         \/ /\ pending[c].op = "unmatched"
                            /\ pending[c].arg = [batch |-> b, auto |-> FALSE]
  <2>1. CASE b = None
    BY <1>1, <2>1 DEF CallsInv, Calls, M!NoCalls, M!NoCall, M!Calls
  <2>2. CASE b # None
    <3> DEFINE arg == [batch |-> b, auto |-> FALSE]
    <3>1. pending = Opening(<<Request("unmatched", arg)>>)
      BY <1>1, <2>2 DEF M!Opening, M!Request, M!NoCall, M!Calls, Opening, Request, NoCall,
                        Calls
    <3> HIDE DEF arg
    <3>2. CallsInv /\ \A c \in Calls : \/ pending[c].op = "none"
                                       \/ pending[c].op = "unmatched" /\ pending[c].arg = arg
      BY <3>1, OpeningIsCalls
    <3> QED
      BY <3>2 DEF arg
  <2> QED
    BY <2>1, <2>2
<1>3. Runs = {} /\ MatchAnswers
  BY <1>2 DEF Runs, IsRun, MatchAnswers, IsMatch
<1>4. {"auto", "offers"} \subseteq DOMAIN ui /\ ~ui.auto
  <2> DEFINE u == [M!Blank EXCEPT !.batch = b, !.loading = (b # None)]
  <2>1. {"auto", "offers"} \subseteq DOMAIN u /\ ~u.auto
    BY DEF M!Blank
  <2> HIDE DEF u
  <2> QED
    BY <1>1, <2>1, MatchRender DEF u
<1> QED
  BY <1>2, <1>3, <1>4 DEF MatchInv, OneFor, Single

\* The server answers; what is matched stays so.
LEMMA MatchServe == ASSUME MatchInv, NEW c \in Calls, M!Serve(c) PROVE MatchInv'
<1>1. PICK a : /\ ui' = ui /\ db \subseteq db'
               /\ pending' = [pending EXCEPT ![c].ans = a]
               /\ IsMatch(pending[c].op) => a = Failed \/ pending[c].arg.offer \in db'
  <2>1. CASE M!ServeMatch(c)
    BY <2>1 DEF M!ServeMatch, M!Reply
  <2>2. CASE M!RefuseCall(c)
    BY <2>2 DEF M!RefuseCall, M!Refuse
  <2>3. CASE M!ServeUnmatched(c) \/ M!ServeSuggest(c) \/ M!ServeAuto(c)
    BY <2>3 DEF M!ServeUnmatched, M!ServeSuggest, M!ServeAuto, M!Reply, IsMatch
  <2> QED
    BY <2>1, <2>2, <2>3 DEF M!Serve
<1>2. CallsInv' /\ SameCalls
  BY <1>1, AnswerChanges DEF MatchInv
<1>3. Runs' = Runs
  BY <1>2 DEF Runs, SameCalls
<1>4. \A d \in Calls : pending'[d].ans = IF d = c THEN a ELSE pending[d].ans
  BY <1>1 DEF MatchInv, CallsInv
<1>5. MatchAnswers'
  BY <1>1, <1>2, <1>4 DEF MatchInv, MatchAnswers, SameCalls
<1> QED
  BY <1>1, <1>2, <1>3, <1>5 DEF MatchInv

\* One entry changes on the page, and the flag of the run follows it.
LEMMA MatchMove ==
  ASSUME MatchInv, CallsInv', {"auto", "offers"} \subseteq DOMAIN ui', db' = db,
         NEW c \in Calls, NEW op, NEW arg, Becomes(c, op, arg),
         IsMatch(op) => pending'[c].ans = Sent,
         IsRun(op, arg) => (c \in Runs \/ ~ui.auto) /\ ui'.auto,
         c \in Runs /\ ~IsRun(op, arg) => ~ui'.auto,
         c \notin Runs /\ ~IsRun(op, arg) => (ui'.auto <=> ui.auto)
  PROVE  MatchInv'
<1>1. Follows(Runs, Runs', c, ui.auto, ui'.auto)
  BY DEF Follows, Runs, Becomes
<1>2. OneFor(Runs', ui'.auto)
  BY <1>1, OneFollows DEF MatchInv
<1>3. MatchAnswers'
  BY DEF MatchInv, MatchAnswers, Becomes
<1> QED
  BY <1>2, <1>3 DEF MatchInv

LEMMA MatchUser == ASSUME MatchInv, M!UserStep PROVE MatchInv'
<1>1. {"auto", "offers"} \subseteq DOMAIN ui /\ CallsInv
  BY DEF MatchInv
<1>2. ASSUME NEW op, NEW arg, Ask(op, arg), db' = db,
             {"auto", "offers"} \subseteq DOMAIN ui',
             IsRun(op, arg) => ~ui.auto /\ ui'.auto,
             ~IsRun(op, arg) => ui'.auto = ui.auto
      PROVE  MatchInv'
  <2>1. PICK c \in Calls : /\ pending[c].op = "none" /\ Becomes(c, op, arg)
                           /\ pending'[c].ans = Sent /\ CallsInv'
    BY <1>1, <1>2, AskChanges
  <2>2. c \notin Runs
    BY <2>1 DEF Runs, IsRun
  <2> QED
    BY <1>2, <2>1, <2>2, MatchMove
<1>3. ASSUME NEW o, NEW p, M!SelectNone \/ M!Choose(o, p) PROVE MatchInv'
  <2>1. UNCHANGED <<db, pending>>
    BY <1>3 DEF M!SelectNone, M!Choose
  <2>2. {"auto", "offers"} \subseteq DOMAIN ui' /\ ui'.auto = ui.auto
    <3>1. CASE M!SelectNone
      <4> DEFINE u == [ui EXCEPT !.batch = None, !.offers = {}, !.cands = M!NoCandidates,
                                 !.total = 0, !.matched = 0]
      <4>1. {"auto", "offers"} \subseteq DOMAIN u /\ u.auto = ui.auto
        BY <1>1
      <4>2. ui' = M!Render(u)
        BY <3>1 DEF M!SelectNone
      <4> HIDE DEF u
      <4> QED
        BY <4>1, <4>2, MatchRender
    <3>2. CASE M!Choose(o, p)
      BY <1>1, <3>2 DEF M!Choose
    <3> QED
      BY <1>3, <3>1, <3>2
  <2> QED
    BY <2>1, <2>2 DEF MatchInv, CallsInv, Runs, MatchAnswers
<1>4. ASSUME NEW b, M!SelectBatch(b) PROVE MatchInv'
  <2> DEFINE u == [ui EXCEPT !.batch = b, !.loading = TRUE]
             arg == [batch |-> b, auto |-> FALSE]
  <2>1. {"auto", "offers"} \subseteq DOMAIN u /\ u.auto = ui.auto
    BY <1>1
  <2>2. ui' = M!Render(u) /\ Ask("unmatched", arg) /\ db' = db
    BY <1>4, MatchCalls DEF M!SelectBatch, Ask
  <2>3. ~IsRun("unmatched", arg)
    BY DEF IsRun
  <2> HIDE DEF u, arg
  <2> QED
    BY <1>2, <2>1, <2>2, <2>3, MatchRender
<1>5. CASE M!OnAutoProcess
  <2>1. /\ ~ui.auto /\ Ask("auto", ui.batch) /\ db' = db
        /\ {"auto", "offers"} \subseteq DOMAIN ui' /\ ui'.auto
    BY <1>1, <1>5, MatchCalls DEF M!OnAutoProcess, M!CanAuto
  <2> QED
    BY <1>2, <2>1 DEF IsRun
<1>6. ASSUME NEW o, NEW p, M!ConfirmSelected(o) \/ M!ConfirmFound(o, p) \/ M!CreateFromOffer(o)
      PROVE  MatchInv'
  <2>1. PICK op, arg : op \in {"confirm", "create"} /\ Ask(op, arg)
    BY <1>6, MatchCalls DEF M!ConfirmSelected, M!ConfirmFound, M!CreateFromOffer
  <2>2. /\ {"auto", "offers"} \subseteq DOMAIN ui' /\ ui'.auto = ui.auto /\ db' = db
    BY <1>1, <1>6 DEF M!ConfirmSelected, M!ConfirmFound, M!CreateFromOffer
  <2> QED
    BY <1>2, <2>1, <2>2 DEF IsRun
<1> QED
  BY <1>3, <1>4, <1>5, <1>6 DEF M!UserStep

LEMMA MatchContinue == ASSUME MatchInv, NEW c \in Calls, M!Continue(c) PROVE MatchInv'
<1>1. {"auto", "offers"} \subseteq DOMAIN ui /\ CallsInv /\ (c \in Runs => ui.auto)
  BY DEF MatchInv, OneFor
<1>2. ASSUME Return(c), db' = db, {"auto", "offers"} \subseteq DOMAIN ui',
             c \in Runs => ~ui'.auto, c \notin Runs => (ui'.auto <=> ui.auto)
      PROVE  MatchInv'
  BY <1>1, <1>2, ReturnChanges, MatchMove DEF IsRun, IsMatch
<1>3. ASSUME NEW op, NEW arg, Await(c, op, arg), db' = db,
             {"auto", "offers"} \subseteq DOMAIN ui',
             IsRun(op, arg) <=> c \in Runs, ui'.auto = ui.auto
      PROVE  MatchInv'
  BY <1>1, <1>3, AwaitChanges, MatchMove
<1>4. ASSUME NEW u, M!EndLoad(c, u), {"auto", "offers"} \subseteq DOMAIN u, u.auto = ui.auto,
             c \in Runs <=> pending[c].arg.auto
      PROVE  MatchInv'
  <2> DEFINE v == [u EXCEPT !.loading = FALSE,
                            !.auto = IF pending[c].arg.auto THEN FALSE ELSE u.auto]
  <2>1. /\ {"auto", "offers"} \subseteq DOMAIN v
        /\ c \in Runs => ~v.auto
        /\ c \notin Runs => (v.auto <=> ui.auto)
    BY <1>4
  <2>2. ui' = M!Render(v) /\ Return(c) /\ db' = db
    BY <1>4, MatchCalls DEF M!EndLoad
  <2> HIDE DEF v
  <2> QED
    BY <1>2, <2>1, <2>2, MatchRender
<1>5. CASE M!OnUnmatched(c)
  <2> DEFINE d == pending[c].ans
             u == [ui EXCEPT !.offers = d.offers, !.total = d.total, !.matched = d.matched]
             arg == [list |-> d.offers, auto |-> pending[c].arg.auto]
             w == [u EXCEPT !.cands = M!NoCandidates]
  <2>1. c \in Runs <=> pending[c].arg.auto
    BY <1>5 DEF M!OnUnmatched, Runs, IsRun
  <2>2. /\ {"auto", "offers"} \subseteq DOMAIN u /\ u.auto = ui.auto
        /\ {"auto", "offers"} \subseteq DOMAIN w /\ w.auto = ui.auto
    BY <1>1
  <2>3. IsRun("suggest", arg) <=> pending[c].arg.auto
    BY DEF IsRun
  <2>4. \/ ui' = M!Render(u) /\ Await(c, "suggest", arg) /\ db' = db
        \/ M!EndLoad(c, w)
    BY <1>5, MatchCalls DEF M!OnUnmatched
  <2> HIDE DEF u, w, arg
  <2> QED
    BY <1>3, <1>4, <2>1, <2>2, <2>3, <2>4, MatchRender
<1>6. CASE M!OnSuggest(c)
  <2> DEFINE u == [ui EXCEPT !.cands = pending[c].ans]
  <2>1. c \in Runs <=> pending[c].arg.auto
    BY <1>6 DEF M!OnSuggest, Runs, IsRun
  <2>2. {"auto", "offers"} \subseteq DOMAIN u /\ u.auto = ui.auto
    BY <1>1
  <2>3. M!EndLoad(c, u)
    BY <1>6 DEF M!OnSuggest
  <2> HIDE DEF u
  <2> QED
    BY <1>4, <2>1, <2>2, <2>3
<1>7. CASE M!OnLoadError(c)
  <2>1. c \in Runs <=> pending[c].arg.auto
    BY <1>7 DEF M!OnLoadError, Runs, IsRun
  <2> QED
    BY <1>1, <1>4, <1>7, <2>1 DEF M!OnLoadError
<1>8. CASE M!OnAuto(c)
  <2>1. c \in Runs
    BY <1>8 DEF M!OnAuto, Runs, IsRun
  <2>2. CASE M!Ok(c)
    <3> DEFINE u == [ui EXCEPT !.loading = TRUE]
               arg == [batch |-> pending[c].arg, auto |-> TRUE]
    <3>1. {"auto", "offers"} \subseteq DOMAIN u /\ u.auto = ui.auto
      BY <1>1
    <3>2. ui' = M!Render(u) /\ Await(c, "unmatched", arg) /\ db' = db
      BY <1>8, <2>2, MatchCalls DEF M!OnAuto
    <3>3. IsRun("unmatched", arg)
      BY DEF IsRun
    <3> HIDE DEF u, arg
    <3> QED
      BY <1>3, <2>1, <3>1, <3>2, <3>3, MatchRender
  <2>3. CASE ~M!Ok(c)
    BY <1>1, <1>2, <1>8, <2>1, <2>3, MatchCalls DEF M!OnAuto
  <2> QED
    BY <2>2, <2>3
<1>9. CASE M!OnDone(c) \/ M!OnMatchError(c)
  <2>1. c \notin Runs
    BY <1>9 DEF M!OnDone, M!OnMatchError, Runs, IsRun
  <2>2. Return(c) /\ db' = db
    BY <1>9, MatchCalls DEF M!OnDone, M!OnMatchError
  <2>3. {"auto", "offers"} \subseteq DOMAIN ui' /\ ui'.auto = ui.auto
    <3>1. CASE M!OnDone(c)
      <4> DEFINE u == [ui EXCEPT !.offers = ui.offers \ {pending[c].arg.offer},
                                 !.matched = ui.matched + 1]
      <4>1. {"auto", "offers"} \subseteq DOMAIN u /\ u.auto = ui.auto
        BY <1>1
      <4>2. ui' = M!Render(u)
        BY <3>1 DEF M!OnDone
      <4> HIDE DEF u
      <4> QED
        BY <4>1, <4>2, MatchRender
    <3>2. CASE M!OnMatchError(c)
      BY <1>1, <3>2 DEF M!OnMatchError
    <3> QED
      BY <1>9, <3>1, <3>2
  <2> QED
    BY <1>2, <2>1, <2>2, <2>3
<1> QED
  BY <1>5, <1>6, <1>7, <1>8, <1>9 DEF M!Continue

LEMMA MatchNext == ASSUME MatchInv, M!Next PROVE MatchInv'
BY MatchUser, MatchServe, MatchContinue DEF M!Next, M!Calls, Calls

LEMMA MatchOneRun == ASSUME MatchInv PROVE M!OneRunAtATime
<1>1. Cardinality(Runs) <= 1 /\ (ui.auto <=> Runs # {})
  BY SingleIsOne DEF MatchInv, OneFor
<1>2. Runs = {c \in M!Calls :
                \/ pending[c].op = "auto"
                \/ pending[c].op \in {"unmatched", "suggest"} /\ pending[c].arg.auto}
  BY DEF Runs, IsRun, M!Calls, Calls
<1>3. M!Cardinality(Runs) = Cardinality(Runs)
  BY DEF M!Cardinality, Cardinality
<1>4. M!Cardinality(Runs) <= 1
  BY <1>1, <1>3
<1> HIDE DEF Runs
<1> QED
  BY <1>1, <1>2, <1>4 DEF M!OneRunAtATime

\* Only the handler of a match ends it, and it drops the row if all went well.
LEMMA MatchDone == ASSUME MatchInv, M!Next PROVE M!DoneIsMatched
<1> SUFFICES ASSUME NEW c \in Calls, IsMatch(pending[c].op), pending'[c].op = "none",
                    pending[c].arg.offer \in ui.offers \ ui'.offers
             PROVE  pending[c].arg.offer \in db
  BY DEF M!DoneIsMatched, M!Calls, M!Idle, Calls, IsMatch
<1>1. CallsInv /\ {"auto", "offers"} \subseteq DOMAIN ui
  BY DEF MatchInv
<1>2. ASSUME NEW op, NEW arg, Ask(op, arg) PROVE FALSE
  <2>1. PICK d \in Calls : pending[d].op = "none" /\ Becomes(d, op, arg)
    BY <1>1, <1>2, AskChanges
  <2>2. d # c
    BY <2>1 DEF IsMatch
  <2> QED
    BY <2>1, <2>2 DEF Becomes, IsMatch
<1>3. CASE M!UserStep
  <2>1. CASE UNCHANGED pending
    BY <2>1 DEF IsMatch
  <2>2. CASE ~UNCHANGED pending
    <3>1. \E op, arg : Ask(op, arg)
      BY <1>3, <2>2, MatchCalls
      DEF M!UserStep, M!SelectBatch, M!SelectNone, M!OnAutoProcess, M!Choose,
          M!ConfirmSelected, M!ConfirmFound, M!CreateFromOffer, Ask
    <3> QED
      BY <1>2, <3>1
  <2> QED
    BY <2>1, <2>2
<1>4. ASSUME NEW d \in Calls, M!Serve(d) PROVE FALSE
  <2>1. ui' = ui
    BY <1>4 DEF M!Serve, M!ServeUnmatched, M!ServeSuggest, M!ServeMatch, M!ServeAuto,
                M!RefuseCall
  <2> QED
    BY <2>1
<1>5. ASSUME NEW d \in Calls, M!Continue(d) PROVE pending[c].arg.offer \in db
  <2>1. CASE d # c
    <3>1. pending'[c] = pending[c]
      <4>1. \E op, arg : Return(d) \/ Await(d, op, arg)
        BY <1>5, MatchCalls
        DEF M!Continue, M!OnUnmatched, M!OnSuggest, M!OnLoadError, M!OnAuto, M!OnDone,
            M!OnMatchError, M!EndLoad
      <4> QED
        BY <1>1, <2>1, <4>1, ReturnChanges, AwaitChanges DEF Becomes
    <3> QED
      BY <3>1 DEF IsMatch
  <2>2. CASE d = c
    <3>1. M!OnDone(c) \/ M!OnMatchError(c)
      BY <1>5, <2>2 DEF IsMatch, M!Continue, M!OnUnmatched, M!OnSuggest, M!OnLoadError,
                        M!OnAuto, M!OnDone, M!OnMatchError
    <3>2. CASE M!OnDone(c)
      BY <3>2 DEF M!OnDone, M!Ok, M!Answered, MatchInv, MatchAnswers
    <3>3. CASE M!OnMatchError(c)
      <4>1. ui'.offers = ui.offers
        BY <1>1, <3>3 DEF M!OnMatchError
      <4> QED
        BY <4>1
    <3> QED
      BY <3>1, <3>2, <3>3
  <2> QED
    BY <2>1, <2>2
<1> QED
  BY <1>3, <1>4, <1>5 DEF M!Next, M!Calls, Calls

----------------------------------------------------------------------------
(* The dialog of a wipe *)

\* What the form says while the dialog is open was entered since it was opened.
WipeInv ==
  /\ {"open", "form", "busy", "entered"} \subseteq DOMAIN ui
  /\ {ui.form, ui.entered} \subseteq [word : BOOLEAN, suppliers : BOOLEAN]
  /\ ui.open => /\ ui.form.word => ui.entered.word
                /\ ui.form.suppliers => ui.entered.suppliers
  /\ ~ui.open => ui.form = W!Nothing

LEMMA WipeNext == ASSUME WipeInv, [W!Next]_<<ui, db, pending>> PROVE WipeInv'
<1> DEFINE Fields == {"open", "form", "busy", "entered"}
           Forms == [word : BOOLEAN, suppliers : BOOLEAN]
<1>1. /\ Fields \subseteq DOMAIN ui /\ ui.form \in Forms /\ ui.entered \in Forms
  BY DEF WipeInv
<1>2. W!Nothing \in Forms /\ ~W!Nothing.word /\ ~W!Nothing.suppliers
  BY DEF W!Nothing
<1>3. ASSUME Fields \subseteq DOMAIN ui', ui'.form = W!Nothing,
             ui'.entered = ui.entered \/ ui'.entered = W!Nothing
      PROVE  WipeInv'
  <2> HIDE DEF Forms
  <2>1. ui'.form \in Forms /\ ui'.entered \in Forms
    BY <1>1, <1>2, <1>3
  <2>2. ~ui'.form.word /\ ~ui'.form.suppliers
    BY <1>2, <1>3
  <2> QED
    BY <1>3, <2>1, <2>2 DEF WipeInv, Forms
<1>4. CASE W!Open
  <2>1. /\ Fields \subseteq DOMAIN ui' /\ ui'.form = ui.form /\ ui'.entered = W!Nothing
    BY <1>1, <1>4 DEF W!Open
  <2> QED
    BY <1>3, <1>4, <2>1 DEF W!Open, WipeInv
<1>5. CASE W!Close
  <2>1. Fields \subseteq DOMAIN ui' /\ ui'.form = W!Nothing /\ ui'.entered = ui.entered
    BY <1>1, <1>5 DEF W!Close
  <2> QED
    BY <1>3, <2>1
<1>6. ASSUME NEW c, W!OnWiped(c) PROVE WipeInv'
  <2>1. Fields \subseteq DOMAIN ui' /\ ui'.form = W!Nothing /\ ui'.entered = W!Nothing
    BY <1>6 DEF W!OnWiped, W!Blank
  <2> QED
    BY <1>3, <2>1
<1>7. ASSUME NEW right \in BOOLEAN, W!TypeWord(right) PROVE WipeInv'
  <2>1. /\ ui.open /\ Fields \subseteq DOMAIN ui' /\ ui'.open = ui.open
        /\ ui'.form = [ui.form EXCEPT !.word = right]
        /\ ui'.entered = [ui.entered EXCEPT !.word = right]
    BY <1>1, <1>7 DEF W!TypeWord
  <2>2. /\ ui'.form \in Forms /\ ui'.entered \in Forms
        /\ ui'.form.word = right /\ ui'.form.suppliers = ui.form.suppliers
        /\ ui'.entered.word = right /\ ui'.entered.suppliers = ui.entered.suppliers
    BY <1>1, <2>1
  <2>3. ui.form.suppliers => ui.entered.suppliers
    BY <2>1 DEF WipeInv
  <2> QED
    BY <2>1, <2>2, <2>3 DEF WipeInv
<1>8. CASE W!TickSuppliers
  <2> DEFINE tick == ~ui.form.suppliers
  <2>1. /\ ui.open /\ Fields \subseteq DOMAIN ui' /\ ui'.open = ui.open
        /\ ui'.form = [ui.form EXCEPT !.suppliers = tick]
        /\ ui'.entered = [ui.entered EXCEPT !.suppliers = tick]
    BY <1>1, <1>8 DEF W!TickSuppliers
  <2>2. tick \in BOOLEAN
    OBVIOUS
  <2> HIDE DEF tick
  <2>3. /\ ui'.form \in Forms /\ ui'.entered \in Forms
        /\ ui'.form.suppliers = tick /\ ui'.form.word = ui.form.word
        /\ ui'.entered.suppliers = tick /\ ui'.entered.word = ui.entered.word
    BY <1>1, <2>1, <2>2
  <2>4. ui.form.word => ui.entered.word
    BY <2>1 DEF WipeInv
  <2> QED
    BY <2>1, <2>3, <2>4 DEF WipeInv
<1>9. ASSUME Fields \subseteq DOMAIN ui', ui'.open = ui.open, ui'.form = ui.form,
             ui'.entered = ui.entered
      PROVE  WipeInv'
  BY <1>9 DEF WipeInv
<1>10. ASSUME NEW c, W!OnWipe \/ W!OnWipeError(c) \/ W!Serve(c) PROVE WipeInv'
  BY <1>1, <1>9, <1>10 DEF W!OnWipe, W!OnWipeError, W!Serve, W!ServeImports,
                           W!ServeCatalog, W!RefuseCall
<1>11. CASE UNCHANGED <<ui, db, pending>>
  BY <1>1, <1>9, <1>11
<1> QED
  BY <1>4, <1>5, <1>6, <1>7, <1>8, <1>10, <1>11 DEF W!Next, W!Continue, W!Calls, Calls

LEMMA WipeInit == ASSUME W!Init PROVE WipeInv
BY DEF W!Init, W!Blank, W!Nothing, WipeInv

LEMMA WipeEntered == ASSUME WipeInv PROVE W!WipeIsEnteredAnew
BY DEF WipeInv, W!WipeIsEnteredAnew, W!CanWipe

----------------------------------------------------------------------------
(* Suppliers: the panel of one, which saves or deletes *)

SupplierFlags == {"editSaving", "deleting"}
SuppliersInv ==
  /\ CallsInv /\ SupplierFlags \subseteq DOMAIN ui
  /\ OneFor(Of("save"), ui.editSaving)
  /\ OneFor(Of("delete"), ui.deleting)
  /\ ~(ui.editSaving /\ ui.deleting)

LEMMA SuppliersCalls ==
  /\ \A op, arg : V!Ask(op, arg) => Ask(op, arg)
  /\ \A c, op, arg : V!Await(c, op, arg) => Await(c, op, arg)
  /\ \A c : V!Return(c) => Return(c)
BY DEF V!Ask, V!CanCall, V!NextCall, V!Idle, V!Calls, V!Await, V!Request, V!Return,
       V!NoCall, Ask, CanCall, NextCall, Idle, Calls, Await, Request, Return, NoCall

LEMMA SuppliersInit == ASSUME V!Init PROVE SuppliersInv
<1>1. pending = Opening(<<Request("load", "page")>>)
  BY DEF V!Init, V!Opening, V!Request, V!NoCall, V!Calls, Opening, Request, NoCall, Calls
<1>2. CallsInv /\ Of("save") = {} /\ Of("delete") = {}
  BY <1>1, OpeningIsCalls DEF Of, IsOf
<1>3. SupplierFlags \subseteq DOMAIN ui /\ ~ui.editSaving /\ ~ui.deleting
  BY DEF V!Init, SupplierFlags
<1> QED
  BY <1>2, <1>3 DEF SuppliersInv, OneFor, Single

LEMMA SuppliersStill ==
  ASSUME SuppliersInv, CallsInv', SameCalls, DOMAIN ui' = DOMAIN ui,
         ui'.editSaving = ui.editSaving, ui'.deleting = ui.deleting
  PROVE  SuppliersInv'
BY OfStays DEF SuppliersInv

LEMMA SuppliersServe == ASSUME SuppliersInv, NEW c \in Calls, V!Serve(c) PROVE SuppliersInv'
<1>1. ui' = ui /\ \E a : pending' = [pending EXCEPT ![c].ans = a]
  BY DEF V!Serve, V!ServeList, V!ServeCreate, V!ServeSave, V!ServeDelete, V!RefuseCall,
         V!Reply, V!Refuse
<1>2. CallsInv' /\ SameCalls
  BY <1>1, AnswerChanges DEF SuppliersInv
<1> QED
  BY <1>1, <1>2, SuppliersStill

LEMMA SuppliersUser == ASSUME SuppliersInv, V!UserStep PROVE SuppliersInv'
<1>1. {"editSaving", "deleting"} \subseteq DOMAIN ui /\ CallsInv
  BY DEF SuppliersInv, SupplierFlags
<1>2. ASSUME NEW s, V!StartEdit(s) \/ V!CloseEdit \/ V!TurnPage PROVE SuppliersInv'
  <2>1. /\ DOMAIN ui' = DOMAIN ui /\ UNCHANGED pending
        /\ ui'.editSaving = ui.editSaving /\ ui'.deleting = ui.deleting
    BY <1>1, <1>2 DEF V!StartEdit, V!CloseEdit, V!TurnPage
  <2> QED
    BY <1>1, <2>1, SuppliersStill DEF CallsInv, SameCalls
<1>3. ASSUME NEW op, NEW arg, Ask(op, arg), op # "load", DOMAIN ui' = DOMAIN ui,
             op = "save" => ~ui.editSaving /\ ~ui.deleting /\ ui'.editSaving,
             op = "delete" => ~ui.editSaving /\ ~ui.deleting /\ ui'.deleting,
             op # "save" => ui'.editSaving = ui.editSaving,
             op # "delete" => ui'.deleting = ui.deleting
      PROVE  SuppliersInv'
  <2>1. PICK c \in Calls : pending[c].op = "none" /\ Becomes(c, op, arg) /\ CallsInv'
    BY <1>1, <1>3, AskChanges
  <2>2. \A for \in {"save", "delete"} : c \notin Of(for) /\ (IsOf(op, arg, for) <=> op = for)
    BY <1>3, <2>1 DEF Of, IsOf
  <2>3. OneFor(Of("save")', ui'.editSaving)
    BY <1>3, <2>1, <2>2, OfFollows DEF SuppliersInv
  <2>4. OneFor(Of("delete")', ui'.deleting)
    BY <1>3, <2>1, <2>2, OfFollows DEF SuppliersInv
  <2>5. ~(ui'.editSaving /\ ui'.deleting)
    BY <1>3 DEF SuppliersInv
  <2> QED
    BY <1>1, <1>3, <2>1, <2>3, <2>4, <2>5 DEF SuppliersInv
<1>4. CASE V!OnCreate
  BY <1>1, <1>3, <1>4, SuppliersCalls DEF V!OnCreate
<1>5. CASE V!OnSaveEdit
  BY <1>1, <1>3, <1>5, SuppliersCalls DEF V!OnSaveEdit, V!CanPress
<1>6. CASE V!OnDelete
  BY <1>1, <1>3, <1>6, SuppliersCalls DEF V!OnDelete, V!CanPress
<1> QED
  BY <1>2, <1>4, <1>5, <1>6 DEF V!UserStep

LEMMA SuppliersContinue ==
  ASSUME SuppliersInv, NEW c \in Calls, V!Continue(c) PROVE SuppliersInv'
<1> DEFINE is(for) == IsOf(pending[c].op, pending[c].arg, for)
<1>1. /\ {"editSaving", "deleting"} \subseteq DOMAIN ui /\ CallsInv
      /\ is("save") => ui.editSaving
      /\ is("delete") => ui.deleting
      /\ \A for : is(for) <=> c \in Of(for)
  BY DEF SuppliersInv, SupplierFlags, OneFor, Of
<1>2. ASSUME NEW op, NEW arg, Becomes(c, op, arg), CallsInv', DOMAIN ui' = DOMAIN ui,
             \A for \in {"save", "delete"} : IsOf(op, arg, for) => is(for),
             ui'.editSaving <=> ui.editSaving /\ (is("save") => IsOf(op, arg, "save")),
             ui'.deleting <=> ui.deleting /\ (is("delete") => IsOf(op, arg, "delete"))
      PROVE  SuppliersInv'
  <2> HIDE DEF is
  <2>1. /\ IsOf(op, arg, "save") => c \in Of("save") /\ ui'.editSaving
        /\ c \in Of("save") /\ ~IsOf(op, arg, "save") => ~ui'.editSaving
        /\ c \notin Of("save") /\ ~IsOf(op, arg, "save") => (ui'.editSaving <=> ui.editSaving)
    BY <1>1, <1>2
  <2>2. /\ IsOf(op, arg, "delete") => c \in Of("delete") /\ ui'.deleting
        /\ c \in Of("delete") /\ ~IsOf(op, arg, "delete") => ~ui'.deleting
        /\ c \notin Of("delete") /\ ~IsOf(op, arg, "delete") => (ui'.deleting <=> ui.deleting)
    BY <1>1, <1>2
  <2>3. OneFor(Of("save")', ui'.editSaving)
    BY <1>2, <2>1, OfFollows DEF SuppliersInv
  <2>4. OneFor(Of("delete")', ui'.deleting)
    BY <1>2, <2>2, OfFollows DEF SuppliersInv
  <2>5. ~(ui'.editSaving /\ ui'.deleting)
    BY <1>2 DEF SuppliersInv
  <2> QED
    BY <1>1, <1>2, <2>3, <2>4, <2>5 DEF SuppliersInv, SupplierFlags
<1>3. ASSUME NEW u, NEW for, ui' = V!Ended(u, for), Return(c), DOMAIN u = DOMAIN ui,
             u.editSaving = ui.editSaving, u.deleting = ui.deleting,
             is("save") <=> for = "save", is("delete") <=> for = "delete"
      PROVE  SuppliersInv'
  <2>1. Becomes(c, "none", None) /\ CallsInv'
    BY <1>1, <1>3, ReturnChanges
  <2>2. /\ DOMAIN ui' = DOMAIN ui
        /\ ui'.editSaving = IF for = "save" THEN FALSE ELSE ui.editSaving
        /\ ui'.deleting = IF for = "delete" THEN FALSE ELSE ui.deleting
    BY <1>1, <1>3 DEF V!Ended
  <2>3. ~IsOf("none", None, "save") /\ ~IsOf("none", None, "delete")
    BY DEF IsOf
  <2>4. ui'.editSaving <=> ui.editSaving /\ ~is("save")
    BY <1>3, <2>2
  <2>5. ui'.deleting <=> ui.deleting /\ ~is("delete")
    BY <1>3, <2>2
  <2> HIDE DEF is
  <2> QED
    BY <1>2, <2>1, <2>2, <2>3, <2>4, <2>5
<1>4. CASE V!OnLoad(c) \/ V!OnLoadError(c)
  <2>1. is("save") <=> pending[c].arg = "save"
    BY <1>4 DEF V!OnLoad, V!OnLoadError, IsOf
  <2>2. is("delete") <=> pending[c].arg = "delete"
    BY <1>4 DEF V!OnLoad, V!OnLoadError, IsOf
  <2>3. PICK u : /\ ui' = V!Ended(u, pending[c].arg) /\ Return(c)
                 /\ DOMAIN u = DOMAIN ui
                 /\ u.editSaving = ui.editSaving /\ u.deleting = ui.deleting
    <3>1. CASE V!OnLoad(c)
      <4> DEFINE u == [ui EXCEPT !.loading = FALSE, !.list = pending[c].ans,
                                 !.table = V!Refreshed(ui.table)]
      <4>1. DOMAIN u = DOMAIN ui /\ u.editSaving = ui.editSaving /\ u.deleting = ui.deleting
        BY <1>1
      <4> QED
        BY <3>1, <4>1, SuppliersCalls DEF V!OnLoad
    <3>2. CASE V!OnLoadError(c)
      <4> DEFINE u == [ui EXCEPT !.loading = FALSE, !.table = V!Uncovered(ui.table)]
      <4>1. DOMAIN u = DOMAIN ui /\ u.editSaving = ui.editSaving /\ u.deleting = ui.deleting
        BY <1>1
      <4> QED
        BY <3>2, <4>1, SuppliersCalls DEF V!OnLoadError
    <3> QED
      BY <1>4, <3>1, <3>2
  <2> HIDE DEF is
  <2> QED
    BY <1>3, <2>1, <2>2, <2>3
<1>5. CASE V!OnError(c)
  <2>1. (is("save") <=> pending[c].op = "save") /\ (is("delete") <=> pending[c].op = "delete")
    BY <1>5 DEF V!OnError, IsOf
  <2> HIDE DEF is
  <2> QED
    BY <1>3, <1>5, <2>1, SuppliersCalls DEF V!OnError
<1>6. CASE V!OnDone(c)
  <2> DEFINE op == pending[c].op
  <2>1. op # "load" /\ Await(c, "load", op)
    BY <1>6, SuppliersCalls DEF V!OnDone
  <2>2. Becomes(c, "load", op) /\ CallsInv'
    BY <1>1, <2>1, AwaitChanges
  <2>3. \A for \in {"save", "delete"} : is(for) <=> IsOf("load", op, for)
    BY <2>1 DEF IsOf
  <2>4. DOMAIN ui' = DOMAIN ui /\ ui'.editSaving = ui.editSaving /\ ui'.deleting = ui.deleting
    BY <1>1, <1>6 DEF V!OnDone
  <2> HIDE DEF is
  <2> QED
    BY <1>2, <2>2, <2>3, <2>4
<1> QED
  BY <1>4, <1>5, <1>6 DEF V!Continue

LEMMA SuppliersNext == ASSUME SuppliersInv, V!Next PROVE SuppliersInv'
BY SuppliersUser, SuppliersServe, SuppliersContinue DEF V!Next, V!Calls, Calls

LEMMA SuppliersOneCall == ASSUME SuppliersInv PROVE V!OneCallOfPanel
<1> DEFINE OfPanel == Of("save") \cup Of("delete")
<1>1. ui.editSaving \/ ui.deleting <=> OfPanel # {}
  BY DEF SuppliersInv, OneFor
<1>2. Single(OfPanel)
  BY DEF SuppliersInv, OneFor, Single
<1>3. V!Cardinality(OfPanel) <= 1
  <2>1. V!Cardinality(OfPanel) = Cardinality(OfPanel)
    BY DEF V!Cardinality, Cardinality
  <2> HIDE DEF OfPanel
  <2> QED
    BY <1>2, <2>1, SingleIsOne
<1>4. OfPanel = {c \in V!Calls :
                   \/ pending[c].op \in {"save", "delete"}
                   \/ /\ pending[c].op = "load"
                      /\ pending[c].arg \in {"save", "delete"}}
  BY DEF Of, IsOf, V!Calls, Calls
<1> HIDE DEF OfPanel
<1> QED
  BY <1>1, <1>3, <1>4 DEF V!OneCallOfPanel

----------------------------------------------------------------------------
(* All the panels of the portal *)

PanelsInv ==
  /\ page = "edit" => EditInv
  /\ page = "photos" => PhotosInv
  /\ page = "matching" => MatchInv
  /\ page = "wipe" => WipeInv
  /\ page = "suppliers" => SuppliersInv

LEMMA PanelsInit == Init => PanelsInv
BY EditInit, PhotosInit, MatchInit, WipeInit, SuppliersInit DEF Init, PanelsInv

LEMMA PanelsNext == PanelsInv /\ [Next]_vars => PanelsInv'
<1> SUFFICES ASSUME PanelsInv, [Next]_vars PROVE PanelsInv'
  OBVIOUS
<1>1. CASE Next
  <2>1. page' = page
    BY <1>1 DEF Next
  <2>2. /\ page = "edit" => E!Next
        /\ page = "photos" => F!Next
        /\ page = "matching" => M!Next
        /\ page = "wipe" => W!Next
        /\ page = "suppliers" => V!Next
    BY <1>1 DEF Next
  <2>3. page = "edit" => EditInv'
    BY <2>2, EditNext DEF PanelsInv
  <2>4. page = "photos" => PhotosInv'
    BY <2>2, PhotosNext DEF PanelsInv
  <2>5. page = "matching" => MatchInv'
    BY <2>2, MatchNext DEF PanelsInv
  <2>6. page = "wipe" => WipeInv'
    BY <2>2, WipeNext DEF PanelsInv
  <2>7. page = "suppliers" => SuppliersInv'
    BY <2>2, SuppliersNext DEF PanelsInv
  <2> QED
    BY <2>1, <2>3, <2>4, <2>5, <2>6, <2>7 DEF PanelsInv
<1>2. CASE UNCHANGED vars
  BY <1>2 DEF vars, PanelsInv, EditInv, PhotosInv, MatchInv, WipeInv, SuppliersInv, CallsInv,
              Working, Idle, Changes, Runs, MatchAnswers, Of
<1> QED
  BY <1>1, <1>2

\* A panel is one component for all the cards, or all the suppliers, and does
\* not save and delete at the same time, nor twice, even if it is closed and
\* opened for another while its call is under way.
THEOREM PanelsCallOnce == Spec => []OneCallOfPanel
<1>1. PanelsInv => OneCallOfPanel
  BY EditOneCall, SuppliersOneCall DEF PanelsInv, OneCallOfPanel
<1> QED
  BY <1>1, PanelsInit, PanelsNext, PTL DEF Spec

\* A card is deleted after a question about that card, whatever answer of
\* another card's call came since the question.
THEOREM DeletionIsAsked == Spec => []AskedBeforeDelete
<1>1. PanelsInv => AskedBeforeDelete
  BY EditAsked DEF PanelsInv, AskedBeforeDelete
<1> QED
  BY <1>1, PanelsInit, PanelsNext, PTL DEF Spec

\* An upload or a deletion of photos is not started next to another, the loads
\* of a panel that was opened again included.
THEOREM PhotosChangeOneByOne == Spec => []OneChangeAtATime
<1>1. PanelsInv => OneChangeAtATime
  BY PhotosOneChange DEF PanelsInv, OneChangeAtATime
<1> QED
  BY <1>1, PanelsInit, PanelsNext, PTL DEF Spec

\* The page of matching has one automatic run under way, whatever batches are
\* selected meanwhile: what OneRunMakesNoDuplicates (MatchingProofs) asks of
\* whoever starts the runs.
THEOREM PageRunsOnce == Spec => []OneRunAtATime
<1>1. PanelsInv => OneRunAtATime
  BY MatchOneRun DEF PanelsInv, OneRunAtATime
<1> QED
  BY <1>1, PanelsInit, PanelsNext, PTL DEF Spec

\* A row that its handler takes from the list of unmatched rows has its match in
\* the catalogue.
THEOREM DroppedRowsAreMatched == Spec => DoneIsMatched
<1>1. PanelsInv /\ [Next]_vars => [page = "matching" => M!DoneIsMatched]_vars
  <2> SUFFICES ASSUME PanelsInv, Next, page = "matching" PROVE M!DoneIsMatched
    OBVIOUS
  <2>1. MatchInv /\ M!Next
    BY DEF PanelsInv, Next
  <2> QED
    BY <2>1, MatchDone
<1> QED
  BY <1>1, PanelsInit, PanelsNext, PTL DEF Spec, DoneIsMatched

\* Whoever wipes has typed the word in the dialog that sends it, and the
\* suppliers go only with a tick made in it.
THEOREM WipeIsConfirmed == Spec => []WipeIsEnteredAnew
<1>1. PanelsInv => WipeIsEnteredAnew
  BY WipeEntered DEF PanelsInv, WipeIsEnteredAnew
<1> QED
  BY <1>1, PanelsInit, PanelsNext, PTL DEF Spec
=============================================================================
