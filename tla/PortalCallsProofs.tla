-------------------------- MODULE PortalCallsProofs --------------------------
(* What the pages send, for any number of handlers that wait and any data:   *)
(* a form is sent once for a press, and what must not run twice does not.    *)
(* Each proof follows a set of calls, those of one form, from the press to   *)
(* the end of the handler, next to the flag that disables the button.        *)
EXTENDS Portal, FiniteSetTheorems, TLAPS

----------------------------------------------------------------------------
(* Calls *)

\* Every entry says what was asked, of what, and what came of it.
CallsInv ==
  /\ DOMAIN pending = Calls
  /\ \A c \in Calls : {"op", "arg", "ans"} \subseteq DOMAIN pending[c]

\* The entry of c, and only that, is a new one.
Becomes(c, op, arg) ==
  /\ pending'[c].op = op /\ pending'[c].arg = arg
  /\ \A d \in Calls \ {c} : pending'[d] = pending[d]

\* Every call is for what it was for.
SameCalls ==
  \A c \in Calls : pending'[c].op = pending[c].op /\ pending'[c].arg = pending[c].arg

LEMMA EntryChanges ==
  ASSUME CallsInv, NEW c \in Calls, NEW op, NEW arg, NEW ans,
         pending' = [pending EXCEPT ![c] = [op |-> op, arg |-> arg, ans |-> ans]]
  PROVE  CallsInv' /\ Becomes(c, op, arg)
BY DEF CallsInv, Becomes

LEMMA AnswerChanges ==
  ASSUME CallsInv, NEW c \in Calls, NEW a, pending' = [pending EXCEPT ![c].ans = a]
  PROVE  CallsInv' /\ SameCalls
BY DEF CallsInv, SameCalls

\* A new handler takes an entry in which nobody waits.
LEMMA AskChanges ==
  ASSUME CallsInv, NEW op, NEW arg, Ask(op, arg)
  PROVE  \E c \in Calls : /\ pending[c].op = "none" /\ Becomes(c, op, arg)
                          /\ pending'[c].ans = Sent /\ CallsInv'
<1>1. NextCall \in Calls /\ pending[NextCall].op = "none"
  BY DEF Ask, CanCall, NextCall, Idle
<1>2. pending' = [pending EXCEPT ![NextCall] = [op |-> op, arg |-> arg, ans |-> Sent]]
  BY DEF Ask, Await, Request
<1> HIDE DEF NextCall
<1>3. pending'[NextCall].ans = Sent
  BY <1>1, <1>2 DEF CallsInv
<1> QED
  BY <1>1, <1>2, <1>3, EntryChanges

LEMMA AwaitChanges ==
  ASSUME CallsInv, NEW c \in Calls, NEW op, NEW arg, Await(c, op, arg)
  PROVE  CallsInv' /\ Becomes(c, op, arg) /\ pending'[c].ans = Sent
<1>1. pending' = [pending EXCEPT ![c] = [op |-> op, arg |-> arg, ans |-> Sent]]
  BY DEF Await, Request
<1>2. pending'[c].ans = Sent
  BY <1>1 DEF CallsInv
<1> QED
  BY <1>1, <1>2, EntryChanges

LEMMA ReturnChanges ==
  ASSUME CallsInv, NEW c \in Calls, Return(c)
  PROVE  CallsInv' /\ Becomes(c, "none", None)
BY EntryChanges DEF Return, NoCall

LEMMA OpeningIsCalls ==
  ASSUME NEW op, NEW arg, pending = Opening(<<Request(op, arg)>>)
  PROVE  /\ CallsInv
         /\ \A c \in Calls :
              \/ pending[c].op = "none" /\ pending[c].arg = None
              \/ pending[c].op = op /\ pending[c].arg = arg
BY DEF CallsInv, Opening, Request, NoCall

----------------------------------------------------------------------------
(* One call at a time, and its flag *)

Single(X) == \A c, d \in X : c = d
OneFor(X, flag) == Single(X) /\ (flag <=> X # {})

\* One call joins the set, leaves it, or does neither, and the flag goes with it:
\* it joins when the flag was down, and whoever leaves lowers it.
Follows(X, Y, c, f, g) ==
  /\ Y \ {c} = X \ {c}
  /\ c \in Y => (c \in X \/ ~f) /\ g
  /\ c \in X /\ c \notin Y => ~g
  /\ c \notin X /\ c \notin Y => (g <=> f)

LEMMA OneFollows ==
  ASSUME NEW X, NEW Y, NEW c, NEW f, NEW g, OneFor(X, f), Follows(X, Y, c, f, g)
  PROVE  OneFor(Y, g)
BY DEF OneFor, Single, Follows

LEMMA SingleIsOne ==
  ASSUME NEW X, Single(X)
  PROVE  Cardinality(X) <= 1
<1>1. CASE X = {}
  BY <1>1, FS_EmptySet
<1>2. CASE X # {}
  <2>1. PICK c \in X : TRUE
    BY <1>2
  <2>2. X = {c}
    BY DEF Single
  <2> QED
    BY <2>2, FS_Singleton
<1> QED
  BY <1>1, <1>2

\* The pages count as the library does.
LEMMA PagesCount ==
  /\ \A X : K!Cardinality(X) = Cardinality(X)
  /\ \A X : U!Cardinality(X) = Cardinality(X)
  /\ \A X : S!Cardinality(X) = Cardinality(X)
<1>1. \A X : K!Cardinality(X) = Cardinality(X)
  BY DEF K!Cardinality, Cardinality
<1>2. \A X : U!Cardinality(X) = Cardinality(X)
  BY DEF U!Cardinality, Cardinality
<1>3. \A X : S!Cardinality(X) = Cardinality(X)
  BY DEF S!Cardinality, Cardinality
<1> QED
  BY <1>1, <1>2, <1>3

----------------------------------------------------------------------------
(* Price lists: a preview or an import *)

IsUpload(op, arg) ==
  \/ op \in {"preview", "import"}
  \/ op = "batches" /\ arg # None
  \/ op = "offers" /\ arg.import
Uploads == {c \in Calls : IsUpload(pending[c].op, pending[c].arg)}

\* The batch of an import is what its handler goes on with.
ImportAnswers ==
  \A c \in Calls :
    pending[c].op = "import" => pending[c].ans \in Batches \cup {Sent, Failed}

ImportsInv ==
  /\ CallsInv /\ "busy" \in DOMAIN ui
  /\ ImportAnswers
  /\ OneFor(Uploads, ui.busy)

LEMMA ImportsCalls ==
  /\ \A op, arg : I!Ask(op, arg) => Ask(op, arg)
  /\ \A c, op, arg : I!Await(c, op, arg) => Await(c, op, arg)
  /\ \A c : I!Return(c) => Return(c)
BY DEF I!Ask, I!CanCall, I!NextCall, I!Idle, I!Calls, I!Await, I!Request, I!Return,
       I!NoCall, Ask, CanCall, NextCall, Idle, Calls, Await, Request, Return, NoCall

LEMMA ImportsInit == ASSUME I!Init PROVE ImportsInv
<1>1. pending = [c \in Calls |-> IF c = 1 THEN Request("suppliers", None)
                                 ELSE IF c = 2 THEN Request("batches", None) ELSE NoCall]
  BY DEF I!Init, I!Opening, I!Request, I!NoCall, I!Calls, Request, NoCall, Calls
<1>2. CallsInv /\ Uploads = {} /\ ImportAnswers
  BY <1>1 DEF CallsInv, Uploads, IsUpload, ImportAnswers, Request, NoCall
<1>3. "busy" \in DOMAIN ui /\ ~ui.busy
  BY DEF I!Init, I!Blank
<1> QED
  BY <1>2, <1>3 DEF ImportsInv, OneFor, Single

\* The server answers what it was asked; only an import is answered by a batch.
LEMMA ImportsServe ==
  ASSUME ImportsInv, NEW c \in Calls, I!Serve(c) PROVE ImportsInv'
<1>1. ui' = ui
  BY DEF I!Serve, I!ServeImport, I!ServeBatches, I!ServeOther, I!RefuseCall
<1>2. PICK a : /\ pending' = [pending EXCEPT ![c].ans = a]
               /\ pending[c].op = "import" => a \in Batches \cup {Failed}
  BY DEF I!Serve, I!ServeImport, I!ServeBatches, I!ServeOther, I!RefuseCall, I!Reply,
         I!Refuse
<1>3. CallsInv' /\ SameCalls
  BY <1>2, AnswerChanges DEF ImportsInv
<1>4. Uploads' = Uploads
  BY <1>3 DEF SameCalls, Uploads
<1>5. ImportAnswers'
  <2>1. \A d \in Calls : pending'[d].ans = IF d = c THEN a ELSE pending[d].ans
    BY <1>2 DEF ImportsInv, CallsInv
  <2> QED
    BY <1>2, <1>3, <2>1 DEF SameCalls, ImportsInv, ImportAnswers
<1> QED
  BY <1>1, <1>3, <1>4, <1>5 DEF ImportsInv

\* One entry changes, and the flag follows it.
LEMMA ImportsMove ==
  ASSUME ImportsInv, CallsInv', "busy" \in DOMAIN ui', NEW c \in Calls, NEW op, NEW arg,
         Becomes(c, op, arg), op = "import" => pending'[c].ans = Sent,
         IsUpload(op, arg) => (c \in Uploads \/ ~ui.busy) /\ ui'.busy,
         c \in Uploads /\ ~IsUpload(op, arg) => ~ui'.busy,
         c \notin Uploads /\ ~IsUpload(op, arg) => (ui'.busy <=> ui.busy)
  PROVE  ImportsInv'
<1>1. c \in Uploads' <=> IsUpload(op, arg)
  BY DEF Uploads, Becomes
<1>2. Uploads' \ {c} = Uploads \ {c}
  BY DEF Uploads, Becomes
<1>3. Follows(Uploads, Uploads', c, ui.busy, ui'.busy)
  BY <1>1, <1>2 DEF Follows
<1>4. OneFor(Uploads', ui'.busy)
  BY <1>3, OneFollows DEF ImportsInv
<1>5. ImportAnswers'
  BY DEF ImportsInv, ImportAnswers, Becomes
<1> QED
  BY <1>4, <1>5 DEF ImportsInv

LEMMA ImportsStill ==
  ASSUME ImportsInv, UNCHANGED pending, "busy" \in DOMAIN ui', ui'.busy = ui.busy
  PROVE  ImportsInv'
BY DEF ImportsInv, CallsInv, ImportAnswers, Uploads

\* The buttons: of a preview and of an import, which busy disables, and the others.
LEMMA ImportsUser == ASSUME ImportsInv, I!UserStep PROVE ImportsInv'
<1>1. "busy" \in DOMAIN ui /\ CallsInv
  BY DEF ImportsInv
<1>2. ASSUME NEW v, I!OnSelectSupplier(v) \/ I!ChooseFile(v) PROVE ImportsInv'
  BY <1>1, <1>2, ImportsStill DEF I!OnSelectSupplier, I!ChooseFile
<1>3. CASE I!OnPreview \/ I!OnImport
  <2>1. ~ui.busy
    BY <1>3 DEF I!OnPreview, I!OnImport, I!CanPreview, I!CanImport
  <2>2. "busy" \in DOMAIN ui' /\ ui'.busy
    BY <1>1, <1>3 DEF I!OnPreview, I!OnImport, I!Render
  <2>3. PICK op, arg : op \in {"preview", "import"} /\ I!Ask(op, arg)
    BY <1>3 DEF I!OnPreview, I!OnImport
  <2>4. PICK c \in Calls : /\ Becomes(c, op, arg) /\ CallsInv'
                           /\ pending'[c].ans = Sent
    BY <1>1, <2>3, ImportsCalls, AskChanges
  <2>5. IsUpload(op, arg)
    BY <2>3 DEF IsUpload
  <2> QED
    BY <2>1, <2>2, <2>4, <2>5, ImportsMove
<1>4. ASSUME NEW v, I!OpenBatch(v) \/ I!ToggleMatch(v) \/ I!MatchOffer(v)
      PROVE  ImportsInv'
  <2>1. "busy" \in DOMAIN ui' /\ ui'.busy = ui.busy
    BY <1>1, <1>4 DEF I!OpenBatch, I!ToggleMatch, I!MatchOffer, I!Render
  <2>2. CASE UNCHANGED pending
    BY <2>1, <2>2, ImportsStill
  <2>3. CASE ~UNCHANGED pending
    <3>1. PICK op, arg : I!Ask(op, arg) /\ ~IsUpload(op, arg) /\ op # "import"
      BY <1>4, <2>3 DEF I!OpenBatch, I!ToggleMatch, I!MatchOffer, IsUpload
    <3>2. PICK c \in Calls : /\ pending[c].op = "none" /\ Becomes(c, op, arg)
                             /\ CallsInv'
      BY <1>1, <3>1, ImportsCalls, AskChanges
    <3>3. c \notin Uploads
      BY <3>2 DEF Uploads, IsUpload
    <3> QED
      BY <2>1, <3>1, <3>2, <3>3, ImportsMove
  <2> QED
    BY <2>2, <2>3
<1> QED
  BY <1>2, <1>3, <1>4 DEF I!UserStep

\* A handler goes on to its next call, or returns.
LEMMA ImportsContinue ==
  ASSUME ImportsInv, NEW c \in Calls, I!Continue(c) PROVE ImportsInv'
<1>1. "busy" \in DOMAIN ui /\ CallsInv /\ (c \in Uploads => ui.busy)
  BY DEF ImportsInv, OneFor
<1>2. ASSUME I!Return(c), "busy" \in DOMAIN ui', c \in Uploads => ~ui'.busy,
             c \notin Uploads => (ui'.busy <=> ui.busy)
      PROVE  ImportsInv'
  BY <1>1, <1>2, ImportsCalls, ReturnChanges, ImportsMove DEF IsUpload
<1>3. ASSUME NEW op, NEW arg, I!Await(c, op, arg), IsUpload(op, arg), c \in Uploads,
             "busy" \in DOMAIN ui', ui'.busy <=> ui.busy
      PROVE  ImportsInv'
  BY <1>1, <1>3, ImportsCalls, AwaitChanges, ImportsMove
<1>4. CASE I!OnSuppliers(c) \/ I!OnCardAnswer(c)
  <2>1. c \notin Uploads
    BY <1>4 DEF I!OnSuppliers, I!OnCardAnswer, Uploads, IsUpload
  <2>2. "busy" \in DOMAIN ui' /\ ui'.busy = ui.busy
    BY <1>1, <1>4 DEF I!OnSuppliers, I!OnCardAnswer
  <2> QED
    BY <1>2, <1>4, <2>1, <2>2 DEF I!OnSuppliers, I!OnCardAnswer
<1>5. CASE I!OnPreviewDone(c)
  <2>1. c \in Uploads
    BY <1>5 DEF I!OnPreviewDone, Uploads, IsUpload
  <2>2. "busy" \in DOMAIN ui' /\ ~ui'.busy
    BY <1>1, <1>5 DEF I!OnPreviewDone
  <2> QED
    BY <1>2, <1>5, <2>1, <2>2 DEF I!OnPreviewDone
<1>6. CASE I!OnImportDone(c)
  <2>1. c \in Uploads
    BY <1>6 DEF I!OnImportDone, Uploads, IsUpload
  <2>2. CASE I!Ok(c)
    <3>1. pending[c].ans \in Batches
      BY <1>6, <2>2 DEF I!OnImportDone, I!Ok, I!Answered, ImportsInv, ImportAnswers
    <3>2. IsUpload("batches", pending[c].ans)
      BY <3>1, PortalAssumption DEF PortalAssumption, IsUpload
    <3>3. "busy" \in DOMAIN ui' /\ ui'.busy = ui.busy
      BY <1>1, <1>6, <2>2 DEF I!OnImportDone
    <3> QED
      BY <1>3, <1>6, <2>1, <2>2, <3>2, <3>3 DEF I!OnImportDone
  <2>3. CASE ~I!Ok(c)
    <3>1. "busy" \in DOMAIN ui' /\ ~ui'.busy
      BY <1>1, <1>6, <2>3 DEF I!OnImportDone
    <3> QED
      BY <1>2, <1>6, <2>1, <2>3, <3>1 DEF I!OnImportDone
  <2> QED
    BY <2>2, <2>3
<1>7. CASE I!OnBatches(c)
  <2> DEFINE b == pending[c].arg
  <2>1. c \in Uploads <=> b # None
    BY <1>7 DEF I!OnBatches, Uploads, IsUpload
  <2>2. \A u \in {ui, [ui EXCEPT !.batches = pending[c].ans]} :
          "busy" \in DOMAIN u /\ (u.busy <=> ui.busy)
    BY <1>1
  <2>3. CASE b = None
    <3>1. "busy" \in DOMAIN ui' /\ (ui'.busy <=> ui.busy)
      BY <1>7, <2>2, <2>3 DEF I!OnBatches
    <3> QED
      BY <1>2, <1>7, <2>1, <2>3, <3>1 DEF I!OnBatches
  <2>4. CASE b # None /\ I!Ok(c)
    <3>1. "busy" \in DOMAIN ui' /\ (ui'.busy <=> ui.busy)
      BY <1>7, <2>2, <2>4 DEF I!OnBatches
    <3>2. IsUpload("offers", [batch |-> b, import |-> TRUE])
      BY DEF IsUpload
    <3> QED
      BY <1>3, <1>7, <2>1, <2>4, <3>1, <3>2 DEF I!OnBatches
  <2>5. CASE b # None /\ ~I!Ok(c)
    <3>1. "busy" \in DOMAIN ui' /\ ~ui'.busy
      BY <1>1, <1>7, <2>5 DEF I!OnBatches
    <3> QED
      BY <1>2, <1>7, <2>1, <2>5, <3>1 DEF I!OnBatches
  <2> QED
    BY <2>3, <2>4, <2>5
<1>8. CASE I!OnOffers(c)
  <2> DEFINE ends == pending[c].arg.import
             u == [ui EXCEPT !.busy = @ /\ ~ends]
  <2>1. c \in Uploads <=> ends
    BY <1>8 DEF I!OnOffers, Uploads, IsUpload
  <2>2. "busy" \in DOMAIN u /\ (u.busy <=> ui.busy /\ ~ends)
    BY <1>1
  <2>3. "busy" \in DOMAIN ui' /\ (ui'.busy <=> u.busy)
    BY <1>8, <2>2 DEF I!OnOffers, I!Render
  <2> QED
    BY <1>2, <1>8, <2>1, <2>2, <2>3 DEF I!OnOffers
<1> QED
  BY <1>4, <1>5, <1>6, <1>7, <1>8 DEF I!Continue

LEMMA ImportsNext == ASSUME ImportsInv, I!Next PROVE ImportsInv'
BY ImportsUser, ImportsServe, ImportsContinue DEF I!Next, I!Calls, Calls

LEMMA ImportsSentOnce == ImportsInv => I!SentOnce
BY DEF ImportsInv, OneFor, Single, Uploads, IsUpload, I!SentOnce, I!Calls, Calls

----------------------------------------------------------------------------
(* The list of the cards: the form of a new card, its photos, the load after *)

IsCreating(op, arg) ==
  op \in {"create", "photo"} \/ (op = "list" /\ "create" \in DOMAIN arg)
Creating == {c \in Calls : IsCreating(pending[c].op, pending[c].arg)}

ProductsInv ==
  CallsInv /\ "saving" \in DOMAIN ui /\ OneFor(Creating, ui.saving)

LEMMA ProductsCalls ==
  /\ \A op, arg : L!Ask(op, arg) => Ask(op, arg)
  /\ \A c, op, arg : L!Await(c, op, arg) => Await(c, op, arg)
  /\ \A c : L!Return(c) => Return(c)
BY DEF L!Ask, L!CanCall, L!NextCall, L!Idle, L!Calls, L!Await, L!Request, L!Return,
       L!NoCall, Ask, CanCall, NextCall, Idle, Calls, Await, Request, Return, NoCall

LEMMA ProductsInit == ASSUME L!Init PROVE ProductsInv
<1>1. pending = Opening(<<Request("categories", None)>>)
  BY DEF L!Init, L!Opening, L!Request, L!NoCall, L!Calls, Opening, Request, NoCall, Calls
<1>2. CallsInv /\ Creating = {}
  BY <1>1, OpeningIsCalls DEF Creating, IsCreating
<1>3. "saving" \in DOMAIN ui /\ ~ui.saving
  BY DEF L!Init
<1> QED
  BY <1>2, <1>3 DEF ProductsInv, OneFor, Single

LEMMA ProductsMove ==
  ASSUME ProductsInv, CallsInv', "saving" \in DOMAIN ui', NEW c \in Calls, NEW op, NEW arg,
         Becomes(c, op, arg),
         IsCreating(op, arg) => (c \in Creating \/ ~ui.saving) /\ ui'.saving,
         c \in Creating /\ ~IsCreating(op, arg) => ~ui'.saving,
         c \notin Creating /\ ~IsCreating(op, arg) => (ui'.saving <=> ui.saving)
  PROVE  ProductsInv'
<1>1. Follows(Creating, Creating', c, ui.saving, ui'.saving)
  BY DEF Follows, Creating, Becomes
<1> QED
  BY <1>1, OneFollows DEF ProductsInv

LEMMA ProductsStill ==
  ASSUME ProductsInv, CallsInv', SameCalls, "saving" \in DOMAIN ui', ui'.saving = ui.saving
  PROVE  ProductsInv'
BY DEF ProductsInv, Creating, SameCalls

LEMMA ProductsServe == ASSUME ProductsInv, NEW c \in Calls, L!Serve(c) PROVE ProductsInv'
<1>1. ui' = ui /\ \E a : pending' = [pending EXCEPT ![c].ans = a]
  BY DEF L!Serve, L!ServeCreate, L!ServeList, L!ServeOther, L!RefuseCall, L!Reply, L!Refuse
<1>2. CallsInv' /\ SameCalls
  BY <1>1, AnswerChanges DEF ProductsInv
<1> QED
  BY <1>1, <1>2, ProductsStill DEF ProductsInv

\* Only OnCreate asks for a card, and saving disables it.
LEMMA ProductsUser ==
  ASSUME ProductsInv, L!UserStep \/ L!TimerFires PROVE ProductsInv'
<1>1. "saving" \in DOMAIN ui /\ CallsInv
  BY DEF ProductsInv
<1>2. ASSUME NEW v, L!Search(v) \/ L!FillForm(v) PROVE ProductsInv'
  <2>1. "saving" \in DOMAIN ui' /\ ui'.saving = ui.saving /\ UNCHANGED pending
    BY <1>1, <1>2 DEF L!Search, L!FillForm
  <2> QED
    BY <1>1, <2>1, ProductsStill DEF CallsInv, SameCalls
<1>3. ASSUME NEW op, NEW arg, L!Ask(op, arg), "saving" \in DOMAIN ui',
             IsCreating(op, arg) => ~ui.saving /\ ui'.saving,
             ~IsCreating(op, arg) => ui'.saving = ui.saving
      PROVE  ProductsInv'
  <2>1. PICK c \in Calls : pending[c].op = "none" /\ Becomes(c, op, arg) /\ CallsInv'
    BY <1>1, <1>3, ProductsCalls, AskChanges
  <2>2. c \notin Creating
    BY <2>1 DEF Creating, IsCreating
  <2> QED
    BY <1>3, <2>1, <2>2, ProductsMove
<1>4. ASSUME L!ShowMore \/ L!TimerFires PROVE ProductsInv'
  <2>1. PICK q, n : /\ L!Ask("list", [query |-> q, offset |-> n])
                    /\ \/ ui' = L!Loading([ui EXCEPT !.timer = None], n)
                       \/ ui' = L!Loading(ui, n)
    BY <1>4 DEF L!ShowMore, L!TimerFires, L!Load
  <2>2. ~IsCreating("list", [query |-> q, offset |-> n])
    BY DEF IsCreating
  <2>3. "saving" \in DOMAIN ui' /\ ui'.saving = ui.saving
    BY <1>1, <2>1 DEF L!Loading
  <2> QED
    BY <1>3, <2>1, <2>2, <2>3
<1>5. CASE L!OnCreate
  BY <1>1, <1>3, <1>5 DEF L!OnCreate, L!CanCreate, IsCreating
<1>6. CASE L!SetCategory
  BY <1>1, <1>3, <1>6 DEF L!SetCategory, IsCreating
<1> QED
  BY <1>2, <1>4, <1>5, <1>6 DEF L!UserStep

\* From the card to its photos one by one, and to the load the handler ends with.
LEMMA ProductsContinue ==
  ASSUME ProductsInv, NEW c \in Calls, L!Continue(c) PROVE ProductsInv'
<1>1. "saving" \in DOMAIN ui /\ CallsInv /\ (c \in Creating => ui.saving)
  BY DEF ProductsInv, OneFor
<1>2. ASSUME L!Return(c), "saving" \in DOMAIN ui', c \in Creating => ~ui'.saving,
             c \notin Creating => (ui'.saving <=> ui.saving)
      PROVE  ProductsInv'
  BY <1>1, <1>2, ProductsCalls, ReturnChanges, ProductsMove DEF IsCreating
<1>3. ASSUME NEW op, NEW arg, L!Await(c, op, arg), IsCreating(op, arg) <=> c \in Creating,
             "saving" \in DOMAIN ui', ui'.saving = ui.saving
      PROVE  ProductsInv'
  BY <1>1, <1>3, ProductsCalls, AwaitChanges, ProductsMove
<1>4. CASE L!OnCreated(c)
  <2> DEFINE n == pending[c].arg.photos
             q == pending[c].arg.query
  <2>1. c \in Creating
    BY <1>4 DEF L!OnCreated, Creating, IsCreating
  <2>2. CASE n > 0
    <3>1. L!Await(c, "photo", [photos |-> n - 1, query |-> q]) /\ ui' = ui
      BY <1>4, <2>2 DEF L!OnCreated, L!NextPhoto
    <3> QED
      BY <1>1, <1>3, <2>1, <3>1 DEF IsCreating
  <2>3. CASE ~(n > 0)
    <3>1. /\ L!Await(c, "list", [query |-> q, offset |-> 0, create |-> TRUE])
          /\ ui' = L!Loading([ui EXCEPT !.filled = FALSE, !.files = 0], 0)
      BY <1>4, <2>3 DEF L!OnCreated, L!NextPhoto
    <3>2. IsCreating("list", [query |-> q, offset |-> 0, create |-> TRUE])
      BY DEF IsCreating
    <3>3. "saving" \in DOMAIN ui' /\ ui'.saving = ui.saving
      BY <1>1, <3>1 DEF L!Loading
    <3> QED
      BY <1>3, <2>1, <3>1, <3>2, <3>3
  <2> QED
    BY <2>2, <2>3
<1>5. CASE L!OnCreateError(c)
  <2>1. c \in Creating
    BY <1>5 DEF L!OnCreateError, Creating, IsCreating
  <2> QED
    BY <1>1, <1>2, <1>5, <2>1 DEF L!OnCreateError
<1>6. CASE L!OnList(c)
  <2> DEFINE u == [ui EXCEPT !.loading = FALSE, !.more = FALSE,
                             !.saving = @ /\ ~L!OfCreate(c)]
  <2>1. c \in Creating <=> L!OfCreate(c)
    BY <1>6 DEF L!OnList, L!OfCreate, Creating, IsCreating
  <2>2. "saving" \in DOMAIN u /\ (u.saving <=> ui.saving /\ ~L!OfCreate(c))
    BY <1>1
  <2>3. "saving" \in DOMAIN ui' /\ ui'.saving = u.saving
    <3> HIDE DEF u
    <3>1. \/ ui' = u
          \/ \E n, t : ui' = [u EXCEPT !.len = n, !.total = t]
      BY <1>6 DEF L!OnList, u
    <3> QED
      BY <2>2, <3>1
  <2> QED
    BY <1>2, <1>6, <2>1, <2>2, <2>3 DEF L!OnList
<1>7. CASE L!OnCategory(c) \/ L!OnCategories(c)
  <2>1. c \notin Creating
    BY <1>7 DEF L!OnCategory, L!OnCategories, Creating, IsCreating
  <2>2. "saving" \in DOMAIN ui' /\ ui'.saving = ui.saving
    BY <1>1, <1>7 DEF L!OnCategory, L!OnCategories, L!Loading
  <2>3. \/ L!Return(c)
        \/ \E q : L!Await(c, "list", [query |-> q, offset |-> 0])
    BY <1>7 DEF L!OnCategory, L!OnCategories
  <2>4. \A q : ~IsCreating("list", [query |-> q, offset |-> 0])
    BY DEF IsCreating
  <2> QED
    BY <1>2, <1>3, <2>1, <2>2, <2>3, <2>4
<1> QED
  BY <1>4, <1>5, <1>6, <1>7 DEF L!Continue

LEMMA ProductsNext == ASSUME ProductsInv, L!Next PROVE ProductsInv'
BY ProductsUser, ProductsServe, ProductsContinue DEF L!Next, L!Calls, Calls

LEMMA ProductsSentOnce == ProductsInv => L!SentOnce
BY DEF ProductsInv, OneFor, Single, Creating, IsCreating, L!SentOnce, L!OfCreate,
       L!Calls, Calls

----------------------------------------------------------------------------
(* Handlers that end with a load, which knows what it is for *)

IsOf(op, arg, for) == op = for \/ (op = "load" /\ arg = for)
Of(for) == {c \in Calls : IsOf(pending[c].op, pending[c].arg, for)}

LEMMA OfFollows ==
  ASSUME NEW c \in Calls, NEW op, NEW arg, Becomes(c, op, arg),
         NEW for, NEW f, NEW g, OneFor(Of(for), f),
         IsOf(op, arg, for) => (c \in Of(for) \/ ~f) /\ g,
         c \in Of(for) /\ ~IsOf(op, arg, for) => ~g,
         c \notin Of(for) /\ ~IsOf(op, arg, for) => (g <=> f)
  PROVE  OneFor(Of(for)', g)
<1>1. Follows(Of(for), Of(for)', c, f, g)
  BY DEF Follows, Of, Becomes
<1> QED
  BY <1>1, OneFollows

LEMMA OfStays ==
  ASSUME SameCalls, NEW for PROVE Of(for)' = Of(for)
BY DEF Of, SameCalls

----------------------------------------------------------------------------
(* Categories: a new one, and the run over the cards *)

CategoriesInv ==
  /\ CallsInv /\ {"saving", "applying"} \subseteq DOMAIN ui
  /\ OneFor(Of("create"), ui.saving)
  /\ OneFor(Of("apply"), ui.applying)

LEMMA CategoriesCalls ==
  /\ \A op, arg : K!Ask(op, arg) => Ask(op, arg)
  /\ \A c, op, arg : K!Await(c, op, arg) => Await(c, op, arg)
  /\ \A c : K!Return(c) => Return(c)
BY DEF K!Ask, K!CanCall, K!NextCall, K!Idle, K!Calls, K!Await, K!Request, K!Return,
       K!NoCall, Ask, CanCall, NextCall, Idle, Calls, Await, Request, Return, NoCall

LEMMA CategoriesInit == ASSUME K!Init PROVE CategoriesInv
<1>1. pending = Opening(<<Request("load", "page")>>)
  BY DEF K!Init, K!Opening, K!Request, K!NoCall, K!Calls, Opening, Request, NoCall, Calls
<1>2. CallsInv /\ Of("create") = {} /\ Of("apply") = {}
  BY <1>1, OpeningIsCalls DEF Of, IsOf
<1>3. {"saving", "applying"} \subseteq DOMAIN ui /\ ~ui.saving /\ ~ui.applying
  BY DEF K!Init
<1> QED
  BY <1>2, <1>3 DEF CategoriesInv, OneFor, Single

LEMMA CategoriesStill ==
  ASSUME CategoriesInv, CallsInv', SameCalls, DOMAIN ui' = DOMAIN ui,
         ui'.saving = ui.saving, ui'.applying = ui.applying
  PROVE  CategoriesInv'
BY OfStays DEF CategoriesInv

LEMMA CategoriesServe == ASSUME CategoriesInv, NEW c \in Calls, K!Serve(c) PROVE CategoriesInv'
<1>1. ui' = ui /\ \E a : pending' = [pending EXCEPT ![c].ans = a]
  BY DEF K!Serve, K!ServeLoad, K!ServeCreate, K!ServeSave, K!ServeDelete, K!ServeMap,
         K!ServeApply, K!RefuseCall, K!Reply, K!Refuse
<1>2. CallsInv' /\ SameCalls
  BY <1>1, AnswerChanges DEF CategoriesInv
<1> QED
  BY <1>1, <1>2, CategoriesStill

LEMMA CategoriesUser == ASSUME CategoriesInv, K!UserStep PROVE CategoriesInv'
<1>1. {"saving", "applying"} \subseteq DOMAIN ui /\ CallsInv
  BY DEF CategoriesInv
<1>2. ASSUME NEW v, K!StartEdit(v) \/ K!CancelEdit PROVE CategoriesInv'
  <2>1. /\ DOMAIN ui' = DOMAIN ui /\ UNCHANGED pending
        /\ ui'.saving = ui.saving /\ ui'.applying = ui.applying
    BY <1>1, <1>2 DEF K!StartEdit, K!CancelEdit
  <2> QED
    BY <1>1, <2>1, CategoriesStill DEF CallsInv, SameCalls
<1>3. ASSUME NEW op, NEW arg, K!Ask(op, arg), op # "load", DOMAIN ui' = DOMAIN ui,
             IF op = "create" THEN ~ui.saving /\ ui'.saving ELSE ui'.saving = ui.saving,
             IF op = "apply" THEN ~ui.applying /\ ui'.applying
                             ELSE ui'.applying = ui.applying
      PROVE  CategoriesInv'
  <2>1. PICK c \in Calls : pending[c].op = "none" /\ Becomes(c, op, arg) /\ CallsInv'
    BY <1>1, <1>3, CategoriesCalls, AskChanges
  <2>2. \A for \in {"create", "apply"} : c \notin Of(for) /\ (IsOf(op, arg, for) <=> op = for)
    BY <1>3, <2>1 DEF Of, IsOf
  <2>3. OneFor(Of("create")', ui'.saving)
    BY <1>3, <2>1, <2>2, OfFollows DEF CategoriesInv
  <2>4. OneFor(Of("apply")', ui'.applying)
    BY <1>3, <2>1, <2>2, OfFollows DEF CategoriesInv
  <2> QED
    BY <1>1, <1>3, <2>1, <2>3, <2>4 DEF CategoriesInv
<1>4. CASE K!OnCreate
  BY <1>1, <1>3, <1>4 DEF K!OnCreate, K!CanCreate
<1>5. CASE K!OnApplyMappings
  BY <1>1, <1>3, <1>5 DEF K!OnApplyMappings, K!CanApply
<1>6. ASSUME NEW v, NEW w,
             K!OnSaveEdit \/ K!OnDelete(v) \/ K!MapSupplierCat(w, v) \/ K!MakeSupplierCat(w)
      PROVE  CategoriesInv'
  BY <1>3, <1>6 DEF K!OnSaveEdit, K!OnDelete, K!MapSupplierCat, K!MakeSupplierCat
<1> QED
  BY <1>2, <1>4, <1>5, <1>6 DEF K!UserStep

\* A handler lowers its own flag only, at the end of its load.
LEMMA CategoriesContinue ==
  ASSUME CategoriesInv, NEW c \in Calls, K!Continue(c) PROVE CategoriesInv'
<1> DEFINE is(for) == IsOf(pending[c].op, pending[c].arg, for)
<1>1. /\ {"saving", "applying"} \subseteq DOMAIN ui /\ CallsInv
      /\ (is("create") => ui.saving) /\ (is("apply") => ui.applying)
      /\ \A for : is(for) <=> c \in Of(for)
  BY DEF CategoriesInv, OneFor, Of
<1>2. ASSUME NEW op, NEW arg, Becomes(c, op, arg), CallsInv', DOMAIN ui' = DOMAIN ui,
             IsOf(op, arg, "create") => is("create") /\ ui'.saving = ui.saving,
             IsOf(op, arg, "apply") => is("apply") /\ ui'.applying = ui.applying,
             ~IsOf(op, arg, "create") =>
               ui'.saving = IF is("create") THEN FALSE ELSE ui.saving,
             ~IsOf(op, arg, "apply") =>
               ui'.applying = IF is("apply") THEN FALSE ELSE ui.applying
      PROVE  CategoriesInv'
  <2> HIDE DEF is
  <2>1. /\ IsOf(op, arg, "create") => c \in Of("create") /\ ui'.saving
        /\ c \in Of("create") /\ ~IsOf(op, arg, "create") => ~ui'.saving
        /\ c \notin Of("create") /\ ~IsOf(op, arg, "create") => (ui'.saving <=> ui.saving)
    BY <1>1, <1>2
  <2>2. /\ IsOf(op, arg, "apply") => c \in Of("apply") /\ ui'.applying
        /\ c \in Of("apply") /\ ~IsOf(op, arg, "apply") => ~ui'.applying
        /\ c \notin Of("apply") /\ ~IsOf(op, arg, "apply") => (ui'.applying <=> ui.applying)
    BY <1>1, <1>2
  <2>3. OneFor(Of("create")', ui'.saving)
    BY <1>2, <2>1, OfFollows DEF CategoriesInv
  <2>4. OneFor(Of("apply")', ui'.applying)
    BY <1>2, <2>2, OfFollows DEF CategoriesInv
  <2> QED
    BY <1>1, <1>2, <2>3, <2>4 DEF CategoriesInv
<1>3. ASSUME NEW u, NEW for, ui' = K!Ended(u, for), K!Return(c), DOMAIN u = DOMAIN ui,
             u.saving = ui.saving, u.applying = ui.applying,
             is("create") <=> for = "create", is("apply") <=> for = "apply"
      PROVE  CategoriesInv'
  <2>1. Becomes(c, "none", None) /\ CallsInv'
    BY <1>1, <1>3, CategoriesCalls, ReturnChanges
  <2>2. /\ DOMAIN ui' = DOMAIN ui
        /\ ui'.saving = IF for = "create" THEN FALSE ELSE ui.saving
        /\ ui'.applying = IF for = "apply" THEN FALSE ELSE ui.applying
    BY <1>1, <1>3 DEF K!Ended
  <2>3. ~IsOf("none", None, "create") /\ ~IsOf("none", None, "apply")
    BY DEF IsOf
  <2> QED
    BY <1>2, <1>3, <2>1, <2>2, <2>3
<1>4. CASE K!OnLoad(c) \/ K!OnLoadError(c)
  <2>1. is("create") <=> pending[c].arg = "create"
    BY <1>4 DEF K!OnLoad, K!OnLoadError, IsOf
  <2>2. is("apply") <=> pending[c].arg = "apply"
    BY <1>4 DEF K!OnLoad, K!OnLoadError, IsOf
  <2>3. PICK u : /\ ui' = K!Ended(u, pending[c].arg) /\ K!Return(c)
                 /\ DOMAIN u = DOMAIN ui
                 /\ u.saving = ui.saving /\ u.applying = ui.applying
    <3>1. CASE K!OnLoad(c)
      <4> DEFINE d == pending[c].ans
                 u == [ui EXCEPT !.loading = FALSE, !.cats = d.cats, !.maps = d.maps]
      <4>1. DOMAIN u = DOMAIN ui /\ u.saving = ui.saving /\ u.applying = ui.applying
        BY <1>1
      <4> QED
        BY <3>1, <4>1 DEF K!OnLoad
    <3>2. CASE K!OnLoadError(c)
      <4> DEFINE u == [ui EXCEPT !.loading = FALSE]
      <4>1. DOMAIN u = DOMAIN ui /\ u.saving = ui.saving /\ u.applying = ui.applying
        BY <1>1
      <4> QED
        BY <3>2, <4>1 DEF K!OnLoadError
    <3> QED
      BY <1>4, <3>1, <3>2
  <2> HIDE DEF is
  <2> QED
    BY <1>3, <2>1, <2>2, <2>3
<1>5. CASE K!OnError(c)
  <2>1. \A for : is(for) <=> pending[c].op = for
    BY <1>5 DEF K!OnError, IsOf
  <2> HIDE DEF is
  <2> QED
    BY <1>3, <1>5, <2>1 DEF K!OnError
<1>6. CASE K!OnDone(c)
  <2> DEFINE op == pending[c].op
             arg == IF op \in {"create", "apply"} THEN op ELSE "page"
  <2>1. op # "load" /\ K!Await(c, "load", arg)
    BY <1>6 DEF K!OnDone
  <2>2. Becomes(c, "load", arg) /\ CallsInv'
    BY <1>1, <2>1, CategoriesCalls, AwaitChanges
  <2>3. \A for \in {"create", "apply"} :
          (is(for) <=> op = for) /\ (IsOf("load", arg, for) <=> op = for)
    BY <2>1 DEF IsOf
  <2>4. DOMAIN ui' = DOMAIN ui /\ ui'.saving = ui.saving /\ ui'.applying = ui.applying
    BY <1>1, <1>6 DEF K!OnDone
  <2> HIDE DEF is
  <2> QED
    BY <1>2, <2>2, <2>3, <2>4
<1> QED
  BY <1>4, <1>5, <1>6 DEF K!Continue

LEMMA CategoriesNext == ASSUME CategoriesInv, K!Next PROVE CategoriesInv'
BY CategoriesUser, CategoriesServe, CategoriesContinue DEF K!Next, K!Calls, Calls

LEMMA CategoriesSentOnce == ASSUME CategoriesInv PROVE K!SentOnce
<1>1. Cardinality(Of("create")) <= 1 /\ (ui.saving <=> Of("create") # {})
  BY SingleIsOne DEF CategoriesInv, OneFor
<1>2. Cardinality(Of("apply")) <= 1 /\ (ui.applying <=> Of("apply") # {})
  BY SingleIsOne DEF CategoriesInv, OneFor
<1>3. \A for : Of(for) = {c \in K!Calls :
                           \/ pending[c].op = for
                           \/ pending[c].op = "load" /\ pending[c].arg = for}
  BY DEF Of, IsOf, K!Calls, Calls
<1>4. \A for \in {"create", "apply"} : K!Cardinality(Of(for)) <= 1
  BY <1>1, <1>2, PagesCount
<1> HIDE DEF Of
<1> QED
  BY <1>1, <1>2, <1>3, <1>4 DEF K!SentOnce

----------------------------------------------------------------------------
(* Users: a new one, and a page that is not an administrator's *)

UsersInv ==
  /\ CallsInv /\ {"admin", "saving"} \subseteq DOMAIN ui
  /\ OneFor(Of("create"), ui.saving)
  /\ ~ui.admin => Quiet

LEMMA UsersCalls ==
  /\ \A op, arg : U!Ask(op, arg) => Ask(op, arg)
  /\ \A c, op, arg : U!Await(c, op, arg) => Await(c, op, arg)
  /\ \A c : U!Return(c) => Return(c)
  /\ \A c : U!Waiting(c) \/ U!Answered(c) => ~Idle(c)
BY DEF U!Ask, U!CanCall, U!NextCall, U!Idle, U!Calls, U!Await, U!Request, U!Return,
       U!NoCall, U!Waiting, U!Answered,
       Ask, CanCall, NextCall, Idle, Calls, Await, Request, Return, NoCall

LEMMA UsersInit == ASSUME U!Init PROVE UsersInv
<1>1. /\ {"admin", "saving"} \subseteq DOMAIN ui /\ ~ui.saving
      /\ IF ui.admin THEN pending = Opening(<<Request("load", "page")>>)
                     ELSE pending = NoCalls
  BY DEF U!Init, U!Opening, U!NoCalls, U!Request, U!NoCall, U!Calls,
         Opening, NoCalls, Request, NoCall, Calls
<1>2. CASE ui.admin
  <2>1. CallsInv /\ Of("create") = {}
    BY <1>1, <1>2, OpeningIsCalls DEF Of, IsOf
  <2> QED
    BY <1>1, <1>2, <2>1 DEF UsersInv, OneFor, Single
<1>3. CASE ~ui.admin
  <2>1. CallsInv /\ Of("create") = {} /\ Quiet
    BY <1>1, <1>3 DEF CallsInv, Of, IsOf, Quiet, Idle, NoCalls, NoCall
  <2> QED
    BY <1>1, <2>1 DEF UsersInv, OneFor, Single
<1> QED
  BY <1>2, <1>3

\* Whoever waits is on an administrator's page.
LEMMA UsersMove ==
  ASSUME UsersInv, CallsInv', ui.admin, DOMAIN ui' = DOMAIN ui, ui'.admin = ui.admin,
         OneFor(Of("create")', ui'.saving)
  PROVE  UsersInv'
BY DEF UsersInv

LEMMA UsersServe == ASSUME UsersInv, NEW c \in Calls, U!Serve(c) PROVE UsersInv'
<1>1. ui' = ui /\ (U!Waiting(c)) /\ \E a : pending' = [pending EXCEPT ![c].ans = a]
  BY DEF U!Serve, U!ServeList, U!ServeCreate, U!RefuseCall, U!Reply, U!Refuse
<1>2. CallsInv' /\ SameCalls
  BY <1>1, AnswerChanges DEF UsersInv
<1>3. ui.admin
  BY <1>1, UsersCalls DEF UsersInv, Quiet
<1> QED
  BY <1>1, <1>2, <1>3, OfStays, UsersMove DEF UsersInv

LEMMA UsersUser == ASSUME UsersInv, U!OnCreate \/ U!TurnPage PROVE UsersInv'
<1>1. {"admin", "saving"} \subseteq DOMAIN ui /\ CallsInv
  BY DEF UsersInv
<1>2. CASE U!OnCreate
  <2>1. /\ ui.admin /\ ~ui.saving /\ Ask("create", None)
        /\ DOMAIN ui' = DOMAIN ui /\ ui'.admin = ui.admin /\ ui'.saving
    BY <1>1, <1>2, UsersCalls DEF U!OnCreate, U!CanCreate
  <2>2. PICK c \in Calls : Becomes(c, "create", None) /\ CallsInv'
    BY <1>1, <2>1, AskChanges
  <2>3. /\ IsOf("create", None, "create") => (c \in Of("create") \/ ~ui.saving) /\ ui'.saving
        /\ IsOf("create", None, "create")
    BY <2>1 DEF IsOf
  <2>4. OneFor(Of("create"), ui.saving)
    BY DEF UsersInv
  <2>5. OneFor(Of("create")', ui'.saving)
    BY <2>2, <2>3, <2>4, OfFollows
  <2> QED
    BY <2>1, <2>2, <2>5, UsersMove
<1>3. CASE U!TurnPage
  <2>1. /\ UNCHANGED pending /\ DOMAIN ui' = DOMAIN ui
        /\ ui'.admin = ui.admin /\ ui'.saving = ui.saving
    BY <1>1, <1>3 DEF U!TurnPage
  <2>2. CallsInv' /\ Of("create")' = Of("create") /\ (Quiet => Quiet')
    BY <1>1, <2>1 DEF CallsInv, Of, Quiet, Idle
  <2> QED
    BY <2>1, <2>2 DEF UsersInv
<1> QED
  BY <1>2, <1>3

LEMMA UsersContinue == ASSUME UsersInv, NEW c \in Calls, U!Continue(c) PROVE UsersInv'
<1> DEFINE of == IsOf(pending[c].op, pending[c].arg, "create")
<1>1. /\ {"admin", "saving"} \subseteq DOMAIN ui /\ CallsInv /\ ui.admin
      /\ OneFor(Of("create"), ui.saving) /\ (of <=> c \in Of("create"))
      /\ of => ui.saving
  <2>1. U!Answered(c)
    BY DEF U!Continue, U!OnLoad, U!OnLoadError, U!OnCreated, U!OnCreateError, U!Ok
  <2> QED
    BY <2>1, UsersCalls DEF UsersInv, Quiet, Of, OneFor
<1>2. CASE U!OnCreated(c)
  <2>1. /\ of /\ Await(c, "load", "create")
        /\ DOMAIN ui' = DOMAIN ui /\ ui'.admin = ui.admin /\ ui'.saving = ui.saving
    BY <1>1, <1>2, UsersCalls DEF U!OnCreated, IsOf
  <2>2. Becomes(c, "load", "create") /\ CallsInv'
    BY <1>1, <2>1, AwaitChanges
  <2>3. IsOf("load", "create", "create")
    BY DEF IsOf
  <2> HIDE DEF of
  <2>4. OneFor(Of("create")', ui'.saving)
    BY <1>1, <2>1, <2>2, <2>3, OfFollows
  <2> QED
    BY <1>1, <2>1, <2>2, <2>4, UsersMove
<1>3. CASE U!OnLoad(c) \/ U!OnLoadError(c) \/ U!OnCreateError(c)
  <2>1. /\ Return(c) /\ DOMAIN ui' = DOMAIN ui /\ ui'.admin = ui.admin
        /\ of => ~ui'.saving
        /\ ~of => (ui'.saving <=> ui.saving)
    <3>1. CASE U!OnCreateError(c)
      BY <1>1, <3>1, UsersCalls DEF U!OnCreateError, IsOf
    <3>2. CASE U!OnLoad(c) \/ U!OnLoadError(c)
      <4>1. of <=> pending[c].arg = "create"
        BY <3>2 DEF U!OnLoad, U!OnLoadError, IsOf
      <4>2. PICK u : /\ ui' = U!Ended(u, pending[c].arg) /\ Return(c)
                     /\ DOMAIN u = DOMAIN ui
                     /\ u.admin = ui.admin /\ u.saving = ui.saving
        <5>1. CASE U!OnLoad(c)
          <6> DEFINE u == [ui EXCEPT !.rows = pending[c].ans,
                                     !.table = U!Refreshed(ui.table)]
          <6>1. DOMAIN u = DOMAIN ui /\ u.admin = ui.admin /\ u.saving = ui.saving
            BY <1>1
          <6> QED
            BY <5>1, <6>1, UsersCalls DEF U!OnLoad
        <5>2. CASE U!OnLoadError(c)
          <6> DEFINE u == [ui EXCEPT !.table = U!Uncovered(ui.table)]
          <6>1. DOMAIN u = DOMAIN ui /\ u.admin = ui.admin /\ u.saving = ui.saving
            BY <1>1
          <6> QED
            BY <5>2, <6>1, UsersCalls DEF U!OnLoadError
        <5> QED
          BY <3>2, <5>1, <5>2
      <4> HIDE DEF of
      <4> QED
        BY <1>1, <4>1, <4>2 DEF U!Ended
    <3> QED
      BY <1>3, <3>1, <3>2
  <2>2. Becomes(c, "none", None) /\ CallsInv'
    BY <1>1, <2>1, ReturnChanges
  <2>3. ~IsOf("none", None, "create")
    BY DEF IsOf
  <2> HIDE DEF of
  <2>4. OneFor(Of("create")', ui'.saving)
    BY <1>1, <2>1, <2>2, <2>3, OfFollows
  <2> QED
    BY <1>1, <2>1, <2>2, <2>4, UsersMove
<1> QED
  BY <1>2, <1>3 DEF U!Continue

LEMMA UsersNext == ASSUME UsersInv, U!Next PROVE UsersInv'
BY UsersUser, UsersServe, UsersContinue DEF U!Next, U!Calls, Calls

LEMMA UsersSentOnce == ASSUME UsersInv PROVE U!SentOnce
<1>1. Cardinality(Of("create")) <= 1 /\ (ui.saving <=> Of("create") # {})
  BY SingleIsOne DEF UsersInv, OneFor
<1>2. Of("create") = {c \in U!Calls :
                        \/ pending[c].op = "create"
                        \/ pending[c].op = "load" /\ pending[c].arg = "create"}
  BY DEF Of, IsOf, U!Calls, Calls
<1>3. ~ui.admin => U!Quiet
  BY DEF UsersInv, Quiet, Idle, Calls, U!Quiet, U!Idle, U!Calls
<1>4. U!Cardinality(Of("create")) <= 1
  BY <1>1, PagesCount
<1> HIDE DEF Of
<1> QED
  BY <1>1, <1>2, <1>3, <1>4 DEF U!SentOnce

----------------------------------------------------------------------------
(* Sessions: a login *)

\* On the way into the portal nobody waits for a login.
Logins == {c \in Calls : pending[c].op = "login"}
SessionInv ==
  /\ CallsInv /\ "place" \in DOMAIN ui
  /\ Single(Logins)
  /\ \/ ui.place = "app" /\ Logins = {}
     \/ ui.place = "login" /\ "submitting" \in DOMAIN ui /\ (ui.submitting <=> Logins # {})

LEMMA SessionCalls ==
  /\ \A op, arg : S!Ask(op, arg) => Ask(op, arg)
  /\ \A c, op, arg : S!Await(c, op, arg) => Await(c, op, arg)
  /\ \A c : S!Return(c) => Return(c)
BY DEF S!Ask, S!CanCall, S!NextCall, S!Idle, S!Calls, S!Await, S!Request, S!Return,
       S!NoCall, Ask, CanCall, NextCall, Idle, Calls, Await, Request, Return, NoCall

\* Where a page is mounted anew, it asks who the user is and nothing else.
LEMMA SessionOpens ==
  ASSUME pending = S!Opening(<<S!Request("whoami", None)>>),
         \E v, url : ui \in {S!Shell(v), S!Login(v, url)}
  PROVE  SessionInv
<1>1. pending = Opening(<<Request("whoami", None)>>)
  BY DEF S!Opening, S!Request, S!NoCall, S!Calls, Opening, Request, NoCall, Calls
<1>2. CallsInv /\ \A c \in Calls : pending[c].op \in {"none", "whoami"}
  BY <1>1, OpeningIsCalls
<1>3. Logins = {}
  BY <1>2 DEF Logins
<1>4. /\ "place" \in DOMAIN ui
      /\ \/ ui.place = "app"
         \/ ui.place = "login" /\ "submitting" \in DOMAIN ui /\ ~ui.submitting
  BY DEF S!Shell, S!Login
<1> QED
  BY <1>2, <1>3, <1>4 DEF SessionInv, Single

LEMMA SessionInit == ASSUME S!Init PROVE SessionInv
BY SessionOpens DEF S!Init

LEMMA SessionGoes ==
  ASSUME NEW v, NEW url, S!GoTo(S!Shell(v)) \/ S!GoTo(S!Login(v, url))
  PROVE  SessionInv'
<1>1. /\ pending' = Opening(<<Request("whoami", None)>>)
      /\ ui' \in {S!Shell(v), S!Login(v, url)}
  BY DEF S!GoTo, S!Opening, S!Request, S!NoCall, S!Calls, Opening, Request, NoCall, Calls
<1>2. CallsInv' /\ Logins' = {}
  BY <1>1 DEF CallsInv, Logins, Opening, Request, NoCall
<1>3. /\ "place" \in DOMAIN ui'
      /\ \/ ui'.place = "app"
         \/ ui'.place = "login" /\ "submitting" \in DOMAIN ui' /\ ~ui'.submitting
  BY <1>1 DEF S!Shell, S!Login
<1> QED
  BY <1>2, <1>3 DEF SessionInv, Single

\* A step on the page whose logins stay the same.
LEMMA SessionStays ==
  ASSUME SessionInv, CallsInv', Logins' = Logins, DOMAIN ui' = DOMAIN ui,
         ui'.place = ui.place, "submitting" \in DOMAIN ui => ui'.submitting = ui.submitting
  PROVE  SessionInv'
BY DEF SessionInv

LEMMA SessionServe ==
  ASSUME SessionInv, S!Expire \/ \E c \in Calls : S!Serve(c) PROVE SessionInv'
<1>1. CASE S!Expire
  <2>1. ui' = ui /\ pending' = pending
    BY <1>1 DEF S!Expire
  <2>2. CallsInv' /\ Logins' = Logins
    BY <2>1 DEF SessionInv, CallsInv, Logins
  <2> QED
    BY <2>1, <2>2, SessionStays
<1>2. ASSUME NEW c \in Calls, S!Serve(c) PROVE SessionInv'
  <2>1. ui' = ui /\ \E a : pending' = [pending EXCEPT ![c].ans = a]
    BY <1>2 DEF S!Serve, S!ServeWhoAmI, S!ServeFlow, S!ServeLogin, S!RefuseCall,
                S!Reply, S!Refuse
  <2>2. CallsInv' /\ SameCalls
    BY <2>1, AnswerChanges DEF SessionInv
  <2>3. Logins' = Logins
    BY <2>2 DEF SameCalls, Logins
  <2> QED
    BY <2>1, <2>2, <2>3, SessionStays
<1> QED
  BY <1>1, <1>2

LEMMA SessionUser == ASSUME SessionInv, S!Logout \/ S!Submit PROVE SessionInv'
<1>1. CallsInv /\ "place" \in DOMAIN ui
  BY DEF SessionInv
<1>2. CASE S!Logout
  <2>1. ui' = ui /\ Ask("logout", None)
    BY <1>2, SessionCalls DEF S!Logout
  <2>2. PICK c \in Calls : /\ pending[c].op = "none" /\ Becomes(c, "logout", None)
                           /\ CallsInv'
    BY <1>1, <2>1, AskChanges
  <2>3. Logins' = Logins
    BY <2>2 DEF Becomes, Logins
  <2> QED
    BY <2>1, <2>2, <2>3, SessionStays
<1>3. CASE S!Submit
  <2>1. /\ ui.place = "login" /\ ~ui.submitting
        /\ Ask("login", None) /\ ui' = [ui EXCEPT !.submitting = TRUE]
    BY <1>3, SessionCalls DEF S!Submit, S!CanSubmit
  <2>2. Logins = {} /\ "submitting" \in DOMAIN ui
    BY <2>1 DEF SessionInv
  <2>3. PICK c \in Calls : Becomes(c, "login", None) /\ CallsInv'
    BY <1>1, <2>1, AskChanges
  <2>4. Logins' = {c}
    BY <2>2, <2>3 DEF Becomes, Logins
  <2>5. /\ "place" \in DOMAIN ui' /\ ui'.place = "login"
        /\ "submitting" \in DOMAIN ui' /\ ui'.submitting
    BY <1>1, <2>1, <2>2
  <2> QED
    BY <2>3, <2>4, <2>5 DEF SessionInv, Single
<1> QED
  BY <1>2, <1>3

LEMMA SessionContinue == ASSUME SessionInv, NEW c \in Calls, S!Continue(c) PROVE SessionInv'
<1>1. CallsInv /\ "place" \in DOMAIN ui
  BY DEF SessionInv
<1>2. ASSUME \E url : S!ToShell \/ S!ToLogin(url) PROVE SessionInv'
  BY <1>2, SessionGoes DEF S!ToShell, S!ToLogin
<1>3. CASE \/ S!OnNoUser(c) \/ S!OnLogout(c) \/ S!OnLogoutError(c)
           \/ S!OnActiveSession(c) \/ S!OnNoFlow(c) \/ S!OnLoggedIn(c)
  BY <1>2, <1>3 DEF S!OnNoUser, S!OnLogout, S!OnLogoutError, S!OnActiveSession,
                    S!OnNoFlow, S!OnLoggedIn, S!ToKratos
<1>4. ASSUME pending[c].op # "login", DOMAIN ui' = DOMAIN ui, ui'.place = ui.place,
             "submitting" \in DOMAIN ui => ui'.submitting = ui.submitting,
             NEW op \in {"none", "flow"}, Becomes(c, op, None), CallsInv'
      PROVE  SessionInv'
  <2>1. Logins' = Logins
    BY <1>4 DEF Logins, Becomes
  <2> QED
    BY <1>4, <2>1, SessionStays
<1>5. CASE S!OnNoSession(c)
  <2>1. CASE ui.url = "bare"
    BY <1>2, <1>5, <2>1 DEF S!OnNoSession, S!ToKratos
  <2>2. CASE ui.url # "bare"
    <3>1. pending[c].op # "login" /\ Await(c, "flow", None) /\ ui' = ui
      BY <1>5, <2>2, SessionCalls DEF S!OnNoSession
    <3> QED
      BY <1>1, <1>4, <3>1, AwaitChanges
  <2> QED
    BY <2>1, <2>2
<1>6. CASE S!OnUser(c) \/ S!OnFlow(c)
  <2>1. /\ pending[c].op # "login" /\ Return(c)
        /\ DOMAIN ui' = DOMAIN ui /\ ui'.place = ui.place
        /\ "submitting" \in DOMAIN ui => ui'.submitting = ui.submitting
    BY <1>1, <1>6, SessionCalls DEF S!OnUser, S!OnFlow
  <2> QED
    BY <1>1, <1>4, <2>1, ReturnChanges
<1>7. CASE S!OnLoginError(c)
  <2>1. /\ pending[c].op = "login" /\ Return(c) /\ ui' = [ui EXCEPT !.submitting = FALSE]
    BY <1>7, SessionCalls DEF S!OnLoginError
  <2>2. /\ Logins = {c} /\ ui.place = "login" /\ "submitting" \in DOMAIN ui
    BY <2>1 DEF SessionInv, Logins, Single
  <2>3. Becomes(c, "none", None) /\ CallsInv'
    BY <1>1, <2>1, ReturnChanges
  <2>4. Logins' = {}
    BY <2>2, <2>3 DEF Becomes, Logins
  <2>5. /\ "place" \in DOMAIN ui' /\ ui'.place = "login"
        /\ "submitting" \in DOMAIN ui' /\ ~ui'.submitting
    BY <1>1, <2>1, <2>2
  <2> QED
    BY <2>3, <2>4, <2>5 DEF SessionInv, Single
<1> QED
  BY <1>3, <1>5, <1>6, <1>7 DEF S!Continue

LEMMA SessionNext == ASSUME SessionInv, S!Next PROVE SessionInv'
BY SessionUser, SessionServe, SessionContinue DEF S!Next, S!Calls, Calls

LEMMA SessionSentOnce == ASSUME SessionInv PROVE S!SentOnce
<1>1. Cardinality(Logins) <= 1 /\ (ui.place = "login" => (ui.submitting <=> Logins # {}))
  BY SingleIsOne DEF SessionInv
<1>2. Logins = {c \in S!Calls : pending[c].op = "login"}
  BY DEF Logins, S!Calls, Calls
<1>3. S!Cardinality(Logins) <= 1
  BY <1>1, PagesCount
<1> HIDE DEF Logins
<1> QED
  BY <1>1, <1>2, <1>3 DEF S!SentOnce

----------------------------------------------------------------------------
(* All the forms of the portal *)

FormsInv ==
  /\ page = "imports" => ImportsInv
  /\ page = "products" => ProductsInv
  /\ page = "categories" => CategoriesInv
  /\ page = "users" => UsersInv
  /\ page = "session" => SessionInv

\* What a form sends is sent once for a press: an upload of a price list, a new
\* card with its photos, a new category or the run over the mappings, a new user
\* and a login, whatever is pressed, answered or lost meanwhile and however many
\* handlers wait.
THEOREM FormsAreSentOnce == Spec => []SentOnce
<1>1. Init => FormsInv
  BY ImportsInit, ProductsInit, CategoriesInit, UsersInit, SessionInit DEF Init, FormsInv
<1>2. FormsInv /\ [Next]_vars => FormsInv'
  <2> SUFFICES ASSUME FormsInv, [Next]_vars PROVE FormsInv'
    OBVIOUS
  <2>1. CASE Next
    <3>1. page' = page
      BY <2>1 DEF Next
    <3>2. /\ page = "imports" => I!Next
          /\ page = "products" => L!Next
          /\ page = "categories" => K!Next
          /\ page = "users" => U!Next
          /\ page = "session" => S!Next
      BY <2>1 DEF Next
    <3>3. page = "imports" => ImportsInv'
      BY <3>2, ImportsNext DEF FormsInv
    <3>4. page = "products" => ProductsInv'
      BY <3>2, ProductsNext DEF FormsInv
    <3>5. page = "categories" => CategoriesInv'
      BY <3>2, CategoriesNext DEF FormsInv
    <3>6. page = "users" => UsersInv'
      BY <3>2, UsersNext DEF FormsInv
    <3>7. page = "session" => SessionInv'
      BY <3>2, SessionNext DEF FormsInv
    <3> QED
      BY <3>1, <3>3, <3>4, <3>5, <3>6, <3>7 DEF FormsInv
  <2>2. CASE UNCHANGED vars
    BY <2>2 DEF vars, FormsInv, ImportsInv, ProductsInv, CategoriesInv, UsersInv,
                SessionInv, CallsInv, ImportAnswers, Uploads, Creating, Of, Logins, Quiet,
                Idle
  <2> QED
    BY <2>1, <2>2
<1>3. FormsInv => SentOnce
  BY ImportsSentOnce, ProductsSentOnce, CategoriesSentOnce, UsersSentOnce, SessionSentOnce
  DEF FormsInv, SentOnce
<1> QED
  BY <1>1, <1>2, <1>3, PTL DEF Spec
=============================================================================
