------------------------------ MODULE UsersPage ------------------------------
(* The page "Пользователи" (web/app/(app)/users/page.tsx) and its table      *)
(* (web/components/users-table.tsx). Users are made here, and not deleted.   *)
EXTENDS WebCalls, Pager, FiniteSets

CONSTANTS MaxUsers

VARIABLES
  ui,    \* whose page it is, what it lists, its table while there is one
  db     \* how many users there are
vars == <<ui, db, pending>>

\* A manager's page asks for nothing and shows no list.
Init ==
  /\ db \in 1..(MaxUsers - 1)
  /\ \E admin \in BOOLEAN :
       /\ ui = [admin |-> admin, loading |-> admin, rows |-> 0, saving |-> FALSE,
                table |-> NoTable]
       /\ pending = IF admin THEN Opening(<<Request("load", "page")>>) ELSE NoCalls

CanCreate(u) == u.admin /\ ~u.saving

OnCreate ==
  /\ CanCreate(ui)
  /\ Ask("create", None)
  /\ ui' = [ui EXCEPT !.saving = TRUE]
  /\ UNCHANGED db

TurnPage ==
  /\ ui.table # NoTable
  /\ \E t \in Turned(ui.table, ui.rows) : ui' = [ui EXCEPT !.table = t]
  /\ UNCHANGED <<db, pending>>

ServeList(c) ==
  /\ Waiting(c) /\ pending[c].op = "load"
  /\ Reply(c, db)
  /\ UNCHANGED <<ui, db>>
ServeCreate(c) ==
  /\ Waiting(c) /\ pending[c].op = "create" /\ db < MaxUsers
  /\ db' = db + 1
  /\ Reply(c, "ok")
  /\ UNCHANGED ui
RefuseCall(c) == Refuse(c) /\ UNCHANGED <<ui, db>>

\* load ends, and with it the handler that called it.
Ended(u, for) ==
  [u EXCEPT !.loading = FALSE,
            !.saving = IF for = "create" THEN FALSE ELSE u.saving]

OnLoad(c) ==
  /\ Ok(c) /\ pending[c].op = "load"
  /\ ui' = Ended([ui EXCEPT !.rows = pending[c].ans, !.table = Refreshed(@)],
                 pending[c].arg)
  /\ Return(c)
  /\ UNCHANGED db

OnLoadError(c) ==
  /\ Answered(c) /\ ~Ok(c) /\ pending[c].op = "load"
  /\ ui' = Ended([ui EXCEPT !.table = Uncovered(@)], pending[c].arg)
  /\ Return(c)
  /\ UNCHANGED db

OnCreated(c) ==
  /\ Ok(c) /\ pending[c].op = "create"
  /\ ui' = [ui EXCEPT !.loading = TRUE, !.table = NoTable]
  /\ Await(c, "load", "create")
  /\ UNCHANGED db
OnCreateError(c) ==
  /\ Answered(c) /\ ~Ok(c) /\ pending[c].op = "create"
  /\ ui' = [ui EXCEPT !.saving = FALSE]
  /\ Return(c)
  /\ UNCHANGED db

Serve(c) == ServeList(c) \/ ServeCreate(c) \/ RefuseCall(c)
Continue(c) == OnLoad(c) \/ OnLoadError(c) \/ OnCreated(c) \/ OnCreateError(c)
Next == OnCreate \/ TurnPage \/ \E c \in Calls : Serve(c) \/ Continue(c)
Spec == Init /\ [][Next]_vars

TypeOK ==
  /\ db \in 1..MaxUsers /\ ui.rows \in 0..MaxUsers
  /\ ui.table # NoTable => ui.table \in [index : 0..MaxUsers, size : Sizes] /\ ~ui.loading

\* The form is not sent twice: the button is out until the list of the new user
\* has come or failed. A page opened by a manager sends nothing.
SentOnce ==
  LET creates == {c \in Calls : \/ pending[c].op = "create"
                                \/ pending[c].op = "load" /\ pending[c].arg = "create"}
  IN /\ Cardinality(creates) <= 1 /\ (ui.saving <=> creates # {})
     /\ ~ui.admin => Quiet

Busy ==
  LET shown == [list |-> ui.loading, work |-> ui.saving]
  IN {x \in DOMAIN shown : shown[x]}
=============================================================================
