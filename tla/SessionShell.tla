---------------------------- MODULE SessionShell ----------------------------
(* Coming in and going out (web/lib/session.tsx, app/(app)/layout.tsx,       *)
(* app/auth/login/page.tsx): the shell around the pages asks Ory Kratos who  *)
(* the user is, and the login page gets a flow of Kratos' and submits it.    *)
EXTENDS WebCalls, FiniteSets

CONSTANTS Roles

VARIABLES
  ui,
  db     \* Kratos' session of this browser
vars == <<ui, db, pending>>

\* The shell and the login form are mounted anew when one comes to them.
\* `visit` is history, a bit that each such mount turns.
Shell(v) == [place |-> "app", visit |-> v, loading |-> TRUE, user |-> None]
Login(v, url) == [place |-> "login", visit |-> v, url |-> url, flow |-> None,
                  submitting |-> FALSE]

\* Whoever left the page does not hear the answers to its calls: the login page
\* cancels, a full load forgets.
GoTo(where) ==
  /\ ui' = where
  /\ pending' = Opening(<<Request("whoami", None)>>)
ToShell == GoTo(Shell(~ui.visit))
ToLogin(url) == GoTo(Login(~ui.visit, url))

Init ==
  /\ db \in Roles \cup {None}
  /\ ui \in {Shell(TRUE), Login(TRUE, "bare")}
  /\ pending = Opening(<<Request("whoami", None)>>)

(* Kratos. *)

ServeWhoAmI(c) ==
  /\ Waiting(c) /\ pending[c].op = "whoami"
  /\ Reply(c, IF db = None THEN Failed ELSE db)
  /\ UNCHANGED <<ui, db>>
ServeFlow(c) ==
  /\ Waiting(c) /\ pending[c].op \in {"flow", "logout"}
  /\ Reply(c, "ok")
  /\ UNCHANGED <<ui, db>>
ServeLogin(c) ==
  /\ Waiting(c) /\ pending[c].op = "login"
  /\ db' \in Roles
  /\ Reply(c, "ok")
  /\ UNCHANGED ui
RefuseCall(c) == Refuse(c) /\ UNCHANGED <<ui, db>>

\* A session ends by itself, and what is on the screen stays.
Expire ==
  /\ db # None
  /\ db' = None
  /\ UNCHANGED <<ui, pending>>

(* The shell. *)

OnUser(c) ==
  /\ Ok(c) /\ pending[c].op = "whoami" /\ ui.place = "app"
  /\ ui' = [ui EXCEPT !.user = pending[c].ans, !.loading = FALSE]
  /\ Return(c)
  /\ UNCHANGED db
\* No answer is as good as no session.
OnNoUser(c) ==
  /\ Answered(c) /\ ~Ok(c) /\ pending[c].op = "whoami" /\ ui.place = "app"
  /\ ToLogin("bare")
  /\ UNCHANGED db

Logout ==
  /\ ui.place = "app" /\ ui.user # None
  /\ \A c \in Calls : pending[c].op # "logout"
  /\ Ask("logout", None)
  /\ UNCHANGED <<ui, db>>
\* The browser goes to Kratos, which ends the session and sends it back.
OnLogout(c) ==
  /\ Ok(c) /\ pending[c].op = "logout"
  /\ db' = None
  /\ ToLogin("bare")
\* Kratos has not answered: the login page, and the session lives.
OnLogoutError(c) ==
  /\ Answered(c) /\ ~Ok(c) /\ pending[c].op = "logout"
  /\ ToLogin("bare")
  /\ UNCHANGED db

(* The login page. *)

OnActiveSession(c) ==
  /\ Ok(c) /\ pending[c].op = "whoami" /\ ui.place = "login"
  /\ ToShell
  /\ UNCHANGED db
\* Kratos makes a flow and sends the browser back with it; whoever has a
\* session it sends into the portal.
ToKratos == IF db # None THEN ToShell ELSE ToLogin("flow")
\* As a slip: the flow it was sent back with is not looked at.
OnNoSessionAlwaysAsks(c) ==
  /\ Answered(c) /\ ~Ok(c) /\ pending[c].op = "whoami" /\ ui.place = "login"
  /\ ToKratos
  /\ UNCHANGED db
OnNoSession(c) ==
  /\ Answered(c) /\ ~Ok(c) /\ pending[c].op = "whoami" /\ ui.place = "login"
  /\ IF ui.url = "bare" THEN ToKratos
     ELSE Await(c, "flow", None) /\ UNCHANGED ui
  /\ UNCHANGED db
OnFlow(c) ==
  /\ Ok(c) /\ pending[c].op = "flow"
  /\ ui' = [ui EXCEPT !.flow = "open"]
  /\ Return(c)
  /\ UNCHANGED db
OnNoFlow(c) ==
  /\ Answered(c) /\ ~Ok(c) /\ pending[c].op = "flow"
  /\ ToKratos
  /\ UNCHANGED db

CanSubmit(u) == u.place = "login" /\ u.flow # None /\ ~u.submitting
Submit ==
  /\ CanSubmit(ui)
  /\ Ask("login", None)
  /\ ui' = [ui EXCEPT !.submitting = TRUE]
  /\ UNCHANGED db
OnLoggedIn(c) ==
  /\ Ok(c) /\ pending[c].op = "login"
  /\ ToShell
  /\ UNCHANGED db
OnLoginError(c) ==
  /\ Answered(c) /\ ~Ok(c) /\ pending[c].op = "login"
  /\ ui' = [ui EXCEPT !.submitting = FALSE]
  /\ Return(c)
  /\ UNCHANGED db

Serve(c) == ServeWhoAmI(c) \/ ServeFlow(c) \/ ServeLogin(c) \/ RefuseCall(c)
Continue(c) ==
  \/ OnUser(c) \/ OnNoUser(c) \/ OnLogout(c) \/ OnLogoutError(c)
  \/ OnActiveSession(c) \/ OnNoSession(c) \/ OnFlow(c) \/ OnNoFlow(c)
  \/ OnLoggedIn(c) \/ OnLoginError(c)
Next == Expire \/ Logout \/ Submit \/ \E c \in Calls : Serve(c) \/ Continue(c)
Spec == Init /\ [][Next]_vars

TypeOK ==
  /\ db \in Roles \cup {None}
  /\ ui.place = "app" => ui.user \in Roles \cup {None} /\ (ui.loading <=> ui.user = None)
  /\ ui.place = "login" => ui.flow \in {None, "open"}

\* A login is sent once for a press, however slow Kratos is.
SentOnce ==
  LET logins == {c \in Calls : pending[c].op = "login"}
  IN /\ Cardinality(logins) <= 1
     /\ ui.place = "login" => (ui.submitting <=> logins # {})

\* The parts of NavigationEnds (see Portal): no call fails, but that Kratos says
\* there is no session; the session is this one; no mount has followed.
NoneFails ==
  \A c \in Calls : pending'[c].ans = Failed
    => pending[c] = pending'[c] \/ (pending'[c].op = "whoami" /\ db = None)
SessionIs(s) == db = s
AtVisit(v) == ui.visit = v

Busy ==
  LET shown == [list |-> ui.place = "app" /\ ui.loading,
                work |-> ui.place = "login" /\ ui.submitting]
  IN {x \in DOMAIN shown : shown[x]}
=============================================================================
