---------------------------- MODULE ConsoleSessions ----------------------------
(***************************************************************************)
(* The console's side of the login (lib/api.ts, lib/auth.tsx, the login    *)
(* and setup pages, the password form), in several tabs of one browser,    *)
(* against the server of AdminSessions.                                    *)
(*                                                                         *)
(* A tab has four places for a request: "flow" for start, login and setup, *)
(* "form" for the password form, "poll" for the status panel, which asks   *)
(* every 15 seconds while the console is on screen, and "logout".  A form  *)
(* that is put up anew waits for the request of the one before.  A guest   *)
(* is another browser, which signs in, sets up and changes the password.   *)
(***************************************************************************)
EXTENDS AdminSessions

CONSTANTS
    Tabs,
    Guests,
    Remembers,    \* what may be ticked in the login form
    MaxChanges    \* bound on password changes

VARIABLES
    status,    \* status[tab] of AuthProvider: which page is on screen
    own,       \* own[tab]: the tab's sessionStorage
    shared,    \* the localStorage of the browser: a token, `remember me'
    keep,      \* keep[tab]: the `remember me' of the login under way
    revoked,   \* revoked[tab]: the token its last answered logout was for
    changes

tabVars == <<status, own, shared, keep, revoked, changes>>

vars == <<password, sessions, minted, upsets, call, tabVars>>

Places == Tabs \X {"flow", "form", "poll", "logout"}

AllCallers == Guests \cup Places

ASSUME RememberAssumption == Remembers \subseteq BOOLEAN

ASSUME CallersAssumption == Callers = AllCallers /\ Guests \cap Places = {}

Flow(tab) == <<tab, "flow">>
Form(tab) == <<tab, "form">>
Poll(tab) == <<tab, "poll">>
Out(tab) == <<tab, "logout">>

NothingShared == [token |-> NoToken, remember |-> FALSE]

\* getToken: the tab's own token before the one the tabs share.
TokenOf(tab) == IF own[tab] # NoToken THEN own[tab] ELSE shared.token

SetToken(tab, t, remember) ==
    /\ own' = [own EXCEPT ![tab] = t]
    /\ shared' = IF remember THEN [token |-> t, remember |-> TRUE] ELSE NothingShared

\* What the tabs share is left behind.
ClearToken_OwnOnly(tab) == own' = [own EXCEPT ![tab] = NoToken] /\ UNCHANGED shared

ClearToken(tab) == SetToken(tab, NoToken, FALSE)

IsIdle(c) == call[c].pc = "idle"

Answered(c, op) == At(c, op, "answered")

Send(c, op, t, pw) == call' = [call EXCEPT ![c] = Request(op, t, pw)]

Done(c) == call' = [call EXCEPT ![c] = Idle]

Show(tab, s) == status' = [status EXCEPT ![tab] = s]

\* A 401 is an error like another.
Unauthorized_Unheard(tab, answer) == UNCHANGED status

\* The handler AuthProvider registers, for an answer that is a 401.
Unauthorized(tab, answer) ==
    Show(tab, CASE answer = "unauthorized" -> "anonymous"
                [] answer = "setup" -> "setup"
                [] OTHER -> status[tab])

-----------------------------------------------------------------------------
(* AuthProvider's effect, when a tab is opened or reloaded. *)

AskStatus(tab) ==
    /\ status[tab] = "loading" /\ IsIdle(Flow(tab))
    /\ Send(Flow(tab), "status", NoToken, NoPassword)
    /\ UNCHANGED <<serverVars, tabVars>>

TakeStatus(tab) ==
    /\ Answered(Flow(tab), "status")
    /\ LET a == call[Flow(tab)].answer
       IN  \/ /\ a = "setup" /\ Show(tab, "setup") /\ Done(Flow(tab))
           \/ /\ a = "refused" \/ (a = "ok" /\ TokenOf(tab) = NoToken)
              /\ Show(tab, "anonymous") /\ Done(Flow(tab))
           \/ /\ a = "ok" /\ TokenOf(tab) # NoToken
              /\ Send(Flow(tab), "version", TokenOf(tab), NoPassword)
              /\ UNCHANGED status
    /\ UNCHANGED <<serverVars, own, shared, keep, revoked, changes>>

\* GET /version ends the start of a tab, with no password at hand, or a login.
TakeVersion(tab) ==
    /\ Answered(Flow(tab), "version")
    /\ LET a == call[Flow(tab)].answer
       IN  IF a = "ok" THEN Show(tab, "authed")
           ELSE IF a = "refused" /\ status[tab] = "loading" THEN Show(tab, "anonymous")
           ELSE Unauthorized(tab, a)
    /\ IF status[tab] # "loading" /\ call[Flow(tab)].answer # "ok"
       THEN ClearToken(tab) ELSE UNCHANGED <<own, shared>>
    /\ Done(Flow(tab))
    /\ UNCHANGED <<serverVars, keep, revoked, changes>>

-----------------------------------------------------------------------------
(* The login page and the setup page. *)

\* Disabled while the request of its form is under way, which `busy' of its page says.
SubmitButton(tab) == IsIdle(Flow(tab))

SubmitLogin(tab) ==
    /\ status[tab] = "anonymous" /\ SubmitButton(tab)
    /\ \E pw \in Passwords, remember \in Remembers :
          /\ Send(Flow(tab), "login", NoToken, pw)
          /\ keep' = [keep EXCEPT ![tab] = remember]
    /\ UNCHANGED <<serverVars, status, own, shared, revoked, changes>>

TakeLogin(tab) ==
    /\ Answered(Flow(tab), "login")
    /\ LET m == call[Flow(tab)]
       IN  \/ /\ m.answer = "ok"
              /\ SetToken(tab, m.got, keep[tab])
              /\ Send(Flow(tab), "version", m.got, NoPassword)
              /\ UNCHANGED status
           \/ /\ m.answer # "ok"
              /\ Unauthorized(tab, m.answer)
              /\ Done(Flow(tab))
              /\ UNCHANGED <<own, shared>>
    /\ keep' = [keep EXCEPT ![tab] = FALSE]
    /\ UNCHANGED <<serverVars, revoked, changes>>

SubmitSetup(tab) ==
    /\ status[tab] = "setup" /\ SubmitButton(tab)
    /\ \E pw \in Passwords : Send(Flow(tab), "setup", NoToken, pw)
    /\ UNCHANGED <<serverVars, tabVars>>

TakeSetup(tab) ==
    /\ Answered(Flow(tab), "setup")
    /\ LET m == call[Flow(tab)]
       IN  IF m.answer = "ok"
           THEN SetToken(tab, m.got, TRUE) /\ Show(tab, "authed")
           ELSE UNCHANGED <<own, shared, status>>
    /\ Done(Flow(tab))
    /\ UNCHANGED <<serverVars, keep, revoked, changes>>

-----------------------------------------------------------------------------
(* The console proper. *)

\* The form for a new password, filled in; a change under way disables it.
PasswordForm(tab) == status[tab] = "authed" /\ IsIdle(Form(tab))

SubmitChange(tab) ==
    /\ PasswordForm(tab) /\ changes < MaxChanges
    /\ \E pw \in Passwords : Send(Form(tab), "change", TokenOf(tab), pw)
    /\ changes' = changes + 1
    /\ UNCHANGED <<serverVars, status, own, shared, keep, revoked>>

\* onSuccess runs whether or not the form is still on screen.
TakeChange(tab) ==
    /\ Answered(Form(tab), "change")
    /\ LET m == call[Form(tab)]
       IN  /\ Unauthorized(tab, m.answer)
           /\ IF m.answer = "ok" THEN SetToken(tab, m.got, shared.remember)
              ELSE UNCHANGED <<own, shared>>
    /\ Done(Form(tab))
    /\ UNCHANGED <<serverVars, keep, revoked, changes>>

Ask(tab) ==
    /\ status[tab] = "authed" /\ IsIdle(Poll(tab))
    /\ Send(Poll(tab), "poll", TokenOf(tab), NoPassword)
    /\ UNCHANGED <<serverVars, tabVars>>

\* A 401 counts whatever the tab shows by then.
TakePoll(tab) ==
    /\ Answered(Poll(tab), "poll")
    /\ Unauthorized(tab, call[Poll(tab)].answer)
    /\ Done(Poll(tab))
    /\ UNCHANGED <<serverVars, own, shared, keep, revoked, changes>>

ClickLogout(tab) ==
    /\ status[tab] = "authed" /\ IsIdle(Out(tab))
    /\ Send(Out(tab), "logout", TokenOf(tab), NoPassword)
    /\ UNCHANGED <<serverVars, tabVars>>

\* An error is swallowed: the local copy goes either way.
TakeLogout(tab) ==
    /\ Answered(Out(tab), "logout")
    /\ ClearToken(tab)
    /\ Show(tab, "anonymous")
    /\ revoked' = IF call[Out(tab)].answer = "ok"
                  THEN [revoked EXCEPT ![tab] = call[Out(tab)].token] ELSE revoked
    /\ Done(Out(tab))
    /\ UNCHANGED <<serverVars, keep, changes>>

\* Reloading a tab keeps its sessionStorage, opening it anew does not.  Nobody does
\* while a request other than a poll is under way.
Reload(tab) ==
    /\ upsets < MaxUpsets
    /\ status[tab] # "loading"
    /\ IsIdle(Flow(tab)) /\ IsIdle(Form(tab)) /\ IsIdle(Out(tab))
    /\ call' = [call EXCEPT ![Poll(tab)] = Idle]
    /\ \E t \in {own[tab], NoToken} : own' = [own EXCEPT ![tab] = t]
    /\ Show(tab, "loading")
    /\ upsets' = upsets + 1
    /\ UNCHANGED <<password, sessions, minted, shared, keep, revoked, changes>>

\* A guest asks again when it has its answer; its token is the last it got.
Visit(g) ==
    /\ call[g].pc \in {"idle", "answered"}
    /\ \E pw \in Passwords :
          \/ Send(g, "setup", NoToken, pw) /\ UNCHANGED changes
          \/ Send(g, "login", NoToken, pw) /\ UNCHANGED changes
          \/ /\ call[g].got # NoToken /\ changes < MaxChanges
             /\ Send(g, "change", call[g].got, pw)
             /\ changes' = changes + 1
    /\ UNCHANGED <<serverVars, status, own, shared, keep, revoked>>

-----------------------------------------------------------------------------

Take(tab) ==
    \/ TakeStatus(tab) \/ TakeVersion(tab) \/ TakeLogin(tab) \/ TakeSetup(tab)
    \/ TakeChange(tab) \/ TakePoll(tab) \/ TakeLogout(tab)

Operate(tab) == SubmitLogin(tab) \/ SubmitSetup(tab) \/ SubmitChange(tab)
                \/ ClickLogout(tab) \/ Reload(tab)

Init ==
    /\ SessionInit
    /\ call = [c \in Callers |-> Idle]
    /\ status = [tab \in Tabs |-> "loading"]
    /\ own = [tab \in Tabs |-> NoToken]
    /\ shared = NothingShared
    /\ keep = [tab \in Tabs |-> FALSE]
    /\ revoked = [tab \in Tabs |-> NoToken]
    /\ changes = 0

ServeCall == \E c \in Callers : Serve(c) /\ UNCHANGED tabVars

Passing == (\E t \in Tokens : Expire(t)) \/ Restart

Next ==
    \/ ServeCall
    \/ Passing /\ UNCHANGED tabVars
    \/ \E g \in Guests : Visit(g)
    \/ \E tab \in Tabs : AskStatus(tab) \/ Ask(tab) \/ Take(tab) \/ Operate(tab)

\* Requests are served and answered, and the panel keeps asking; what the
\* operator does, and when a session ends, is nobody's promise.
Fairness ==
    /\ \A c \in Callers : WF_vars(Serve(c) /\ UNCHANGED tabVars)
    /\ \A tab \in Tabs : WF_vars(AskStatus(tab)) /\ WF_vars(Ask(tab)) /\ WF_vars(Take(tab))

Spec == Init /\ [][Next]_vars /\ Fairness

-----------------------------------------------------------------------------

\* A logout the server answered has ended the session it was clicked in: the
\* server does not accept the token, and neither the tab nor the storage the tabs
\* share holds it, whatever polls, logins and password changes were under way.
LogoutEnds ==
    \A tab \in Tabs :
       LET t == revoked[tab]
       IN  t # NoToken => ~Valid(t) /\ t # own[tab] /\ t # shared.token

\* The password of a configured gateway changes only on a request that held a
\* live session when it passed the gate: two browsers that both found the setup
\* page cannot overwrite each other (handler.go:3917-3920).
OnlyTheSignedInChange ==
    [][Configured /\ password' # password
         => \E c \in Callers : At(c, "change", "gated") /\ call[c].pw = password']_vars

\* A tab does not stay on the console with a token the server refuses, nor on
\* its start screen: a status poll or the next request takes it to the login.
DeadTabNotices ==
    \A tab \in Tabs :
       (status[tab] = "loading" \/ (status[tab] = "authed" /\ ~Valid(TokenOf(tab))))
          ~> (status[tab] # "loading" /\ (status[tab] = "authed" => Valid(TokenOf(tab))))
=============================================================================
