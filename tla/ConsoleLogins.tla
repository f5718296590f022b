----------------------------- MODULE ConsoleLogins -----------------------------
(***************************************************************************)
(* The dialog that adds accounts (pages/accounts/add-account-dialog.tsx)   *)
(* and its forms that log in: by a device code, by a callback address that *)
(* is pasted, and through Kiro's hosted page, whose server side            *)
(* (auth/kiro_sso.go) holds the one loopback port its callback comes to.   *)
(*                                                                         *)
(* A form that is mounted anew is another form.  At most MaxForms are      *)
(* mounted.  A form's session has the form's number: it starts one.  What  *)
(* a provider says of a device code or of a pasted address may be anything *)
(* at any time, so only the hosted page's sessions are kept.               *)
(***************************************************************************)
EXTENDS ConsoleAccounts

CONSTANT MaxForms

VARIABLES
    login,      \* login[f]: the handler of form f
    sessions,   \* the server: sessions of the hosted page
    relay,      \* relay[f]: the pasted address of form f that is under way
    cancels     \* sessions for which a cancellation is under way

loginVars == <<login, sessions, relay, cancels>>

Forms == 1 .. MaxForms

\* at: where its request is; seen: the form shows its session; done: it has logged in.
NoLogin == [kind |-> "none", pc |-> "idle", at |-> "none", res |-> "none",
            seen |-> FALSE, done |-> FALSE]

LoginsInit ==
    /\ login = [f \in Forms |-> NoLogin]
    /\ sessions = [f \in Forms |-> "none"]
    /\ relay = [f \in Forms |-> "none"]
    /\ cancels = {}

-----------------------------------------------------------------------------
(* The dialog.  ui.draft is the form that is shown. *)

METHODS == {"builderid", "grokDevice", "iam", "kirosso", "ssotoken", "local", "credentials",
            "cookie", "codebuddy", "codexImport", "clinepassImport", "opencodeZenImport",
            "opencodeGoImport", "commandCodeImport", "openaiCompat", "anthropicCompat",
            "grokImport"}

NoForm == [form |-> 0, method |-> "none"]

AddIsOpen == On("add") /\ ui.open = AllIds

Mounted(f) == ui.open = AllIds /\ ui.draft.form = f /\ ui.draft.method # "none"

\* Every form but the picker is mounted when its method is chosen.
Choosing(method) ==
    [ui EXCEPT !.open = AllIds,
               !.draft = [form |-> IF method = "none" THEN @.form ELSE @.form + 1,
                          method |-> method]]

CanMount == ui.draft.form < MaxForms

\* Whoever opens the dialog may choose the method, too.
OpenAdd ==
    /\ On("add") /\ ui.open = Nobody
    /\ \E method \in METHODS \cup {"none"} :
          /\ method = "none" \/ CanMount
          /\ Touch(Choosing(method))
    /\ UNCHANGED loginVars

PickMethod ==
    /\ AddIsOpen /\ ui.draft.method = "none" /\ CanMount
    /\ \E method \in METHODS : Touch(Choosing(method))
    /\ UNCHANGED loginVars

\* A login that is over has nothing to cancel; nor is a session known to a form
\* that was gone when it started.
Cleanup_Forgets(ls) == cancels

\* The form that is left frees the port.
Cleanup(ls) ==
    cancels \cup {f \in Forms : /\ Mounted(f)
                                /\ ls[f].kind = "kirosso" /\ ls[f].seen /\ ~ls[f].done}

Leave(newUi) ==
    /\ Touch(newUi)
    /\ cancels' = Cleanup(login)
    /\ UNCHANGED <<login, sessions, relay>>

\* The method is forgotten when the dialog opens again.
Closed(u) == [u EXCEPT !.open = Nobody, !.draft.method = "none"]

LeaveForm ==
    /\ AddIsOpen
    /\ \/ ui.draft.method # "none" /\ Leave(Choosing("none"))
       \/ Leave(Closed(ui))

\* The usage of each new account is fetched, and the list with every answer.  One
\* request stands for all.
AfterAdd(n) == {[Req("afterAdd", AllIds, AccountsQ) EXCEPT !.n = n]}

TakeAfterAdd(c) ==
    /\ Answered(c, {"afterAdd"})
    /\ Settle(c, {}, AccountsQ, ui)
    /\ UNCHANGED loginVars

-----------------------------------------------------------------------------
(* Forms that log in. *)

alive(f) == Mounted(f)

At(f, pc, at) == login[f].pc = pc /\ login[f].at = at

Goes(f, changes) == login' = [login EXCEPT ![f] = changes]

OnlyLogin == UNCHANGED <<coreVars, sessions, relay, cancels>>

\* A click that sends one of the requests of this module.
Sends == Send({}, ui)

FormOfMethod(f, methods) == On("add") /\ Mounted(f) /\ ui.draft.method \in methods

\* The button is there until there is a session, and disabled while it starts.
StartLogin(f, methods, kind) ==
    /\ FormOfMethod(f, methods)
    /\ ~login[f].seen /\ login[f].pc = "idle"
    /\ Goes(f, [login[f] EXCEPT !.kind = kind, !.pc = "start", !.at = "sent"])
    /\ Sends /\ UNCHANGED <<sessions, relay, cancels>>

StartDevice(f) == StartLogin(f, {"builderid", "grokDevice"}, "device")

StartIam(f) == StartLogin(f, {"iam"}, "iam")

StartKiro(f) == StartLogin(f, {"kirosso"}, "kirosso")

\* The session is there, and a form that polls waits for its first poll.
TakeStart(f) ==
    /\ At(f, "start", "answered")
    /\ LET seen == login[f].res = "ok" /\ alive(f)
           next == IF login[f].res = "ok" /\ login[f].kind # "iam" THEN "sleep" ELSE "idle"
       IN  Goes(f, [login[f] EXCEPT !.pc = next, !.at = "none", !.res = "none", !.seen = seen])
    /\ OnlyLogin

\* A form that is gone does not poll again.
pollUntilDone(f) ==
    /\ At(f, "sleep", "none")
    /\ Goes(f, IF alive(f) THEN [login[f] EXCEPT !.pc = "poll", !.at = "sent"]
               ELSE [login[f] EXCEPT !.pc = "idle"])
    /\ OnlyLogin

CompleteIam(f) ==
    /\ FormOfMethod(f, {"iam"})
    /\ login[f].seen /\ login[f].pc = "idle"
    /\ Goes(f, [login[f] EXCEPT !.pc = "complete", !.at = "sent"])
    /\ Sends /\ UNCHANGED <<sessions, relay, cancels>>

\* A poll that fails is the last one.
TakePending(f) ==
    /\ login[f].pc \in {"poll", "complete"} /\ login[f].at = "answered"
    /\ login[f].res # "ok"
    /\ Goes(f, [login[f] EXCEPT !.pc = IF login[f].res = "pending" THEN "sleep" ELSE "idle",
                                !.at = "none", !.res = "none"])
    /\ OnlyLogin

\* An answer that comes after the form is gone counts; the dialog that is open by
\* then is closed.
TakeLogin(f) ==
    /\ login[f].pc \in {"poll", "complete"} /\ login[f].at = "answered"
    /\ login[f].res = "ok"
    /\ Goes(f, [login[f] EXCEPT !.pc = "idle", !.at = "none", !.res = "none", !.done = TRUE])
    /\ cancels' = Cleanup(login')
    /\ calls' = calls \cup AfterAdd(0)
    /\ fetch' = Invalidated(AccountsQ)
    /\ missed' = missed \ AccountsQ
    /\ ui' = Closed(ui)
    /\ UNCHANGED <<page, store, cache, clicks, sessions, relay>>

PasteCallback(f) ==
    /\ FormOfMethod(f, {"kirosso"})
    /\ login[f].seen /\ relay[f] = "none"
    /\ relay' = [relay EXCEPT ![f] = "sent"]
    /\ Sends /\ UNCHANGED <<login, sessions, cancels>>

TakeRelay(f) ==
    /\ relay[f] = "answered"
    /\ relay' = [relay EXCEPT ![f] = "none"]
    /\ UNCHANGED <<coreVars, login, sessions, cancels>>

-----------------------------------------------------------------------------
(* The server. *)

Answer(f, res) == Goes(f, [login[f] EXCEPT !.at = "answered", !.res = res])

\* The session holds the port.
Active(f) == sessions[f] \in {"open", "leg2", "captured", "failed"}

hasActiveKiroSsoSession == \E f \in Forms : Active(f)

StartKiroSsoLogin(f) ==
    /\ At(f, "start", "sent") /\ login[f].kind = "kirosso"
    /\ \/ /\ ~hasActiveKiroSsoSession
          /\ sessions' = [sessions EXCEPT ![f] = "open"]
          /\ Answer(f, "ok")
       \/ Answer(f, "error") /\ UNCHANGED sessions
    /\ UNCHANGED <<coreVars, relay, cancels>>

\* The deadline frees the port and keeps the session for a minute, with what was
\* captured by then, for a late poll.
Deadline(f) ==
    /\ Active(f)
    /\ sessions' = [sessions EXCEPT ![f] = IF @ = "captured" THEN "kept" ELSE "timedOut"]
    /\ UNCHANGED <<coreVars, login, relay, cancels>>

GraceEnds(f) ==
    /\ sessions[f] \in {"timedOut", "kept"}
    /\ sessions' = [sessions EXCEPT ![f] = "gone"]
    /\ UNCHANGED <<coreVars, login, relay, cancels>>

\* A sign-in has one leg or two; each may be refused.
Leg(st) == IF st = "open" THEN {"leg2", "captured", "failed"} ELSE {"captured", "failed"}

\* The browser is redirected to the port.
handleCallback(f) ==
    /\ sessions[f] \in {"open", "leg2"}
    /\ \E st \in Leg(sessions[f]) : sessions' = [sessions EXCEPT ![f] = st]
    /\ UNCHANGED <<coreVars, login, relay, cancels>>

\* The address is taken for the callback, or matches nothing.
RelayKiroSsoCallback(f) ==
    /\ relay[f] = "sent"
    /\ relay' = [relay EXCEPT ![f] = "answered"]
    /\ \/ /\ sessions[f] \in {"open", "leg2"}
          /\ \E st \in Leg(sessions[f]) : sessions' = [sessions EXCEPT ![f] = st]
       \/ UNCHANGED sessions
    /\ UNCHANGED <<coreVars, login, cancels>>

\* What was captured is taken once: session and port are gone before it is
\* exchanged for tokens.
PollKiroSsoAuth(f) ==
    /\ At(f, "poll", "sent") /\ login[f].kind = "kirosso"
    /\ IF sessions[f] \in {"captured", "kept", "failed", "timedOut"}
       THEN sessions' = [sessions EXCEPT ![f] = "gone"] ELSE UNCHANGED sessions
    /\ CASE sessions[f] \in {"captured", "kept"} -> Goes(f, [login[f] EXCEPT !.at = "exchange"])
         [] sessions[f] \in {"open", "leg2"} -> Answer(f, "pending")
         [] OTHER -> Answer(f, "error")
    /\ UNCHANGED <<coreVars, relay, cancels>>

\* The account is saved before the answer is given, which may be lost.
Added(f) ==
    /\ Writes(AccountsQ, store)
    /\ \/ Answer(f, "ok") /\ UNCHANGED missed
       \/ Answer(f, "error") /\ missed' = missed \cup AccountsQ
    /\ UNCHANGED <<page, calls, clicks, ui, sessions, relay, cancels>>

exchange(f) ==
    /\ At(f, "poll", "exchange")
    /\ Added(f) \/ (Answer(f, "error") /\ OnlyLogin)

CancelKiroSsoLogin(f) ==
    /\ f \in cancels
    /\ cancels' = cancels \ {f}
    /\ sessions' = [sessions EXCEPT ![f] = "gone"]
    /\ UNCHANGED <<coreVars, login, relay>>

\* A session of another provider.
ServeProvider(f) ==
    /\ login[f].at = "sent" /\ login[f].kind \in {"device", "iam"}
    /\ \/ login[f].pc = "start" /\ Answer(f, "ok") /\ OnlyLogin
       \/ login[f].pc = "poll" /\ Answer(f, "pending") /\ OnlyLogin
       \/ login[f].pc \in {"poll", "complete"} /\ Added(f)
       \/ Answer(f, "error") /\ OnlyLogin

-----------------------------------------------------------------------------

LoginSteps(f) ==
    \/ StartDevice(f) \/ StartIam(f) \/ StartKiro(f) \/ CompleteIam(f) \/ PasteCallback(f)
    \/ Deadline(f) \/ GraceEnds(f) \/ handleCallback(f)

\* A handler has one request under way, besides a pasted address.
LoginServes(f) ==
    StartKiroSsoLogin(f) \/ PollKiroSsoAuth(f) \/ exchange(f) \/ ServeProvider(f)

LoginTakes(f) == TakeStart(f) \/ pollUntilDone(f) \/ TakePending(f) \/ TakeLogin(f)

RelaySteps(f) == RelayKiroSsoCallback(f) \/ TakeRelay(f)

DialogSteps == OpenAdd \/ PickMethod \/ LeaveForm
=============================================================================
