----------------------------- MODULE AdminSessions -----------------------------
(***************************************************************************)
(* The server's side of the console's login: the table of session tokens,  *)
(* the admin password they are bound to, and the handlers of the admin API *)
(* that use them.  The throttle of login attempts is a login that may be   *)
(* refused at any time.                                                    *)
(*                                                                         *)
(* A caller is a place for one HTTP request at a time.  Its record goes    *)
(* from "sent" through the steps of the handler to "answered"; whoever     *)
(* sent it takes the answer.  A session's time-out is a step of its own:   *)
(* an expired session counts for nothing whether or not it has been        *)
(* pruned.  A password is a model value; saving it always succeeds.        *)
(***************************************************************************)
EXTENDS Naturals

CONSTANTS
    Callers,
    MaxTokens,     \* bound on the tokens issued
    Passwords,
    NoPassword,    \* not configured, and in `sessions': no such session
    MaxUpsets      \* bound

ASSUME SessionAssumption ==
    /\ Passwords # {} /\ NoPassword \notin Passwords
    /\ MaxTokens \in Nat
    /\ MaxUpsets \in Nat

VARIABLES
    password,  \* config.Password
    sessions,  \* sessionStore.sessions: the password a token is bound to
    minted,    \* how many tokens were issued: a token is its number
    upsets,    \* how many of the rare events (expiry, restart, reload) there were
    call       \* the requests

serverVars == <<password, sessions, minted, upsets>>

Tokens == 1..MaxTokens

NoToken == 0

Ops == {"none", "status", "version", "poll", "login", "setup", "change", "logout"}

Answers == {"none", "ok", "unauthorized", "setup", "refused"}

Idle == [op |-> "none", pc |-> "idle", token |-> NoToken, pw |-> NoPassword,
         answer |-> "none", got |-> NoToken]

NoSessions == [t \in Tokens |-> NoPassword]

Configured == password # NoPassword

Valid(t) == t \in Tokens /\ Configured /\ sessions[t] = password

At(c, op, pc) == call[c].op = op /\ call[c].pc = pc

Request(op, t, pw) == [Idle EXCEPT !.op = op, !.pc = "sent", !.token = t, !.pw = pw]

Answer(c, a) == call' = [call EXCEPT ![c].pc = "answered", ![c].answer = a,
                                     ![c].pw = NoPassword]

Grant(c, t) == call' = [call EXCEPT ![c].pc = "answered", ![c].answer = "ok",
                                    ![c].pw = NoPassword, ![c].got = t]

GoOn(c, pc) == call' = [call EXCEPT ![c].pc = pc]

\* Passwords are alike: one of them stands for the configured one.
SessionInit ==
    /\ password \in {NoPassword, CHOOSE pw \in Passwords : TRUE}
    /\ sessions = NoSessions
    /\ minted = 0
    /\ upsets = 0

-----------------------------------------------------------------------------

Status(c) ==
    /\ At(c, "status", "sent")
    /\ Answer(c, IF Configured THEN "ok" ELSE "setup")
    /\ UNCHANGED serverVars

\* Every other endpoint: setup first, then the token.  A session that does not
\* match the password is dropped on the way.  What a poll is told when it passes
\* changes nothing on the console: the answer is not kept.
Gate(c) ==
    /\ call[c].op \in {"version", "poll", "change"} /\ call[c].pc = "sent"
    /\ LET t == call[c].token
       IN  \/ /\ Valid(t)
              /\ CASE call[c].op = "change" -> GoOn(c, "gated")
                   [] call[c].op = "version" -> Answer(c, "ok")
                   [] call[c].op = "poll" -> call' = [call EXCEPT ![c] = Idle]
              /\ UNCHANGED sessions
           \/ /\ ~Valid(t)
              /\ Answer(c, IF Configured THEN "unauthorized" ELSE "setup")
              /\ sessions' = IF Configured /\ t \in Tokens
                             THEN [sessions EXCEPT ![t] = NoPassword] ELSE sessions
    /\ UNCHANGED <<password, minted, upsets>>

Match(c) ==
    /\ At(c, "login", "sent")
    /\ \/ ~Configured /\ Answer(c, "setup")
       \/ Configured /\ Answer(c, "refused")
       \/ Configured /\ call[c].pw # password /\ Answer(c, "unauthorized")
       \/ Configured /\ call[c].pw = password /\ GoOn(c, "granting")
    /\ UNCHANGED serverVars

\* The password is read again for issue(), as the last thing before it.
ReadPassword(c) ==
    /\ call[c].pc = "granting"
    /\ call' = [call EXCEPT ![c].pc = "bound", ![c].pw = password]
    /\ UNCHANGED serverVars

Issue(c) ==
    /\ call[c].pc = "bound"
    /\ minted < MaxTokens
    /\ minted' = minted + 1
    /\ sessions' = [sessions EXCEPT ![minted + 1] = call[c].pw]
    /\ Grant(c, minted + 1)
    /\ UNCHANGED <<password, upsets>>

\* apiCompleteSetup looks whether the gateway is configured ...
SetupCheck(c) ==
    /\ At(c, "setup", "sent")
    /\ IF Configured THEN Answer(c, "refused") ELSE GoOn(c, "checked")
    /\ UNCHANGED serverVars

\* The first look is relied on.
SetupStore_NoRecheck(c) ==
    /\ At(c, "setup", "checked")
    /\ password' = call[c].pw
    /\ GoOn(c, "granting")
    /\ UNCHANGED <<sessions, minted, upsets>>

\* ... and config.CompleteSetup looks again under its lock.
SetupStore(c) ==
    /\ At(c, "setup", "checked")
    /\ \/ /\ Configured
          /\ Answer(c, "refused")
          /\ UNCHANGED password
       \/ /\ ~Configured
          /\ password' = call[c].pw
          /\ GoOn(c, "granting")
    /\ UNCHANGED <<sessions, minted, upsets>>

\* The end of apiUpdateSettings: the new password ...
SavePassword(c) ==
    /\ At(c, "change", "gated")
    /\ password' = call[c].pw
    /\ GoOn(c, "revoking")
    /\ UNCHANGED <<sessions, minted, upsets>>

\* The fingerprints are trusted to end the old sessions.
RevokeAll_Skipped(c) ==
    /\ At(c, "change", "revoking")
    /\ GoOn(c, "granting")
    /\ UNCHANGED serverVars

\* ... the end of every session, and a new one for the caller (ReadPassword, Issue).
RevokeAll(c) ==
    /\ At(c, "change", "revoking")
    /\ sessions' = NoSessions
    /\ GoOn(c, "granting")
    /\ UNCHANGED <<password, minted, upsets>>

Logout(c) ==
    /\ At(c, "logout", "sent")
    /\ sessions' = [t \in Tokens |-> IF t = call[c].token THEN NoPassword ELSE sessions[t]]
    /\ Answer(c, "ok")
    /\ UNCHANGED <<password, minted, upsets>>

Serve(c) ==
    \/ Status(c) \/ Gate(c) \/ Match(c) \/ ReadPassword(c) \/ Issue(c)
    \/ SetupCheck(c) \/ SetupStore(c) \/ SavePassword(c) \/ RevokeAll(c) \/ Logout(c)

-----------------------------------------------------------------------------
(* The world around the handlers. *)

\* sessionTTL or rememberTTL is over.
Expire(t) ==
    /\ sessions[t] # NoPassword /\ upsets < MaxUpsets
    /\ sessions' = [sessions EXCEPT ![t] = NoPassword]
    /\ upsets' = upsets + 1
    /\ UNCHANGED <<password, minted, call>>

\* Sessions live in memory; requests under way get no answer.
Restart ==
    /\ upsets < MaxUpsets
    /\ upsets' = upsets + 1
    /\ sessions' = NoSessions
    /\ call' = [c \in Callers |->
                  IF call[c].pc \in {"idle", "answered"} THEN call[c]
                  ELSE [call[c] EXCEPT !.pc = "answered", !.answer = "refused"]]
    /\ UNCHANGED <<password, minted>>

-----------------------------------------------------------------------------
(* The promise. *)

\* While a change of the password is between its two steps, the sessions it is
\* about to end no longer count.
Changing == \E c \in Callers : At(c, "change", "revoking")

LiveTokens == IF Changing THEN {} ELSE {t \in Tokens : Valid(t)}

Life == INSTANCE TokenLife WITH live <- LiveTokens, over <- (1..minted) \ LiveTokens

\* No token opens the admin API again once it has ceased to: neither a logout,
\* nor a password changed there and back (admin_session.go:170-172), nor a login
\* overtaken by a change between its look at the password and its session
\* (handler.go:3891-3897) brings an old session to life.
TokensLiveOnce == Life!Spec
=============================================================================
