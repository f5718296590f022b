----------------------------- MODULE SessionProofs ------------------------------
(***************************************************************************)
(* The admin sessions implement TokenLife, and the console's properties of *)
(* them hold, for any number of tabs, browsers, tokens and passwords.      *)
(***************************************************************************)
EXTENDS ConsoleSessions, TLAPS

AnyPassword == Passwords \cup {NoPassword}
AnyToken == 0..MaxTokens

Pcs == {"idle", "sent", "gated", "checked", "revoking", "granting", "bound", "answered"}

Call == [op : Ops, pc : Pcs, token : AnyToken, pw : AnyPassword, answer : Answers,
         got : AnyToken]

TypeOK ==
    /\ password \in AnyPassword
    /\ sessions \in [Tokens -> AnyPassword]
    /\ minted \in AnyToken
    /\ call \in [Callers -> Call]
    /\ status \in [Tabs -> {"loading", "anonymous", "setup", "authed"}]
    /\ own \in [Tabs -> AnyToken]
    /\ shared \in [token : AnyToken, remember : BOOLEAN]
    /\ keep \in [Tabs -> BOOLEAN]
    /\ revoked \in [Tabs -> AnyToken]
    /\ upsets \in Nat /\ changes \in Nat

\* Which requests a place sends.
OpsOf(c) == IF c \in Guests THEN {"none", "setup", "login", "change"}
            ELSE CASE c[2] = "poll" -> {"none", "poll"}
                   [] c[2] = "logout" -> {"none", "logout"}
                   [] c[2] = "form" -> {"none", "change"}
                   [] OTHER -> {"none", "status", "version", "login", "setup"}

CallInv ==
    \A c \in Callers :
       /\ call[c].op \in OpsOf(c)
       /\ call[c].pc = "revoking" => call[c].op = "change"
       /\ call[c].pc \in {"granting", "bound"} => call[c].op \in {"login", "setup", "change"}
       /\ call[c].pc \in {"granting", "bound", "revoking"} => Configured
       /\ call[c].pc \in {"checked", "gated"} => call[c].pw \in Passwords
       /\ call[c].op \in {"setup", "change", "login"} /\ call[c].pc = "sent" => call[c].pw \in Passwords

\* A token that was not issued has no session, and no token has one on a gateway
\* that is not set up.
SessionInv ==
    \A t \in Tokens : sessions[t] # NoPassword => Configured /\ t <= minted

Inv == TypeOK /\ CallInv /\ SessionInv

\* The tokens that a tab has, or has sent away.
TokensOf(tab) == {own[tab], shared.token, call[Out(tab)].token, revoked[tab]}

\* The places to which a tab is granted tokens, and the one it is yet to take there.
GrantPlaces == {Flow(tab) : tab \in Tabs} \cup {Form(tab) : tab \in Tabs}

Granted(p) == call[p].got

LoggedOut(tab) == Answered(Out(tab), "logout") /\ call[Out(tab)].answer = "ok"

\* What is granted to a tab and not yet taken no tab has.
GrantInv ==
    /\ \A tab \in Tabs : \A u \in TokensOf(tab) : u <= minted
    /\ \A p \in GrantPlaces :
          /\ Granted(p) <= minted
          /\ Granted(p) # NoToken =>
                /\ \A tab \in Tabs : Granted(p) \notin TokensOf(tab)
                /\ \A q \in GrantPlaces : q # p => Granted(p) # Granted(q)

\* A logout that succeeded has ended its session, and what a tab has logged out of
\* it has dropped.
LogoutInv ==
    \A tab \in Tabs :
       /\ LoggedOut(tab) /\ call[Out(tab)].token # NoToken
             => sessions[call[Out(tab)].token] = NoPassword
       /\ revoked[tab] # NoToken => /\ sessions[revoked[tab]] = NoPassword
                                    /\ revoked[tab] \notin {own[tab], shared.token}

-----------------------------------------------------------------------------
(* Places. *)

\* A tab's places are callers, each with the requests it sends.
LEMMA PlaceFacts ==
    ASSUME NEW tab \in Tabs
    PROVE  /\ Flow(tab) \in Callers /\ Form(tab) \in Callers
           /\ Poll(tab) \in Callers /\ Out(tab) \in Callers
           /\ OpsOf(Flow(tab)) = {"none", "status", "version", "login", "setup"}
           /\ OpsOf(Form(tab)) = {"none", "change"}
           /\ OpsOf(Poll(tab)) = {"none", "poll"}
           /\ OpsOf(Out(tab)) = {"none", "logout"}
           /\ Flow(tab) \in GrantPlaces /\ Form(tab) \in GrantPlaces
  <1>1. /\ Flow(tab) \in Places /\ Form(tab) \in Places
        /\ Poll(tab) \in Places /\ Out(tab) \in Places
    BY DEF Places, Flow, Form, Poll, Out
  <1>2. /\ Flow(tab)[2] = "flow" /\ Form(tab)[2] = "form"
        /\ Poll(tab)[2] = "poll" /\ Out(tab)[2] = "logout"
    BY DEF Flow, Form, Poll, Out
  <1>3. Flow(tab) \in GrantPlaces /\ Form(tab) \in GrantPlaces
    BY DEF GrantPlaces
  <1> QED BY <1>1, <1>2, <1>3, CallersAssumption DEF CallersAssumption, OpsOf, AllCallers

\* No two tabs share a place, and no place serves two ends.
LEMMA PlacesDiffer ==
    ASSUME NEW a \in Tabs, NEW b \in Tabs
    PROVE  /\ Flow(a) # Poll(b) /\ Flow(a) # Out(b) /\ Poll(a) # Out(b)
           /\ Form(a) # Flow(b) /\ Form(a) # Poll(b) /\ Form(a) # Out(b)
           /\ Out(a) = Out(b) => a = b
  BY DEF Flow, Form, Poll, Out

\* A place that is granted tokens sends no logout and no poll.
LEMMA GrantPlaceFacts ==
    ASSUME NEW p \in GrantPlaces
    PROVE  p \in Callers /\ \A tab \in Tabs : p # Poll(tab) /\ p # Out(tab)
  BY PlaceFacts, PlacesDiffer DEF GrantPlaces

\* A guest is a caller and no place of a tab's.
LEMMA GuestFacts ==
    ASSUME NEW g \in Guests
    PROVE  /\ g \in Callers /\ OpsOf(g) = {"none", "setup", "login", "change"}
           /\ g \notin GrantPlaces
           /\ \A tab \in Tabs : g # Flow(tab) /\ g # Form(tab) /\ g # Poll(tab) /\ g # Out(tab)
  <1>1. \A tab \in Tabs : g # Flow(tab) /\ g # Form(tab) /\ g # Poll(tab) /\ g # Out(tab)
    BY CallersAssumption DEF CallersAssumption, Places, Flow, Form, Poll, Out
  <1> QED BY <1>1, CallersAssumption DEF CallersAssumption, OpsOf, AllCallers, GrantPlaces

\* What a request holds when it is sent.
LEMMA RequestShape ==
    ASSUME NEW op \in Ops, NEW t \in AnyToken, NEW pw \in AnyPassword
    PROVE  /\ Idle \in Call
           /\ Request(op, t, pw) \in Call
           /\ Request(op, t, pw).op = op /\ Request(op, t, pw).pc = "sent"
           /\ Request(op, t, pw).token = t /\ Request(op, t, pw).pw = pw
           /\ Request(op, t, pw).got = NoToken
  <1>1. NoToken \in AnyToken /\ NoPassword \in AnyPassword
    BY SessionAssumption DEF SessionAssumption, AnyToken, AnyPassword, NoToken
  <1>2. Idle \in Call
    BY <1>1 DEF Idle, Call, Ops, Pcs, Answers
  <1> QED BY <1>1, <1>2 DEF Request, Idle, Call, Pcs

\* A record is replaced.
LEMMA CallReplaced ==
    ASSUME call \in [Callers -> Call], NEW c \in Callers, NEW m \in Call,
           call' = [call EXCEPT ![c] = m]
    PROVE  /\ call' \in [Callers -> Call]
           /\ call'[c] = m
           /\ \A d \in Callers : d # c => call'[d] = call[d]
  OBVIOUS

-----------------------------------------------------------------------------
(* The server. *)

\* At the start nothing was sent and no session exists.
LEMMA InitInv == Init => Inv
  <1> SUFFICES ASSUME Init PROVE Inv
    OBVIOUS
  <1>1. password \in AnyPassword /\ minted \in AnyToken
    BY SessionAssumption DEF SessionAssumption, Init, SessionInit, AnyPassword, AnyToken
  <1>2. \A c \in Callers : call[c] = Idle /\ Idle \in Call
    <2>1. "none" \in Ops /\ NoToken \in AnyToken /\ NoPassword \in AnyPassword
      BY SessionAssumption DEF SessionAssumption, Ops, AnyToken, AnyPassword, NoToken
    <2> QED BY <2>1, RequestShape DEF Init
  <1>3. TypeOK
    <2>1. call \in [Callers -> Call]
      BY <1>2 DEF Init
    <2>2. sessions \in [Tokens -> AnyPassword]
      BY DEF Init, SessionInit, NoSessions, AnyPassword
    <2>3. NoToken \in AnyToken /\ shared \in [token : AnyToken, remember : BOOLEAN]
      BY SessionAssumption DEF SessionAssumption, Init, NothingShared, NoToken, AnyToken
    <2>4. upsets \in Nat /\ changes \in Nat
      BY DEF Init, SessionInit
    <2> QED BY <1>1, <2>1, <2>2, <2>3, <2>4 DEF TypeOK, Init
  <1>4. CallInv
    <2>1. \A c \in Callers : call[c].op = "none" /\ call[c].pc = "idle"
      BY <1>2 DEF Idle, Init
    <2>2. \A c \in Callers : "none" \in OpsOf(c)
      BY DEF OpsOf
    <2> QED BY <2>1, <2>2 DEF CallInv
  <1>5. SessionInv
    BY DEF SessionInv, Init, SessionInit, NoSessions
  <1> QED BY <1>3, <1>4, <1>5 DEF Inv

\* A handler answers ...
LEMMA Answering ==
    ASSUME call \in [Callers -> Call], NoPassword \in AnyPassword, NEW c \in Callers,
           NEW a \in Answers, Answer(c, a)
    PROVE  /\ call' \in [Callers -> Call] /\ \A d \in Callers : d # c => call'[d] = call[d]
           /\ call'[c].op = call[c].op /\ call'[c].token = call[c].token
           /\ call'[c].pc = "answered"
  <1> DEFINE m == [call[c] EXCEPT !.pc = "answered", !.answer = a, !.pw = NoPassword]
  <1>1. m \in Call /\ m.op = call[c].op /\ m.token = call[c].token /\ m.pc = "answered"
    <2>1. call[c] \in Call /\ "answered" \in Pcs
      BY DEF Pcs
    <2> QED BY <2>1 DEF Call
  <1>2. call' = [call EXCEPT ![c] = m]
    BY DEF Answer
  <1> HIDE DEF m
  <1> QED BY <1>1, <1>2, CallReplaced

\* ... or goes on.
LEMMA GoingOn ==
    ASSUME call \in [Callers -> Call], NEW c \in Callers, NEW pc \in Pcs, GoOn(c, pc)
    PROVE  /\ call' \in [Callers -> Call] /\ \A d \in Callers : d # c => call'[d] = call[d]
           /\ call'[c].op = call[c].op /\ call'[c].token = call[c].token
           /\ call'[c].pw = call[c].pw /\ call'[c].pc = pc
  <1> DEFINE m == [call[c] EXCEPT !.pc = pc]
  <1>1. m \in Call /\ m.op = call[c].op /\ m.token = call[c].token /\ m.pc = pc /\ m.pw = call[c].pw
    BY DEF Call
  <1>2. call' = [call EXCEPT ![c] = m]
    BY DEF GoOn
  <1> HIDE DEF m
  <1> QED BY <1>1, <1>2, CallReplaced

\* What a step of a handler leaves of its request.
LEMMA ServeStep ==
    ASSUME Inv, NEW c \in Callers, Serve(c), UNCHANGED tabVars
    PROVE  /\ Inv'
           /\ \A d \in Callers : d # c => call'[d] = call[d]
           /\ call'[c].token \in {call[c].token, NoToken}
  <1> USE DEF Inv, TypeOK, CallInv, SessionInv
  <1>0. /\ call[c] \in Call /\ call[c].op \in OpsOf(c) /\ "none" \in OpsOf(c)
        /\ NoToken \in AnyToken /\ NoPassword \in AnyPassword /\ NoPassword \notin Passwords
        /\ MaxTokens \in Nat
    BY SessionAssumption DEF SessionAssumption, OpsOf, AnyToken, AnyPassword, NoToken
  <1>a. \A a \in Answers : Answer(c, a) =>
           /\ call' \in [Callers -> Call] /\ \A d \in Callers : d # c => call'[d] = call[d]
           /\ call'[c].op = call[c].op /\ call'[c].token = call[c].token
           /\ call'[c].pc = "answered"
    BY <1>0, Answering
  <1>b. \A pc \in Pcs : GoOn(c, pc) =>
           /\ call' \in [Callers -> Call] /\ \A d \in Callers : d # c => call'[d] = call[d]
           /\ call'[c].op = call[c].op /\ call'[c].token = call[c].token
           /\ call'[c].pw = call[c].pw /\ call'[c].pc = pc
    BY <1>0, GoingOn
  <1>1. CASE Status(c)
    <2>1. UNCHANGED serverVars /\ \E a \in Answers : Answer(c, a)
      BY <1>1 DEF Status, Answers
    <2>2. /\ call' \in [Callers -> Call] /\ \A d \in Callers : d # c => call'[d] = call[d]
          /\ call'[c].op = call[c].op /\ call'[c].token = call[c].token
          /\ call'[c].pc = "answered"
      BY <1>a, <2>1
    <2> QED BY <1>0, <2>1, <2>2 DEF serverVars, tabVars, Configured
  <1>2. CASE Gate(c)
    <2> DEFINE t == call[c].token
    <2>0. t \in AnyToken
      BY <1>0 DEF Call
    <2>00. sessions' = sessions \/ (t \in Tokens /\ sessions' = [sessions EXCEPT ![t] = NoPassword])
      BY <1>2 DEF Gate
    <2>1. t \in AnyToken /\ sessions' \in [Tokens -> AnyPassword]
      BY <1>0, <2>0, <2>00
    <2>2. \A u \in Tokens : sessions'[u] # NoPassword => sessions[u] # NoPassword
      BY <1>0, <1>2, <2>1 DEF Gate
    <2>3. \/ GoOn(c, "gated") /\ call[c].op = "change"
          \/ call' = [call EXCEPT ![c] = Idle]
          \/ \E a \in Answers : Answer(c, a)
      BY <1>2 DEF Gate, Answers
    <2>4. UNCHANGED <<password, minted, upsets>> /\ call[c].pc = "sent"
      BY <1>2 DEF Gate
    <2>5. /\ call' \in [Callers -> Call] /\ \A d \in Callers : d # c => call'[d] = call[d]
          /\ call'[c].op \in OpsOf(c) /\ call'[c].token \in {call[c].token, NoToken}
          /\ call'[c].pc \in {"gated", "idle", "answered"}
          /\ call'[c].pc = "gated" => call'[c].pw \in Passwords
      <3>1. CASE GoOn(c, "gated") /\ call[c].op = "change"
        BY <1>0, <2>4, <3>1 DEF GoOn, Call, Pcs
      <3>2. CASE call' = [call EXCEPT ![c] = Idle]
        <4>1. Idle \in Call
          BY <1>0, RequestShape DEF Ops
        <4> QED BY <1>0, <3>2, <4>1, CallReplaced DEF Idle
      <3>3. CASE \E a \in Answers : Answer(c, a)
        <4>1. PICK a \in Answers : Answer(c, a)
          BY <3>3
        <4> QED BY <1>0, <4>1 DEF Answer, Call, Pcs
      <3> QED BY <2>3, <3>1, <3>2, <3>3
    <2>6. TypeOK'
      BY <2>1, <2>4, <2>5 DEF tabVars
    <2>7. SessionInv'
      BY <2>1, <2>2, <2>4 DEF Configured
    <2>8. CallInv'
      BY <2>4, <2>5 DEF Configured
    <2> QED BY <2>5, <2>6, <2>7, <2>8
  <1>3. CASE Match(c)
    <2>1. /\ UNCHANGED serverVars /\ call[c].op = "login"
          /\ (\E a \in Answers : Answer(c, a)) \/ (Configured /\ GoOn(c, "granting"))
      BY <1>3 DEF Match, At, Answers
    <2>2. /\ call' \in [Callers -> Call] /\ \A d \in Callers : d # c => call'[d] = call[d]
          /\ call'[c].op = call[c].op /\ call'[c].token = call[c].token
          /\ call'[c].pc = "answered" \/ (call'[c].pc = "granting" /\ Configured)
      BY <1>a, <1>b, <2>1 DEF Pcs
    <2> QED BY <1>0, <2>1, <2>2 DEF serverVars, tabVars, Configured
  <1>4. CASE ReadPassword(c)
    <2> DEFINE m == [call[c] EXCEPT !.pc = "bound", !.pw = password]
    <2>1. call' = [call EXCEPT ![c] = m] /\ UNCHANGED serverVars /\ call[c].pc = "granting"
      BY <1>4 DEF ReadPassword
    <2>2. m \in Call /\ m.op = call[c].op /\ m.token = call[c].token /\ m.pc = "bound"
      BY <1>0 DEF Call, Pcs
    <2> HIDE DEF m
    <2>3. /\ call' \in [Callers -> Call] /\ call'[c] = m
          /\ \A d \in Callers : d # c => call'[d] = call[d]
      BY <2>1, <2>2, CallReplaced
    <2> QED BY <1>0, <2>1, <2>2, <2>3 DEF serverVars, tabVars, Configured
  <1>5. CASE Issue(c)
    <2> DEFINE n == minted + 1
    <2>1. n \in Tokens /\ n \in AnyToken /\ minted \in Nat
      BY <1>0, <1>5 DEF Issue, AnyToken, Tokens
    <2>2. /\ call[c].pc = "bound" /\ call[c].pw \in AnyPassword
          /\ sessions' = [sessions EXCEPT ![n] = call[c].pw] /\ Grant(c, n)
          /\ minted' = n /\ UNCHANGED <<password, upsets>>
      BY <1>0, <1>5 DEF Issue, Call
    <2>3. sessions' \in [Tokens -> AnyPassword] /\ SessionInv'
      BY <2>1, <2>2 DEF Configured, Tokens
    <2>4. /\ call' \in [Callers -> Call] /\ \A d \in Callers : d # c => call'[d] = call[d]
          /\ call'[c].op = call[c].op /\ call'[c].token = call[c].token
          /\ call'[c].pc = "answered"
      BY <1>0, <2>1, <2>2 DEF Grant, Call, Pcs, Answers
    <2>5. CallInv'
      BY <1>0, <2>2, <2>4 DEF Configured
    <2> HIDE DEF n
    <2>6. TypeOK'
      BY <2>1, <2>2, <2>3, <2>4 DEF tabVars
    <2> QED BY <2>3, <2>4, <2>5, <2>6
  <1>6. CASE SetupCheck(c)
    BY <1>0, <1>6 DEF SetupCheck, Answer, At, GoOn, serverVars, tabVars, Call, Ops, Pcs, Answers, Configured
  <1>7. CASE SetupStore(c)
    BY <1>0, <1>7 DEF SetupStore, Answer, At, GoOn, tabVars, Call, Ops, Pcs, Answers, Configured, AnyPassword
  <1>8. CASE SavePassword(c)
    BY <1>0, <1>8 DEF SavePassword, At, GoOn, tabVars, Call, Ops, Pcs, Answers, Configured, AnyPassword
  <1>9. CASE RevokeAll(c)
    <2>1. /\ sessions' = NoSessions /\ GoOn(c, "granting") /\ call[c].pc = "revoking"
          /\ call[c].op = "change" /\ UNCHANGED <<password, minted, upsets>>
      BY <1>9 DEF RevokeAll, At
    <2>2. /\ call' \in [Callers -> Call] /\ \A d \in Callers : d # c => call'[d] = call[d]
          /\ call'[c].op = call[c].op /\ call'[c].token = call[c].token
          /\ call'[c].pc = "granting"
      BY <1>b, <2>1 DEF Pcs
    <2>3. sessions' \in [Tokens -> AnyPassword] /\ SessionInv'
      BY <1>0, <2>1 DEF NoSessions
    <2> QED BY <1>0, <2>1, <2>2, <2>3 DEF tabVars, Configured
  <1>10. CASE Logout(c)
    <2>1. /\ Answer(c, "ok") /\ "ok" \in Answers /\ UNCHANGED <<password, minted, upsets>>
          /\ sessions' = [t \in Tokens |-> IF t = call[c].token THEN NoPassword ELSE sessions[t]]
      BY <1>10 DEF Logout, Answers
    <2>2. /\ call' \in [Callers -> Call] /\ \A d \in Callers : d # c => call'[d] = call[d]
          /\ call'[c].op = call[c].op /\ call'[c].token = call[c].token
          /\ call'[c].pc = "answered"
      BY <1>a, <2>1
    <2>3. sessions' \in [Tokens -> AnyPassword] /\ SessionInv'
      BY <1>0, <2>1 DEF Configured
    <2> QED BY <1>0, <2>1, <2>2, <2>3 DEF tabVars, Configured
  <1> QED BY <1>1, <1>2, <1>3, <1>4, <1>5, <1>6, <1>7, <1>8, <1>9, <1>10 DEF Serve

-----------------------------------------------------------------------------
(* The console. *)

\* A place that sends a request it may send.
LEMMA Sent ==
    ASSUME Inv, UNCHANGED <<password, sessions, minted>>,
           NEW c \in Callers, NEW op \in OpsOf(c), op \in Ops,
           NEW t \in AnyToken, NEW pw \in AnyPassword,
           op \in {"setup", "change", "login"} => pw \in Passwords,
           Send(c, op, t, pw)
    PROVE  /\ call' \in [Callers -> Call] /\ CallInv' /\ SessionInv'
           /\ call'[c] = Request(op, t, pw)
           /\ \A d \in Callers : d # c => call'[d] = call[d]
  <1> USE DEF Inv, TypeOK
  <1>1. Request(op, t, pw) \in Call
    BY RequestShape
  <1>2. call'[c] = Request(op, t, pw) /\ \A d \in Callers : d # c => call'[d] = call[d]
    BY <1>1 DEF Send
  <1>3. call' \in [Callers -> Call]
    BY <1>1 DEF Send
  <1>4. CallInv'
    <2>1. call'[c].op = op /\ call'[c].pc = "sent" /\ call'[c].pw = pw
      BY <1>2, RequestShape
    <2> QED BY <2>1, <1>2 DEF CallInv, Configured
  <1>5. SessionInv'
    BY DEF SessionInv, Configured
  <1> QED BY <1>2, <1>3, <1>4, <1>5

\* A place whose answer is taken.
LEMMA Freed ==
    ASSUME Inv, UNCHANGED <<password, sessions, minted>>, NEW c \in Callers,
           call' = [call EXCEPT ![c] = Idle]
    PROVE  /\ call' \in [Callers -> Call] /\ CallInv' /\ SessionInv'
           /\ call'[c] = Idle
           /\ \A d \in Callers : d # c => call'[d] = call[d]
  <1> USE DEF Inv, TypeOK
  <1>1. Idle \in Call
    <2>1. "none" \in Ops /\ NoToken \in AnyToken /\ NoPassword \in AnyPassword
      BY SessionAssumption DEF SessionAssumption, Ops, AnyToken, AnyPassword, NoToken
    <2> QED BY <2>1, RequestShape
  <1>2. call'[c] = Idle /\ \A d \in Callers : d # c => call'[d] = call[d]
    BY <1>1
  <1>3. call' \in [Callers -> Call]
    BY <1>1
  <1>4. CallInv'
    <2>1. Idle.op = "none" /\ Idle.pc = "idle" /\ "none" \in OpsOf(c)
      BY DEF Idle, OpsOf
    <2> QED BY <2>1, <1>2 DEF CallInv, Configured
  <1>5. SessionInv'
    BY DEF SessionInv, Configured
  <1> QED BY <1>2, <1>3, <1>4, <1>5

\* What a tab stores are tokens.
LEMMA StoreTypes ==
    ASSUME TypeOK, NEW tab \in Tabs
    PROVE  /\ NoToken \in AnyToken /\ NoPassword \in AnyPassword
           /\ TokenOf(tab) \in AnyToken /\ own[tab] \in AnyToken
           /\ \A c \in Callers : call[c] \in Call /\ call[c].got \in AnyToken
                                 /\ call[c].token \in AnyToken /\ call[c].answer \in Answers
           /\ \A t \in AnyToken, r \in BOOLEAN : SetToken(tab, t, r) =>
                 /\ own' \in [Tabs -> AnyToken]
                 /\ shared' \in [token : AnyToken, remember : BOOLEAN]
           /\ \A a \in Answers : Unauthorized(tab, a) =>
                 status' \in [Tabs -> {"loading", "anonymous", "setup", "authed"}]
  <1>1. NoToken \in AnyToken /\ NoPassword \in AnyPassword
    BY SessionAssumption DEF SessionAssumption, AnyToken, AnyPassword, NoToken
  <1>2. \A t \in AnyToken, r \in BOOLEAN : SetToken(tab, t, r) =>
                 /\ own' \in [Tabs -> AnyToken]
                 /\ shared' \in [token : AnyToken, remember : BOOLEAN]
    BY <1>1 DEF TypeOK, SetToken, NothingShared
  <1>3. \A a \in Answers : Unauthorized(tab, a) =>
                 status' \in [Tabs -> {"loading", "anonymous", "setup", "authed"}]
    BY DEF TypeOK, Unauthorized, Show
  <1>4. \A c \in Callers : call[c] \in Call /\ call[c].got \in AnyToken
                           /\ call[c].token \in AnyToken /\ call[c].answer \in Answers
    BY DEF TypeOK, Call
  <1>5. TokenOf(tab) \in AnyToken /\ own[tab] \in AnyToken
    BY DEF TypeOK, TokenOf
  <1> QED BY <1>1, <1>2, <1>3, <1>4, <1>5

\* A step of a tab that takes an answer.
LEMMA TakeStep ==
    ASSUME Inv, NEW tab \in Tabs, Take(tab)
    PROVE  Inv'
  <1> DEFINE F == Flow(tab)
  <1>0. /\ TypeOK /\ F \in Callers /\ Poll(tab) \in Callers /\ Out(tab) \in Callers
        /\ Form(tab) \in Callers /\ "version" \in OpsOf(F) /\ "version" \in Ops
    BY PlaceFacts DEF Inv, Ops
  <1>00. "version" \notin {"setup", "change", "login"}
    OBVIOUS
  <1> HIDE DEF F
  <1>1. CASE TakeStatus(tab)
    <2>1. UNCHANGED serverVars /\ UNCHANGED <<own, shared, keep, revoked, changes>>
      BY <1>1 DEF TakeStatus
    <2>2. \/ Done(F) \/ Send(F, "version", TokenOf(tab), NoPassword)
      BY <1>1 DEF TakeStatus, F
    <2>3. call' \in [Callers -> Call] /\ CallInv' /\ SessionInv'
      BY <1>0, <1>00, <2>1, <2>2, Freed, Sent, StoreTypes DEF Done, serverVars
    <2>4. status' \in [Tabs -> {"loading", "anonymous", "setup", "authed"}]
      BY <1>0, <1>1 DEF TakeStatus, Show, TypeOK
    <2> QED BY <1>0, <2>1, <2>3, <2>4 DEF Inv, TypeOK, serverVars
  <1>2. CASE TakeVersion(tab)
    <2>1. UNCHANGED serverVars /\ UNCHANGED <<keep, revoked, changes>> /\ Done(F)
      BY <1>2 DEF TakeVersion, F
    <2>2. call' \in [Callers -> Call] /\ CallInv' /\ SessionInv'
      BY <1>0, <2>1, Freed DEF Done, serverVars
    <2>3. status' \in [Tabs -> {"loading", "anonymous", "setup", "authed"}]
      <3>1. \/ Show(tab, "authed") \/ Show(tab, "anonymous")
            \/ Unauthorized(tab, call[Flow(tab)].answer)
        BY <1>2 DEF TakeVersion
      <3> QED BY <1>0, <3>1, StoreTypes DEF Show, TypeOK, F
    <2>4. SetToken(tab, NoToken, FALSE) \/ UNCHANGED <<own, shared>>
      BY <1>2 DEF TakeVersion, ClearToken
    <2>5. own' \in [Tabs -> AnyToken] /\ shared' \in [token : AnyToken, remember : BOOLEAN]
      BY <1>0, <2>4, StoreTypes DEF TypeOK
    <2> QED BY <1>0, <2>1, <2>2, <2>3, <2>5 DEF Inv, TypeOK, serverVars
  <1>3. CASE TakeLogin(tab)
    <2> DEFINE m == call[Flow(tab)]
    <2>0. m.got \in AnyToken /\ m.answer \in Answers /\ keep[tab] \in BOOLEAN
      BY <1>0, StoreTypes DEF TypeOK, F
    <2>1. /\ UNCHANGED serverVars /\ UNCHANGED <<revoked, changes>>
          /\ keep' = [keep EXCEPT ![tab] = FALSE]
      BY <1>3 DEF TakeLogin
    <2>2. \/ SetToken(tab, m.got, keep[tab]) /\ Send(F, "version", m.got, NoPassword) /\ UNCHANGED status
          \/ Done(F) /\ Unauthorized(tab, m.answer) /\ UNCHANGED <<own, shared>>
      BY <1>3 DEF TakeLogin, F
    <2> HIDE DEF m
    <2>3. call' \in [Callers -> Call] /\ CallInv' /\ SessionInv'
      BY <1>0, <1>00, <2>0, <2>1, <2>2, Freed, Sent, StoreTypes DEF Done, serverVars
    <2>4. status' \in [Tabs -> {"loading", "anonymous", "setup", "authed"}]
      BY <1>0, <2>0, <2>2, StoreTypes DEF TypeOK
    <2>5. own' \in [Tabs -> AnyToken] /\ shared' \in [token : AnyToken, remember : BOOLEAN]
      BY <1>0, <2>0, <2>2, StoreTypes DEF TypeOK
    <2> QED BY <1>0, <2>1, <2>3, <2>4, <2>5 DEF Inv, TypeOK, serverVars
  <1>4. CASE TakeSetup(tab)
    <2> DEFINE m == call[Flow(tab)]
    <2>0. m.got \in AnyToken
      BY <1>0, StoreTypes DEF F
    <2>1. UNCHANGED serverVars /\ UNCHANGED <<keep, revoked, changes>> /\ Done(F)
      BY <1>4 DEF TakeSetup, F
    <2>2. \/ SetToken(tab, m.got, TRUE) /\ Show(tab, "authed")
          \/ UNCHANGED <<own, shared, status>>
      BY <1>4 DEF TakeSetup
    <2> HIDE DEF m
    <2>3. call' \in [Callers -> Call] /\ CallInv' /\ SessionInv'
      BY <1>0, <2>1, Freed DEF Done, serverVars
    <2>4. status' \in [Tabs -> {"loading", "anonymous", "setup", "authed"}]
      BY <1>0, <2>2 DEF TypeOK, Show
    <2>5. own' \in [Tabs -> AnyToken] /\ shared' \in [token : AnyToken, remember : BOOLEAN]
      BY <1>0, <2>0, <2>2, StoreTypes DEF TypeOK
    <2> QED BY <1>0, <2>1, <2>3, <2>4, <2>5 DEF Inv, TypeOK, serverVars
  <1>5. CASE TakeChange(tab)
    <2> DEFINE m == call[Form(tab)]
    <2>0. m.got \in AnyToken /\ m.answer \in Answers /\ shared.remember \in BOOLEAN
      BY <1>0, StoreTypes DEF TypeOK
    <2>1. UNCHANGED serverVars /\ UNCHANGED <<keep, revoked, changes>> /\ Done(Form(tab))
      BY <1>5 DEF TakeChange
    <2>2. /\ Unauthorized(tab, m.answer)
          /\ SetToken(tab, m.got, shared.remember) \/ UNCHANGED <<own, shared>>
      BY <1>5 DEF TakeChange
    <2> HIDE DEF m
    <2>3. call' \in [Callers -> Call] /\ CallInv' /\ SessionInv'
      BY <1>0, <2>1, Freed DEF Done, serverVars
    <2>4. status' \in [Tabs -> {"loading", "anonymous", "setup", "authed"}]
      BY <1>0, <2>0, <2>2, StoreTypes
    <2>5. own' \in [Tabs -> AnyToken] /\ shared' \in [token : AnyToken, remember : BOOLEAN]
      BY <1>0, <2>0, <2>2, StoreTypes DEF TypeOK
    <2> QED BY <1>0, <2>1, <2>3, <2>4, <2>5 DEF Inv, TypeOK, serverVars
  <1>6. CASE TakePoll(tab)
    <2>1. UNCHANGED serverVars /\ UNCHANGED <<own, shared, keep, revoked, changes>>
          /\ Done(Poll(tab)) /\ Unauthorized(tab, call[Poll(tab)].answer)
      BY <1>6 DEF TakePoll
    <2>2. call' \in [Callers -> Call] /\ CallInv' /\ SessionInv'
      BY <1>0, <2>1, Freed DEF Done, serverVars
    <2>3. status' \in [Tabs -> {"loading", "anonymous", "setup", "authed"}]
      BY <1>0, <2>1, StoreTypes
    <2> QED BY <1>0, <2>1, <2>2, <2>3 DEF Inv, TypeOK, serverVars
  <1>7. CASE TakeLogout(tab)
    <2>1. UNCHANGED serverVars /\ UNCHANGED <<keep, changes>> /\ Done(Out(tab))
          /\ SetToken(tab, NoToken, FALSE) /\ Show(tab, "anonymous")
      BY <1>7 DEF TakeLogout, ClearToken
    <2>2. call' \in [Callers -> Call] /\ CallInv' /\ SessionInv'
      BY <1>0, <2>1, Freed DEF Done, serverVars
    <2>3. own' \in [Tabs -> AnyToken] /\ shared' \in [token : AnyToken, remember : BOOLEAN]
      BY <1>0, <2>1, StoreTypes
    <2>4. status' \in [Tabs -> {"loading", "anonymous", "setup", "authed"}]
      BY <1>0, <2>1 DEF TypeOK, Show
    <2>5. revoked' \in [Tabs -> AnyToken]
      BY <1>0, <1>7, StoreTypes DEF TypeOK, TakeLogout
    <2> QED BY <1>0, <2>1, <2>2, <2>3, <2>4, <2>5 DEF Inv, TypeOK, serverVars
  <1> QED BY <1>1, <1>2, <1>3, <1>4, <1>5, <1>6, <1>7 DEF Take

\* A step of a tab that sends a request, or a reload.
LEMMA AskStep ==
    ASSUME Inv, NEW tab \in Tabs, AskStatus(tab) \/ Ask(tab) \/ Operate(tab)
    PROVE  Inv'
  <1> DEFINE F == Flow(tab)
             C == Form(tab)
             P == Poll(tab)
             O == Out(tab)
  <1>0. /\ TypeOK /\ F \in Callers /\ C \in Callers /\ P \in Callers /\ O \in Callers
        /\ \A op \in {"status", "login", "setup"} : op \in OpsOf(F) /\ op \in Ops
        /\ "change" \in OpsOf(C) /\ "change" \in Ops
        /\ "poll" \in OpsOf(P) /\ "poll" \in Ops /\ "logout" \in OpsOf(O) /\ "logout" \in Ops
    BY PlaceFacts DEF Inv, Ops
  <1>00. /\ NoToken \in AnyToken /\ NoPassword \in AnyPassword /\ TokenOf(tab) \in AnyToken
         /\ own[tab] \in AnyToken /\ \A pw \in Passwords : pw \in AnyPassword
    BY <1>0, StoreTypes DEF AnyPassword
  <1>000. \A op \in {"status", "poll", "logout"} : op \notin {"setup", "change", "login"}
    OBVIOUS
  <1> HIDE DEF F, C, P, O
  <1>1. CASE AskStatus(tab)
    <2>1. UNCHANGED <<serverVars, tabVars>> /\ Send(F, "status", NoToken, NoPassword)
      BY <1>1 DEF AskStatus, F
    <2>2. call' \in [Callers -> Call] /\ CallInv' /\ SessionInv'
      BY <1>0, <1>00, <1>000, <2>1, Sent DEF serverVars
    <2> QED BY <1>0, <2>1, <2>2 DEF Inv, TypeOK, serverVars, tabVars
  <1>2. CASE Ask(tab)
    <2>1. UNCHANGED <<serverVars, tabVars>> /\ Send(P, "poll", TokenOf(tab), NoPassword)
      BY <1>2 DEF Ask, P
    <2>2. call' \in [Callers -> Call] /\ CallInv' /\ SessionInv'
      BY <1>0, <1>00, <1>000, <2>1, Sent DEF serverVars
    <2> QED BY <1>0, <2>1, <2>2 DEF Inv, TypeOK, serverVars, tabVars
  <1>3. CASE SubmitLogin(tab)
    <2>1. PICK pw \in Passwords, remember \in Remembers :
             Send(F, "login", NoToken, pw) /\ keep' = [keep EXCEPT ![tab] = remember]
      BY <1>3 DEF SubmitLogin, F
    <2>2. UNCHANGED <<serverVars, status, own, shared, revoked, changes>>
      BY <1>3 DEF SubmitLogin
    <2>3. call' \in [Callers -> Call] /\ CallInv' /\ SessionInv'
      BY <1>0, <1>00, <2>1, <2>2, Sent DEF serverVars
    <2>4. keep' \in [Tabs -> BOOLEAN]
      BY <1>0, <2>1, RememberAssumption DEF RememberAssumption, TypeOK
    <2> QED BY <1>0, <2>2, <2>3, <2>4 DEF Inv, TypeOK, serverVars
  <1>4. CASE SubmitSetup(tab)
    <2>1. PICK pw \in Passwords : Send(F, "setup", NoToken, pw)
      BY <1>4 DEF SubmitSetup, F
    <2>2. UNCHANGED <<serverVars, tabVars>>
      BY <1>4 DEF SubmitSetup
    <2>3. call' \in [Callers -> Call] /\ CallInv' /\ SessionInv'
      BY <1>0, <1>00, <2>1, <2>2, Sent DEF serverVars
    <2> QED BY <1>0, <2>2, <2>3 DEF Inv, TypeOK, serverVars, tabVars
  <1>5. CASE SubmitChange(tab)
    <2>1. PICK pw \in Passwords : Send(C, "change", TokenOf(tab), pw)
      BY <1>5 DEF SubmitChange, C
    <2>2. UNCHANGED <<serverVars, status, own, shared, keep, revoked>> /\ changes' = changes + 1
      BY <1>5 DEF SubmitChange
    <2>3. call' \in [Callers -> Call] /\ CallInv' /\ SessionInv'
      BY <1>0, <1>00, <2>1, <2>2, Sent DEF serverVars
    <2> QED BY <1>0, <2>2, <2>3 DEF Inv, TypeOK, serverVars
  <1>6. CASE ClickLogout(tab)
    <2>1. UNCHANGED <<serverVars, tabVars>> /\ Send(O, "logout", TokenOf(tab), NoPassword)
      BY <1>6 DEF ClickLogout, O
    <2>2. call' \in [Callers -> Call] /\ CallInv' /\ SessionInv'
      BY <1>0, <1>00, <1>000, <2>1, Sent DEF serverVars
    <2> QED BY <1>0, <2>1, <2>2 DEF Inv, TypeOK, serverVars, tabVars
  <1>7. CASE Reload(tab)
    <2>1. PICK t \in {own[tab], NoToken} : own' = [own EXCEPT ![tab] = t]
      BY <1>7 DEF Reload
    <2>2. /\ UNCHANGED <<password, sessions, minted, shared, keep, revoked, changes>>
          /\ call' = [call EXCEPT ![P] = Idle] /\ Show(tab, "loading") /\ upsets' = upsets + 1
      BY <1>7 DEF Reload, P
    <2>3. call' \in [Callers -> Call] /\ CallInv' /\ SessionInv'
      BY <1>0, <2>2, Freed
    <2>4. own' \in [Tabs -> AnyToken]
      BY <1>0, <1>00, <2>1 DEF TypeOK
    <2>5. status' \in [Tabs -> {"loading", "anonymous", "setup", "authed"}]
      BY <1>0, <2>2 DEF TypeOK, Show
    <2> QED BY <1>0, <2>2, <2>3, <2>4, <2>5 DEF Inv, TypeOK
  <1> QED BY <1>1, <1>2, <1>3, <1>4, <1>5, <1>6, <1>7 DEF Operate

\* A guest's step.
LEMMA VisitStep ==
    ASSUME Inv, NEW g \in Guests, Visit(g)
    PROVE  Inv'
  <1>1. /\ TypeOK /\ g \in Callers
        /\ \A op \in {"setup", "login", "change"} : op \in OpsOf(g) /\ op \in Ops
    BY GuestFacts DEF Inv, Ops
  <1>2. /\ UNCHANGED <<serverVars, status, own, shared, keep, revoked>>
        /\ changes' = changes \/ changes' = changes + 1
    BY DEF Visit
  <1>3. PICK pw \in Passwords : \/ Send(g, "setup", NoToken, pw)
                                \/ Send(g, "login", NoToken, pw)
                                \/ Send(g, "change", call[g].got, pw)
    BY DEF Visit
  <1>4. NoToken \in AnyToken /\ call[g].got \in AnyToken /\ pw \in AnyPassword
    BY <1>1, SessionAssumption DEF SessionAssumption, TypeOK, Call, AnyToken, NoToken, AnyPassword
  <1>5. call' \in [Callers -> Call] /\ CallInv' /\ SessionInv'
    BY <1>1, <1>2, <1>3, <1>4, Sent DEF serverVars
  <1> QED BY <1>1, <1>2, <1>5 DEF Inv, TypeOK, serverVars

\* A session's end and a restart.
LEMMA PassingStep ==
    ASSUME Inv, Passing, UNCHANGED tabVars
    PROVE  Inv'
  <1>0. TypeOK /\ CallInv /\ SessionInv /\ NoPassword \in AnyPassword
    BY DEF Inv, AnyPassword
  <1>1. ASSUME NEW t \in Tokens, Expire(t)
        PROVE  Inv'
    <2>1. /\ sessions' = [sessions EXCEPT ![t] = NoPassword]
          /\ UNCHANGED <<password, minted, call>> /\ upsets' = upsets + 1
      BY <1>1 DEF Expire
    <2>2. sessions' \in [Tokens -> AnyPassword] /\ SessionInv'
      BY <1>0, <2>1 DEF TypeOK, SessionInv, Configured
    <2>3. CallInv'
      BY <1>0, <2>1 DEF CallInv, Configured
    <2> QED BY <1>0, <2>1, <2>2, <2>3 DEF Inv, TypeOK, tabVars
  <1>2. ASSUME Restart
        PROVE  Inv'
    <2>1. /\ sessions' = NoSessions /\ UNCHANGED <<password, minted>> /\ upsets' = upsets + 1
          /\ call' = [c \in Callers |->
                  IF call[c].pc \in {"idle", "answered"} THEN call[c]
                  ELSE [call[c] EXCEPT !.pc = "answered", !.answer = "refused"]]
      BY <1>2 DEF Restart
    <2>2. sessions' \in [Tokens -> AnyPassword] /\ SessionInv'
      BY <1>0, <2>1 DEF TypeOK, SessionInv, NoSessions
    <2>3. \A c \in Callers : /\ call'[c] \in Call /\ call'[c].op = call[c].op
                             /\ call'[c].pc \in {"idle", "answered"}
      <3>1. ASSUME NEW c \in Callers
            PROVE  /\ call'[c] \in Call /\ call'[c].op = call[c].op
                   /\ call'[c].pc \in {"idle", "answered"}
        <4>1. call[c] \in Call
          BY <1>0 DEF TypeOK
        <4>2. call'[c] = IF call[c].pc \in {"idle", "answered"} THEN call[c]
                         ELSE [call[c] EXCEPT !.pc = "answered", !.answer = "refused"]
          BY <2>1
        <4> QED BY <4>1, <4>2 DEF Call, Pcs, Answers
      <3> QED BY <3>1
    <2>4. call' \in [Callers -> Call]
      BY <2>1, <2>3
    <2>5. CallInv'
      BY <1>0, <2>1, <2>3 DEF CallInv, Configured
    <2>6. UNCHANGED <<password, minted>> /\ upsets' = upsets + 1
      BY <2>1
    <2>7. TypeOK'
      BY <1>0, <2>2, <2>4, <2>6 DEF TypeOK, tabVars
    <2> QED BY <2>2, <2>5, <2>7 DEF Inv
  <1> QED BY <1>1, <1>2 DEF Passing

\* Every step keeps the invariant.
LEMMA InvStep == Inv /\ [Next]_vars => Inv'
  <1> SUFFICES ASSUME Inv, [Next]_vars PROVE Inv'
    OBVIOUS
  <1>1. CASE ServeCall
    BY <1>1, ServeStep DEF ServeCall
  <1>2. CASE Passing /\ UNCHANGED tabVars
    BY <1>2, PassingStep
  <1>3. CASE \E g \in Guests : Visit(g)
    BY <1>3, VisitStep
  <1>4. CASE \E tab \in Tabs : AskStatus(tab) \/ Ask(tab) \/ Take(tab) \/ Operate(tab)
    BY <1>4, AskStep, TakeStep
  <1>5. CASE UNCHANGED vars
    BY <1>5 DEF vars, tabVars, Inv, TypeOK, CallInv, SessionInv, Configured
  <1> QED BY <1>1, <1>2, <1>3, <1>4, <1>5 DEF Next

\* The invariant holds in every state.
LEMMA InvHolds == Spec => []Inv
  <1> QED BY InitInv, InvStep, PTL DEF Spec

\* The state of the console and of the server has its type: what a tab keeps and
\* sends are tokens the server numbers, whatever the order of requests and answers.
THEOREM TypeCorrect == Spec => []TypeOK
  <1>1. Inv => TypeOK
    BY DEF Inv
  <1> QED BY <1>1, InvHolds, PTL

-----------------------------------------------------------------------------
(* The sessions implement TokenLife. *)

OverTokens == (1..minted) \ LiveTokens

\* Only issued tokens open the admin API.
LEMMA LiveIssued ==
    ASSUME Inv
    PROVE  minted \in Nat /\ minted <= MaxTokens /\ LiveTokens \subseteq 1..minted
  <1>1. minted \in Nat /\ minted <= MaxTokens /\ MaxTokens \in Nat
    BY SessionAssumption DEF SessionAssumption, Inv, TypeOK, AnyToken
  <1> QED BY <1>1 DEF Inv, SessionInv, LiveTokens, Valid, Configured, Tokens

\* Sessions that end make a step of TokenLife, or none.
LEMMA SomeEnd ==
    ASSUME Inv, minted' = minted, LiveTokens' \subseteq LiveTokens
    PROVE  [Life!Next]_<<LiveTokens, OverTokens>>
  <1>1. CASE LiveTokens' = LiveTokens
    BY <1>1 DEF OverTokens
  <1>2. CASE LiveTokens' # LiveTokens
    <2> DEFINE S == LiveTokens \ LiveTokens'
    <2>1. S \in (SUBSET LiveTokens) \ {{}}
      BY <1>2
    <2>2. LiveTokens' = LiveTokens \ S
      OBVIOUS
    <2>3. OverTokens' = OverTokens \cup S
      BY LiveIssued DEF OverTokens
    <2> HIDE DEF S
    <2>4. Life!End
      BY <2>1, <2>2, <2>3 DEF Life!End, OverTokens
    <2> QED BY <2>4 DEF Life!Next
  <1> QED BY <1>1, <1>2

\* A step that keeps the password and every change that is under way, and adds no
\* session.
LEMMA NothingBorn ==
    ASSUME Inv, UNCHANGED <<password, minted>>, Changing => Changing',
           \A t \in Tokens : sessions'[t] \in {sessions[t], NoPassword}
    PROVE  [Life!Next]_<<LiveTokens, OverTokens>>
  <1>1. LiveTokens' \subseteq LiveTokens
    BY DEF LiveTokens, Valid, Configured
  <1> QED BY <1>1, SomeEnd

\* A step without a session at its end.
LEMMA AllEnd ==
    ASSUME Inv, minted' = minted, \A t \in Tokens : sessions'[t] = NoPassword
    PROVE  [Life!Next]_<<LiveTokens, OverTokens>>
  <1>1. LiveTokens' \subseteq LiveTokens
    BY DEF LiveTokens, Valid, Configured
  <1> QED BY <1>1, SomeEnd

\* A change that is under way stays so when another place's record is replaced.
LEMMA StillChanging ==
    ASSUME NEW c \in Callers, call[c].pc # "revoking",
           \A d \in Callers : d # c => call'[d] = call[d]
    PROVE  Changing => Changing'
  BY DEF Changing, At

\* At the start no token opens the admin API, and none ever did.
LEMMA LifeInit == Init => Life!Init
  BY DEF Init, SessionInit, NoSessions, LiveTokens, Valid, Configured, Life!Init

\* A handler's step.
LEMMA LifeServe ==
    ASSUME Inv, NEW c \in Callers, Serve(c), UNCHANGED tabVars
    PROVE  [Life!Next]_<<LiveTokens, OverTokens>>
  <1>0. /\ \A d \in Callers : d # c => call'[d] = call[d]
        /\ call[c] \in Call /\ Inv' /\ sessions \in [Tokens -> AnyPassword]
        /\ call \in [Callers -> Call]
    BY ServeStep DEF Inv, TypeOK
  <1>1. CASE Status(c) \/ Match(c) \/ ReadPassword(c) \/ SetupCheck(c)
    <2>1. UNCHANGED serverVars /\ call[c].pc # "revoking"
      BY <1>1 DEF Status, Match, ReadPassword, SetupCheck, At
    <2> QED BY <1>0, <2>1, StillChanging, NothingBorn DEF serverVars
  <1>2. CASE Gate(c) \/ Logout(c)
    <2>1. UNCHANGED <<password, minted>> /\ call[c].pc # "revoking"
      BY <1>2 DEF Gate, Logout, At
    <2>2. \A t \in Tokens : sessions'[t] \in {sessions[t], NoPassword}
      BY <1>0, <1>2 DEF Gate, Logout
    <2> QED BY <1>0, <2>1, <2>2, StillChanging, NothingBorn
  <1>3. CASE Issue(c)
    <2> DEFINE n == minted + 1
               L == LiveTokens
    <2>1. /\ n \in Tokens /\ minted' = n /\ n \notin 1..minted /\ 1..n = (1..minted) \cup {n}
          /\ sessions' = [sessions EXCEPT ![n] = call[c].pw]
          /\ password' = password /\ call[c].pc = "bound" /\ call'[c].pc = "answered"
      <3>1. minted \in Nat /\ minted < MaxTokens /\ MaxTokens \in Nat
        BY <1>3, LiveIssued, SessionAssumption DEF SessionAssumption, Issue
      <3>2. n \in Tokens /\ n \notin 1..minted /\ 1..n = (1..minted) \cup {n}
        BY <3>1 DEF Tokens
      <3>3. call'[c].pc = "answered"
        BY <1>0, <1>3 DEF Issue, Grant, Call
      <3> QED BY <1>3, <3>2, <3>3 DEF Issue
    <2>2. L \subseteq 1..minted
      BY LiveIssued
    <2> HIDE DEF n
    <2>3. Changing' <=> Changing
      BY <1>0, <2>1 DEF Changing, At
    <2>4. LiveTokens' = L \/ LiveTokens' = L \cup {n}
      <3>1. \A t \in Tokens : t # n => (Valid(t)' <=> Valid(t))
        BY <1>0, <2>1 DEF Valid, Configured
      <3>2. n \notin L
        BY <2>1, <2>2
      <3>3. CASE Changing
        BY <2>3, <3>3 DEF LiveTokens
      <3>4. CASE ~Changing
        <4>1. L = {t \in Tokens : Valid(t)} /\ LiveTokens' = {t \in Tokens : Valid(t)'}
          BY <2>3, <3>4 DEF LiveTokens
        <4> QED BY <2>1, <3>1, <3>2, <4>1
      <3> QED BY <3>3, <3>4
    <2>5. n \in Tokens \ (L \cup OverTokens)
      BY <2>1, <2>2 DEF OverTokens
    <2>6. CASE LiveTokens' = L \cup {n}
      <3>1. OverTokens' = OverTokens
        BY <2>1, <2>2, <2>6 DEF OverTokens
      <3>2. Life!Grant
        BY <2>5, <2>6, <3>1 DEF Life!Grant, Life!Fresh, OverTokens
      <3> QED BY <3>2 DEF Life!Next
    <2>7. CASE LiveTokens' = L
      <3>1. OverTokens' = OverTokens \cup {n}
        BY <2>1, <2>2, <2>7 DEF OverTokens
      <3>2. Life!Waste
        BY <2>5, <2>7, <3>1 DEF Life!Waste, Life!Fresh, OverTokens
      <3> QED BY <3>2 DEF Life!Next
    <2> QED BY <2>4, <2>6, <2>7
  <1>4. CASE SetupStore(c)
    <2>1. UNCHANGED <<sessions, minted>> /\ call[c].pc # "revoking"
      BY <1>4 DEF SetupStore, At
    <2>2. CASE Configured
      <3>1. UNCHANGED password
        BY <1>4, <2>2 DEF SetupStore
      <3> QED BY <1>0, <2>1, <3>1, StillChanging, NothingBorn
    <2>3. CASE ~Configured
      BY <2>1, <2>3, AllEnd DEF Inv, SessionInv
    <2> QED BY <2>2, <2>3
  <1>5. CASE SavePassword(c)
    <2>1. minted' = minted /\ call'[c].op = "change" /\ call'[c].pc = "revoking"
      BY <1>0, <1>5 DEF SavePassword, GoOn, At, Call
    <2>2. Changing'
      BY <2>1 DEF Changing, At
    <2> QED BY <2>1, <2>2, SomeEnd DEF LiveTokens
  <1>6. CASE RevokeAll(c)
    BY <1>6, AllEnd DEF RevokeAll, NoSessions
  <1> QED BY <1>1, <1>2, <1>3, <1>4, <1>5, <1>6 DEF Serve

\* A step of the console's changes no session and ends no change.
LEMMA LifeConsole ==
    ASSUME Inv,
           \/ \E g \in Guests : Visit(g)
           \/ \E tab \in Tabs : AskStatus(tab) \/ Ask(tab) \/ Take(tab) \/ Operate(tab)
    PROVE  /\ UNCHANGED <<password, sessions, minted>>
           /\ Changing => Changing'
  <1>1. ASSUME NEW g \in Guests, Visit(g)
        PROVE  UNCHANGED <<password, sessions, minted>> /\ (Changing => Changing')
    <2>1. g \in Callers /\ call[g].pc # "revoking" /\ UNCHANGED <<password, sessions, minted>>
      BY <1>1, GuestFacts DEF Visit, serverVars
    <2>2. \A d \in Callers : d # g => call'[d] = call[d]
      BY <1>1, <2>1 DEF Visit, Send, Inv, TypeOK
    <2> QED BY <2>1, <2>2, StillChanging
  <1>2. ASSUME NEW tab \in Tabs, AskStatus(tab) \/ Ask(tab) \/ Take(tab) \/ Operate(tab)
        PROVE  UNCHANGED <<password, sessions, minted>> /\ (Changing => Changing')
    <2> DEFINE P == {Flow(tab), Form(tab), Poll(tab), Out(tab)}
    <2>0. P \subseteq Callers /\ call \in [Callers -> Call]
      BY PlaceFacts DEF Inv, TypeOK
    <2>1. UNCHANGED <<password, sessions, minted>>
      BY <1>2 DEF AskStatus, Ask, Take, Operate, TakeStatus, TakeVersion, TakeLogin, TakeSetup,
         TakeChange, TakePoll, TakeLogout, SubmitLogin, SubmitSetup, SubmitChange, ClickLogout,
         Reload, serverVars
    <2>2. CASE Reload(tab)
      <3>1. call[Poll(tab)].pc # "revoking"
        BY <2>0, PlaceFacts DEF Inv, CallInv
      <3> QED BY <2>0, <2>1, <2>2, <3>1, StillChanging DEF Reload
    <2>3. CASE ~Reload(tab)
      <3>1. \E c \in P : /\ call[c].pc \in {"idle", "answered"}
                         /\ \E m : call' = [call EXCEPT ![c] = m]
        BY <1>2, <2>3 DEF AskStatus, Ask, Take, Operate, TakeStatus, TakeVersion, TakeLogin, TakeSetup,
           TakeChange, TakePoll, TakeLogout, SubmitLogin, SubmitSetup, SubmitChange, ClickLogout,
           Send, Done, IsIdle, Answered, At, SubmitButton, PasswordForm
      <3>2. PICK c \in P : /\ call[c].pc \in {"idle", "answered"}
                           /\ \E m : call' = [call EXCEPT ![c] = m]
        BY <3>1
      <3>3. c \in Callers /\ \A d \in Callers : d # c => call'[d] = call[d]
        BY <2>0, <3>2
      <3> QED BY <2>1, <3>2, <3>3, StillChanging
    <2> QED BY <2>2, <2>3
  <1> QED BY <1>1, <1>2

\* Every step is one of TokenLife's, or none.
LEMMA LifeStep == Inv /\ [Next]_vars => [Life!Next]_<<LiveTokens, OverTokens>>
  <1> SUFFICES ASSUME Inv, [Next]_vars PROVE [Life!Next]_<<LiveTokens, OverTokens>>
    OBVIOUS
  <1>1. CASE ServeCall
    BY <1>1, LifeServe DEF ServeCall
  <1>2. CASE Passing /\ UNCHANGED tabVars
    <2>1. ASSUME NEW t \in Tokens, Expire(t)
          PROVE  [Life!Next]_<<LiveTokens, OverTokens>>
      <3>1. UNCHANGED <<password, minted, call>>
        BY <2>1 DEF Expire
      <3>2. \A u \in Tokens : sessions'[u] \in {sessions[u], NoPassword}
        BY <2>1 DEF Expire, Inv, TypeOK
      <3>3. Changing => Changing'
        BY <3>1 DEF Changing, At
      <3> QED BY <3>1, <3>2, <3>3, NothingBorn
    <2>2. ASSUME Restart
          PROVE  [Life!Next]_<<LiveTokens, OverTokens>>
      <3>1. minted' = minted /\ \A t \in Tokens : sessions'[t] = NoPassword
        BY <2>2 DEF Restart, NoSessions
      <3> QED BY <3>1, AllEnd
    <2> QED BY <1>2, <2>1, <2>2 DEF Passing
  <1>3. CASE \/ \E g \in Guests : Visit(g)
             \/ \E tab \in Tabs : AskStatus(tab) \/ Ask(tab) \/ Take(tab) \/ Operate(tab)
    <2>1. UNCHANGED <<password, sessions, minted>> /\ (Changing => Changing')
      BY <1>3, LifeConsole
    <2> QED BY <2>1, NothingBorn
  <1>4. CASE UNCHANGED vars
    <2>1. UNCHANGED <<password, sessions, minted>> /\ (Changing => Changing')
      BY <1>4 DEF vars, Changing, At
    <2> QED BY <2>1, NothingBorn
  <1> QED BY <1>1, <1>2, <1>3, <1>4 DEF Next

\* The admin sessions implement TokenLife: no token opens the admin API again once
\* it has ceased to, whatever logins, logouts, expiries, restarts and changes of the
\* password overtake each other (admin_session.go:170-172, handler.go:3891-3897).
THEOREM SessionsLiveOnce == Spec => TokensLiveOnce
  <1>1. Inv /\ [Next]_vars => [Life!Next]_<<LiveTokens, (1..minted) \ LiveTokens>>
    BY LifeStep DEF OverTokens
  <1> QED BY LifeInit, InvHolds, <1>1, PTL DEF Spec, TokensLiveOnce, Life!Spec

-----------------------------------------------------------------------------
(* What has been logged out of stays so. *)

Quiet == GrantInv /\ LogoutInv

\* A step that grants nothing and hands nothing over.
LEMMA NothingGranted ==
    ASSUME Inv, Quiet, minted' = minted,
           \A t \in Tokens : sessions'[t] \in {sessions[t], NoPassword},
           \A p \in GrantPlaces : Granted(p)' \in {Granted(p), NoToken},
           \A x \in Tabs :
              /\ own'[x] \in {own[x], NoToken} /\ shared'.token \in {shared.token, NoToken}
              /\ call'[Out(x)].token \in TokensOf(x) \cup {NoToken}
              /\ LoggedOut(x)' /\ call'[Out(x)].token # NoToken
                    => sessions'[call'[Out(x)].token] = NoPassword
              /\ \/ revoked'[x] = revoked[x]
                 \/ /\ LoggedOut(x) /\ revoked'[x] = call[Out(x)].token
                    /\ own'[x] = NoToken /\ shared'.token = NoToken
    PROVE  Quiet'
  <1>1. \A x \in Tabs : TokensOf(x)' \subseteq TokensOf(x) \cup {NoToken}
    BY DEF TokensOf
  <1>2. minted \in Nat /\ NoToken <= minted
    BY LiveIssued DEF NoToken
  <1>3. GrantInv'
    BY <1>1, <1>2 DEF Quiet, GrantInv
  <1>4. ASSUME NEW x \in Tabs, revoked'[x] # NoToken
        PROVE  /\ sessions'[revoked'[x]] = NoPassword
               /\ revoked'[x] \notin {own'[x], shared'.token}
    <2>1. revoked'[x] \in TokensOf(x)
      BY DEF TokensOf
    <2>2. revoked'[x] \in Tokens
      <3>1. revoked[x] \in AnyToken /\ call[Out(x)].token \in AnyToken
        BY PlaceFacts DEF Inv, TypeOK, Call
      <3>2. revoked'[x] \in AnyToken
        BY <3>1
      <3> QED BY <3>2, <1>4, SessionAssumption DEF SessionAssumption, AnyToken, Tokens, NoToken
    <2>3. sessions[revoked'[x]] = NoPassword
      BY <1>4 DEF Quiet, LogoutInv
    <2> QED BY <1>4, <2>2, <2>3 DEF Quiet, LogoutInv
  <1>5. LogoutInv'
    BY <1>4 DEF LogoutInv
  <1> QED BY <1>3, <1>5 DEF Quiet

\* A tab takes what it was granted.
LEMMA GrantTaken ==
    ASSUME Inv, Quiet, UNCHANGED <<minted, sessions, revoked>>,
           NEW tab \in Tabs, NEW p \in GrantPlaces, NEW r \in BOOLEAN,
           SetToken(tab, Granted(p), r),
           \A d \in Callers : d # p => call'[d] = call[d],
           call'[p].got = NoToken
    PROVE  Quiet'
  <1> DEFINE g == Granted(p)
  <1>1. minted \in Nat /\ NoToken <= minted /\ g <= minted
    BY LiveIssued DEF NoToken, Quiet, GrantInv
  <1>2. \A x \in Tabs : /\ own'[x] \in {own[x], g} /\ shared'.token \in {g, NoToken}
                        /\ x # tab => own'[x] = own[x]
    BY DEF SetToken, NothingShared, Inv, TypeOK
  <1>3. /\ \A x \in Tabs : call'[Out(x)] = call[Out(x)]
        /\ \A q \in GrantPlaces : q # p => Granted(q)' = Granted(q)
    BY PlaceFacts, GrantPlaceFacts DEF Granted
  <1>4. Granted(p)' = NoToken
    BY DEF Granted
  <1>5. \A x \in Tabs : TokensOf(x)' \subseteq TokensOf(x) \cup {g, NoToken}
    BY <1>2, <1>3 DEF TokensOf
  <1>6. g # NoToken => /\ \A x \in Tabs : g \notin TokensOf(x)
                       /\ \A q \in GrantPlaces : q # p => Granted(q) # g
    BY DEF Quiet, GrantInv
  <1> HIDE DEF g
  <1>7. GrantInv'
    <2>1. ASSUME NEW x \in Tabs
          PROVE  \A u \in TokensOf(x)' : u <= minted'
      BY <1>1, <1>5 DEF Quiet, GrantInv
    <2>2. ASSUME NEW q \in GrantPlaces
          PROVE  Granted(q)' <= minted'
      BY <1>1, <1>3, <1>4 DEF Quiet, GrantInv
    <2>3. ASSUME NEW q \in GrantPlaces, Granted(q)' # NoToken
          PROVE  /\ \A x \in Tabs : Granted(q)' \notin TokensOf(x)'
                 /\ \A o \in GrantPlaces : o # q => Granted(q)' # Granted(o)'
      <3>1. q # p /\ Granted(q)' = Granted(q)
        BY <1>3, <1>4, <2>3
      <3>2. Granted(q) # g
        BY <1>6, <2>3, <3>1
      <3> QED BY <1>3, <1>4, <1>5, <2>3, <3>1, <3>2 DEF Quiet, GrantInv
    <2> QED BY <2>1, <2>2, <2>3 DEF GrantInv
  <1>8. LogoutInv'
    <2>1. \A x \in Tabs : revoked[x] # NoToken => revoked[x] # g
      BY <1>6 DEF TokensOf
    <2>2. \A x \in Tabs : LoggedOut(x)' <=> LoggedOut(x)
      BY <1>3 DEF LoggedOut, Answered, At
    <2> QED BY <1>2, <1>3, <2>1, <2>2 DEF Quiet, LogoutInv
  <1> QED BY <1>7, <1>8 DEF Quiet

\* A token that is issued nobody has yet.
LEMMA TokenIssued ==
    ASSUME Inv, Quiet, NEW c \in Callers, Issue(c), UNCHANGED tabVars
    PROVE  Quiet'
  <1> DEFINE n == minted + 1
  <1>1. /\ minted \in Nat /\ minted' = n /\ n # NoToken
        /\ \A u \in AnyToken : u <= minted => u # n /\ u <= n
        /\ sessions' = [sessions EXCEPT ![n] = call[c].pw]
    <2>1. minted \in Nat /\ MaxTokens \in Nat
      BY LiveIssued, SessionAssumption DEF SessionAssumption
    <2>2. \A u \in AnyToken : u <= minted => u # n /\ u <= n
      BY <2>1 DEF AnyToken
    <2> QED BY <2>1, <2>2 DEF Issue, NoToken
  <1>2. call'[c].got = n /\ \A d \in Callers : d # c => call'[d] = call[d]
    <2>1. call \in [Callers -> Call] /\ Grant(c, n)
      BY DEF Issue, Inv, TypeOK
    <2>2. call[c] \in Call
      BY <2>1
    <2> QED BY <2>1, <2>2 DEF Grant, Call
  <1>3. \A x \in Tabs : c # Out(x)
    BY PlaceFacts DEF Issue, Inv, CallInv
  <1>4. \A x \in Tabs : call'[Out(x)] = call[Out(x)] /\ TokensOf(x)' = TokensOf(x)
    BY <1>2, <1>3, PlaceFacts DEF TokensOf, tabVars
  <1>5. \A p \in GrantPlaces : Granted(p)' = IF c = p THEN n ELSE Granted(p)
    BY <1>2, GrantPlaceFacts DEF Granted
  <1>50. /\ \A x \in Tabs : \A u \in TokensOf(x) : u \in AnyToken
         /\ \A p \in GrantPlaces : Granted(p) \in AnyToken
    BY PlaceFacts, GrantPlaceFacts DEF TokensOf, Granted, Inv, TypeOK, Call
  <1>51. n <= n
    BY <1>1
  <1> HIDE DEF n
  <1>6. GrantInv'
    <2>1. ASSUME NEW x \in Tabs
          PROVE  \A u \in TokensOf(x)' : u <= minted'
      BY <1>1, <1>4, <1>50 DEF Quiet, GrantInv
    <2>2. ASSUME NEW p \in GrantPlaces
          PROVE  Granted(p)' <= minted'
      BY <1>1, <1>5, <1>50, <1>51 DEF Quiet, GrantInv
    <2>3. ASSUME NEW p \in GrantPlaces, Granted(p)' # NoToken
          PROVE  /\ \A x \in Tabs : Granted(p)' \notin TokensOf(x)'
                 /\ \A q \in GrantPlaces : q # p => Granted(p)' # Granted(q)'
      <3>1. /\ \A x \in Tabs : n \notin TokensOf(x)
            /\ \A q \in GrantPlaces : Granted(q) # n
        BY <1>1, <1>50 DEF Quiet, GrantInv
      <3> QED BY <1>4, <1>5, <2>3, <3>1 DEF Quiet, GrantInv
    <2> QED BY <2>1, <2>2, <2>3 DEF GrantInv
  <1>7. LogoutInv'
    <2>1. \A x \in Tabs : LoggedOut(x)' <=> LoggedOut(x)
      BY <1>4 DEF LoggedOut, Answered, At
    <2>2. \A x \in Tabs : \A u \in TokensOf(x) : u # n
      BY <1>1, <1>50 DEF Quiet, GrantInv
    <2>3. \A x \in Tabs : \A u \in TokensOf(x) : u # NoToken => sessions'[u] = sessions[u]
      <3>1. \A x \in Tabs : \A u \in TokensOf(x) : u \in AnyToken
        BY PlaceFacts DEF TokensOf, Inv, TypeOK, Call
      <3>2. \A u \in AnyToken : u # NoToken => u \in Tokens
        BY SessionAssumption DEF SessionAssumption, AnyToken, Tokens, NoToken
      <3> QED BY <1>1, <2>2, <3>1, <3>2 DEF Inv, TypeOK
    <2>4. \A x \in Tabs : /\ own[x] \in TokensOf(x) /\ shared.token \in TokensOf(x)
                          /\ revoked[x] \in TokensOf(x) /\ call[Out(x)].token \in TokensOf(x)
      BY DEF TokensOf
    <2> QED BY <1>4, <2>1, <2>3, <2>4 DEF Quiet, LogoutInv, tabVars
  <1> QED BY <1>6, <1>7 DEF Quiet

\* A handler's step hands a tab nothing but a new token.
LEMMA QuietServe ==
    ASSUME Inv, Quiet, NEW c \in Callers, Serve(c), UNCHANGED tabVars
    PROVE  Quiet'
  <1>0. /\ call[c] \in Call /\ call \in [Callers -> Call] /\ sessions \in [Tokens -> AnyPassword]
        /\ call'[c].token \in {call[c].token, NoToken}
        /\ \A d \in Callers : d # c => call'[d] = call[d]
    BY ServeStep DEF Inv, TypeOK
  <1>1. CASE Issue(c)
    BY <1>1, TokenIssued
  <1>2. CASE ~Issue(c)
    <2>1. minted' = minted
      BY <1>2 DEF Serve, serverVars, Status, Gate, Match, ReadPassword, SetupCheck, SetupStore,
                  SavePassword, RevokeAll, Logout
    <2>2. \A t \in Tokens : sessions'[t] \in {sessions[t], NoPassword}
      BY <1>0, <1>2 DEF Serve, serverVars, Status, Gate, Match, ReadPassword, SetupCheck, SetupStore,
                        SavePassword, RevokeAll, Logout, NoSessions
    <2>3. call'[c].got \in {call[c].got, NoToken}
      <3>1. CASE Gate(c)
        <4>1. GoOn(c, "gated") \/ call' = [call EXCEPT ![c] = Idle] \/ \E a \in Answers : Answer(c, a)
          BY <3>1 DEF Gate, Answers
        <4>2. CASE GoOn(c, "gated")
          BY <1>0, <4>2 DEF GoOn, Call
        <4>3. CASE call' = [call EXCEPT ![c] = Idle]
          BY <1>0, <4>3 DEF Idle
        <4>4. CASE \E a \in Answers : Answer(c, a)
          BY <1>0, <4>4 DEF Answer, Call
        <4> QED BY <4>1, <4>2, <4>3, <4>4
      <3>2. CASE ~Gate(c)
        BY <1>0, <1>2, <3>2 DEF Serve, Status, Match, ReadPassword, SetupCheck, SetupStore,
                        SavePassword, RevokeAll, Logout, Answer, GoOn, Call
      <3> QED BY <3>1, <3>2
    <2>4. \A p \in GrantPlaces : Granted(p)' \in {Granted(p), NoToken}
      BY <1>0, <2>3, GrantPlaceFacts DEF Granted
    <2>5. ASSUME NEW x \in Tabs
          PROVE  /\ own'[x] \in {own[x], NoToken} /\ shared'.token \in {shared.token, NoToken}
                 /\ call'[Out(x)].token \in TokensOf(x) \cup {NoToken}
                 /\ LoggedOut(x)' /\ call'[Out(x)].token # NoToken
                       => sessions'[call'[Out(x)].token] = NoPassword
                 /\ revoked'[x] = revoked[x]
      <3>1. Out(x) \in Callers
        BY PlaceFacts
      <3>3. call'[Out(x)].token \in TokensOf(x) \cup {NoToken}
        BY <1>0, <3>1 DEF TokensOf
      <3>4. ASSUME LoggedOut(x)', call'[Out(x)].token # NoToken
            PROVE  sessions'[call'[Out(x)].token] = NoPassword
        <4>1. call'[Out(x)].token = call[Out(x)].token
          BY <1>0, <3>1, <3>4
        <4>2. call[Out(x)].token \in Tokens
          BY <3>1, <3>4, <4>1, SessionAssumption
             DEF SessionAssumption, Inv, TypeOK, Call, AnyToken, Tokens, NoToken
        <4>3. CASE c # Out(x)
          <5>1. LoggedOut(x)
            BY <1>0, <3>1, <3>4, <4>3 DEF LoggedOut, Answered, At
          <5> QED BY <2>2, <3>4, <4>1, <4>2, <5>1 DEF Quiet, LogoutInv
        <4>4. CASE c = Out(x)
          <5>1. call[c].op \in {"none", "logout"}
            BY <3>1, <4>4, PlaceFacts DEF Inv, CallInv
          <5>2. Logout(c)
            BY <1>2, <5>1 DEF Serve, Status, Gate, Match, ReadPassword, SetupCheck, SetupStore,
                              SavePassword, RevokeAll, At, Inv, CallInv
          <5> QED BY <4>1, <4>2, <4>4, <5>2 DEF Logout
        <4> QED BY <4>3, <4>4
      <3> QED BY <3>3, <3>4 DEF tabVars
    <2> QED BY <2>1, <2>2, <2>4, <2>5, NothingGranted
  <1> QED BY <1>1, <1>2

\* A step of a tab's that grants nothing, takes nothing and is not the end of a
\* logout.
LEMMA TabQuiet ==
    ASSUME Inv, Quiet, UNCHANGED <<minted, sessions, revoked>>, NEW tab \in Tabs,
           \/ UNCHANGED <<own, shared>>
           \/ SetToken(tab, NoToken, FALSE)
           \/ own' = [own EXCEPT ![tab] = NoToken] /\ UNCHANGED shared,
           NEW c \in {Flow(tab), Form(tab), Poll(tab), Out(tab)},
           \A d \in Callers : d # c => call'[d] = call[d],
           c \in GrantPlaces => call'[c].got = NoToken,
           c = Out(tab) => /\ call'[c].token \in TokensOf(tab)
                           /\ call'[c].pc # "answered"
    PROVE  Quiet'
  <1>1. \A p \in GrantPlaces : Granted(p)' \in {Granted(p), NoToken}
    BY GrantPlaceFacts DEF Granted
  <1>2. ASSUME NEW x \in Tabs
        PROVE  /\ own'[x] \in {own[x], NoToken} /\ shared'.token \in {shared.token, NoToken}
               /\ call'[Out(x)].token \in TokensOf(x) \cup {NoToken}
               /\ LoggedOut(x)' /\ call'[Out(x)].token # NoToken
                     => sessions'[call'[Out(x)].token] = NoPassword
    <2>1. own'[x] \in {own[x], NoToken} /\ shared'.token \in {shared.token, NoToken}
      BY DEF SetToken, NothingShared, Inv, TypeOK
    <2>2. CASE c = Out(x)
      <3>1. x = tab /\ c = Out(tab)
        BY <2>2, PlacesDiffer
      <3> QED BY <2>1, <3>1 DEF LoggedOut, Answered, At
    <2>3. CASE c # Out(x)
      <3>1. call'[Out(x)] = call[Out(x)]
        BY <2>3, PlaceFacts
      <3> QED BY <2>1, <3>1 DEF LoggedOut, Answered, At, TokensOf, Quiet, LogoutInv
    <2> QED BY <2>2, <2>3
  <1> QED BY <1>1, <1>2, NothingGranted

\* What a place holds after its step.
LEMMA PlaceStep ==
    ASSUME Inv, NEW c \in Callers
    PROVE  /\ \A op, t, pw : Send(c, op, t, pw) =>
                 /\ call'[c].token = t /\ call'[c].got = NoToken /\ call'[c].pc = "sent"
                 /\ \A d \in Callers : d # c => call'[d] = call[d]
           /\ Done(c) => /\ call'[c].got = NoToken
                         /\ \A d \in Callers : d # c => call'[d] = call[d]
  <1>1. ASSUME NEW m, call' = [call EXCEPT ![c] = m]
        PROVE  call'[c] = m /\ \A d \in Callers : d # c => call'[d] = call[d]
    BY <1>1 DEF Inv, TypeOK
  <1>2. ASSUME NEW op, NEW t, NEW pw
        PROVE  /\ Request(op, t, pw).token = t /\ Request(op, t, pw).got = NoToken
               /\ Request(op, t, pw).pc = "sent"
    BY DEF Request, Idle
  <1>3. Idle.got = NoToken
    BY DEF Idle
  <1> QED BY <1>1, <1>2, <1>3 DEF Send, Done

\* A tab that sends a request sends what it has, or nothing.
LEMMA QuietAsk ==
    ASSUME Inv, Quiet, NEW tab \in Tabs, AskStatus(tab) \/ Ask(tab) \/ Operate(tab)
    PROVE  Quiet'
  <1> DEFINE F == Flow(tab)
             C == Form(tab)
             P == Poll(tab)
             O == Out(tab)
  <1>0. /\ F \in Callers /\ C \in Callers /\ P \in Callers /\ O \in Callers
        /\ F # P /\ F # O /\ P # O /\ C # O /\ P \notin GrantPlaces /\ O \notin GrantPlaces
        /\ UNCHANGED <<minted, sessions, revoked>>
    BY PlaceFacts, PlacesDiffer, GrantPlaceFacts DEF AskStatus, Ask, Operate, SubmitLogin, SubmitSetup,
       SubmitChange, ClickLogout, Reload, serverVars, tabVars
  <1>1. CASE AskStatus(tab) \/ SubmitLogin(tab) \/ SubmitSetup(tab) \/ SubmitChange(tab)
    <2>1. UNCHANGED <<own, shared>>
      BY <1>1 DEF AskStatus, SubmitLogin, SubmitSetup, SubmitChange, tabVars
    <2>2. PICK c \in {F, C} : \E op, t, pw : Send(c, op, t, pw)
      BY <1>1 DEF AskStatus, SubmitLogin, SubmitSetup, SubmitChange
    <2>3. call'[c].got = NoToken /\ \A d \in Callers : d # c => call'[d] = call[d]
      BY <1>0, <2>2, PlaceStep
    <2> QED BY <1>0, <2>1, <2>3, TabQuiet
  <1>2. CASE Ask(tab)
    <2>1. UNCHANGED <<own, shared>> /\ Send(P, "poll", TokenOf(tab), NoPassword)
      BY <1>2 DEF Ask, tabVars
    <2>2. \A d \in Callers : d # P => call'[d] = call[d]
      BY <1>0, <2>1, PlaceStep
    <2> QED BY <1>0, <2>1, <2>2, TabQuiet
  <1>3. CASE ClickLogout(tab)
    <2>1. UNCHANGED <<own, shared>> /\ Send(O, "logout", TokenOf(tab), NoPassword)
      BY <1>3 DEF ClickLogout, tabVars
    <2>2. /\ call'[O].token = TokenOf(tab) /\ call'[O].pc = "sent"
          /\ \A d \in Callers : d # O => call'[d] = call[d]
      BY <1>0, <2>1, PlaceStep
    <2>3. TokenOf(tab) \in TokensOf(tab)
      BY DEF TokenOf, TokensOf
    <2> QED BY <1>0, <2>1, <2>2, <2>3, TabQuiet
  <1>4. CASE Reload(tab)
    <2>1. /\ UNCHANGED shared /\ call' = [call EXCEPT ![P] = Idle]
          /\ UNCHANGED own \/ own' = [own EXCEPT ![tab] = NoToken]
      <3>1. PICK t \in {own[tab], NoToken} : own' = [own EXCEPT ![tab] = t]
        BY <1>4 DEF Reload
      <3>2. t = own[tab] => own' = own
        BY <3>1 DEF Inv, TypeOK
      <3> QED BY <1>4, <3>1, <3>2 DEF Reload
    <2>2. \A d \in Callers : d # P => call'[d] = call[d]
      BY <1>0, <2>1 DEF Inv, TypeOK
    <2> QED BY <1>0, <2>1, <2>2, TabQuiet
  <1> QED BY <1>1, <1>2, <1>3, <1>4 DEF Operate

\* A tab that takes an answer has what it was granted, or drops what it has.
LEMMA QuietTake ==
    ASSUME Inv, Quiet, NEW tab \in Tabs, Take(tab)
    PROVE  Quiet'
  <1> DEFINE F == Flow(tab)
             C == Form(tab)
             P == Poll(tab)
             O == Out(tab)
  <1>0. /\ F \in Callers /\ C \in Callers /\ P \in Callers /\ O \in Callers
        /\ F \in GrantPlaces /\ C \in GrantPlaces /\ P \notin GrantPlaces
        /\ F # O /\ C # O /\ P # O /\ UNCHANGED <<minted, sessions>>
    BY PlaceFacts, PlacesDiffer, GrantPlaceFacts DEF Take, TakeStatus, TakeVersion, TakeLogin,
       TakeSetup, TakeChange, TakePoll, TakeLogout, serverVars
  <1>1. CASE TakeStatus(tab) \/ TakeVersion(tab) \/ TakeLogin(tab) \/ TakeSetup(tab) \/ TakeChange(tab)
    <2>1. PICK c \in {F, C} :
             /\ Done(c) \/ \E op, t, pw : Send(c, op, t, pw)
             /\ \/ UNCHANGED <<own, shared>> \/ SetToken(tab, NoToken, FALSE)
                \/ \E r \in BOOLEAN : SetToken(tab, Granted(c), r)
      <3>1. CASE TakeStatus(tab) \/ TakeVersion(tab) \/ TakeLogin(tab) \/ TakeSetup(tab)
        <4>1. Done(F) \/ \E op, t, pw : Send(F, op, t, pw)
          BY <3>1 DEF TakeStatus, TakeVersion, TakeLogin, TakeSetup
        <4>2. \/ UNCHANGED <<own, shared>> \/ SetToken(tab, NoToken, FALSE)
              \/ \E r \in BOOLEAN : SetToken(tab, Granted(F), r)
          BY <3>1 DEF TakeStatus, TakeVersion, TakeLogin, TakeSetup, ClearToken, Granted, Inv, TypeOK
        <4> HIDE DEF F, C
        <4> QED BY <4>1, <4>2
      <3>2. CASE TakeChange(tab)
        <4>1. Done(C)
          BY <3>2 DEF TakeChange
        <4>2. UNCHANGED <<own, shared>> \/ \E r \in BOOLEAN : SetToken(tab, Granted(C), r)
          BY <3>2 DEF TakeChange, Granted, Inv, TypeOK
        <4> HIDE DEF F, C
        <4> QED BY <4>1, <4>2
      <3> QED BY <1>1, <3>1, <3>2
    <2>2. call'[c].got = NoToken /\ \A d \in Callers : d # c => call'[d] = call[d]
      BY <1>0, <2>1, PlaceStep
    <2>3. UNCHANGED revoked
      BY <1>1 DEF TakeStatus, TakeVersion, TakeLogin, TakeSetup, TakeChange
    <2>4. CASE UNCHANGED <<own, shared>> \/ SetToken(tab, NoToken, FALSE)
      BY <1>0, <2>2, <2>3, <2>4, TabQuiet
    <2>5. CASE \E r \in BOOLEAN : SetToken(tab, Granted(c), r)
      BY <1>0, <2>2, <2>3, <2>5, GrantTaken
    <2> QED BY <2>1, <2>4, <2>5
  <1>2. CASE TakePoll(tab)
    <2>1. UNCHANGED <<own, shared, revoked>> /\ Done(P)
      BY <1>2 DEF TakePoll
    <2>2. \A d \in Callers : d # P => call'[d] = call[d]
      BY <1>0, <2>1, PlaceStep
    <2> QED BY <1>0, <2>1, <2>2, TabQuiet
  <1>3. CASE TakeLogout(tab)
    <2>1. /\ SetToken(tab, NoToken, FALSE) /\ Done(O) /\ Answered(O, "logout")
          /\ revoked' = IF call[O].answer = "ok"
                        THEN [revoked EXCEPT ![tab] = call[O].token] ELSE revoked
      BY <1>3 DEF TakeLogout, ClearToken
    <2>2. \A d \in Callers : d # O => call'[d] = call[d]
      BY <1>0, <2>1, PlaceStep
    <2>3. call'[O].token = NoToken /\ call'[O].pc = "idle"
      BY <1>0, <2>1 DEF Done, Idle, Inv, TypeOK
    <2>4. \A p \in GrantPlaces : Granted(p)' = Granted(p)
      BY <2>2, GrantPlaceFacts DEF Granted
    <2>5. ASSUME NEW x \in Tabs
          PROVE  /\ own'[x] \in {own[x], NoToken} /\ shared'.token \in {shared.token, NoToken}
                 /\ call'[Out(x)].token \in TokensOf(x) \cup {NoToken}
                 /\ LoggedOut(x)' /\ call'[Out(x)].token # NoToken
                       => sessions'[call'[Out(x)].token] = NoPassword
                 /\ \/ revoked'[x] = revoked[x]
                    \/ /\ LoggedOut(x) /\ revoked'[x] = call[Out(x)].token
                       /\ own'[x] = NoToken /\ shared'.token = NoToken
      <3>1. Out(x) \in Callers
        BY PlaceFacts
      <3>2. /\ own'[x] \in {own[x], NoToken} /\ shared'.token = NoToken
            /\ x = tab => own'[x] = NoToken
        BY <2>1 DEF SetToken, NothingShared, Inv, TypeOK
      <3>3. CASE x = tab
        BY <2>1, <2>3, <3>2, <3>3 DEF LoggedOut, Inv, TypeOK
      <3>4. CASE x # tab
        <4>1. Out(x) # O
          BY <3>4, PlacesDiffer
        <4>2. call'[Out(x)] = call[Out(x)] /\ revoked'[x] = revoked[x]
          BY <2>1, <2>2, <3>1, <3>4, <4>1 DEF Inv, TypeOK
        <4> QED BY <1>0, <3>2, <4>2 DEF LoggedOut, Answered, At, TokensOf, Quiet, LogoutInv
      <3> QED BY <3>3, <3>4
    <2> QED BY <1>0, <2>4, <2>5, NothingGranted
  <1> QED BY <1>1, <1>2, <1>3 DEF Take

\* What a guest does, no tab notices.
LEMMA QuietVisit ==
    ASSUME Inv, Quiet, NEW g \in Guests, Visit(g)
    PROVE  Quiet'
  <1>1. g \in Callers /\ UNCHANGED <<sessions, minted, own, shared, revoked>>
    BY GuestFacts DEF Visit, serverVars
  <1>2. \E op, t, pw : Send(g, op, t, pw)
    BY DEF Visit
  <1>3. /\ \A x \in Tabs : call'[Out(x)] = call[Out(x)]
        /\ \A p \in GrantPlaces : call'[p] = call[p]
    BY <1>1, <1>2, PlaceStep, PlaceFacts, GrantPlaceFacts, GuestFacts
  <1> QED BY <1>1, <1>3, NothingGranted DEF LoggedOut, Answered, At, TokensOf, Granted, Quiet, LogoutInv

\* A session's end and a restart revive nothing.
LEMMA QuietPassing ==
    ASSUME Inv, Quiet, Passing, UNCHANGED tabVars
    PROVE  Quiet'
  <1>1. ASSUME NEW t \in Tokens, Expire(t)
        PROVE  Quiet'
    <2>1. UNCHANGED <<call, minted>> /\ \A u \in Tokens : sessions'[u] \in {sessions[u], NoPassword}
      BY <1>1 DEF Expire, Inv, TypeOK
    <2>2. \A x \in Tabs : call[Out(x)].token # NoToken => call[Out(x)].token \in Tokens
      BY PlaceFacts, SessionAssumption
         DEF SessionAssumption, Inv, TypeOK, Call, AnyToken, Tokens, NoToken
    <2> QED BY <2>1, <2>2, NothingGranted DEF LoggedOut, Answered, At, TokensOf, Granted, Quiet,
                                              LogoutInv, tabVars
  <1>2. ASSUME Restart
        PROVE  Quiet'
    <2>1. minted' = minted /\ \A t \in Tokens : sessions'[t] = NoPassword
      BY <1>2 DEF Restart, NoSessions
    <2>2. \A c \in Callers : call'[c].got = call[c].got /\ call'[c].token = call[c].token
      BY <1>2 DEF Restart, Inv, TypeOK, Call
    <2>3. \A x \in Tabs : call[Out(x)].token # NoToken => call[Out(x)].token \in Tokens
      BY PlaceFacts, SessionAssumption
         DEF SessionAssumption, Inv, TypeOK, Call, AnyToken, Tokens, NoToken
    <2>4. /\ \A x \in Tabs : Out(x) \in Callers
          /\ \A p \in GrantPlaces : p \in Callers
      BY PlaceFacts, GrantPlaceFacts
    <2> QED BY <2>1, <2>2, <2>3, <2>4, NothingGranted DEF TokensOf, Granted, tabVars
  <1> QED BY <1>1, <1>2 DEF Passing

\* At the start no tab has a token.
LEMMA QuietInit == Init => Quiet
  <1> SUFFICES ASSUME Init PROVE Quiet
    OBVIOUS
  <1>1. /\ \A x \in Tabs : TokensOf(x) = {NoToken} /\ ~LoggedOut(x)
        /\ \A p \in GrantPlaces : Granted(p) = NoToken
    BY PlaceFacts, GrantPlaceFacts DEF Init, Granted, TokensOf, LoggedOut, Answered, At, Idle, NothingShared
  <1>2. NoToken <= minted
    BY DEF Init, SessionInit, NoToken
  <1> QED BY <1>1, <1>2 DEF Quiet, GrantInv, LogoutInv, Init

\* Every step keeps what was logged out of logged out.
LEMMA QuietStep == Inv /\ Quiet /\ [Next]_vars => Quiet'
  <1> SUFFICES ASSUME Inv, Quiet, [Next]_vars PROVE Quiet'
    OBVIOUS
  <1>1. CASE ServeCall
    BY <1>1, QuietServe DEF ServeCall
  <1>2. CASE Passing /\ UNCHANGED tabVars
    BY <1>2, QuietPassing
  <1>3. CASE \E g \in Guests : Visit(g)
    BY <1>3, QuietVisit
  <1>4. CASE \E tab \in Tabs : AskStatus(tab) \/ Ask(tab) \/ Take(tab) \/ Operate(tab)
    BY <1>4, QuietAsk, QuietTake
  <1>5. CASE UNCHANGED vars
    BY <1>5 DEF vars, tabVars, Quiet, GrantInv, LogoutInv, Granted, TokensOf, LoggedOut, Answered, At
  <1> QED BY <1>1, <1>2, <1>3, <1>4, <1>5 DEF Next

\* A logout the server answered has ended the session it was clicked in, for the
\* server, the tab and the storage the tabs share, whatever polls, logins, password
\* changes and reloads of whatever tabs were under way (auth.tsx, admin_session.go).
THEOREM LogoutsEnd == Spec => []LogoutEnds
  <1>1. Inv /\ Quiet => LogoutEnds
    BY DEF Quiet, LogoutInv, LogoutEnds, Valid, Configured
  <1> QED BY <1>1, QuietInit, QuietStep, InvHolds, PTL DEF Spec

-----------------------------------------------------------------------------

\* The password of a configured gateway changes only on a request that passed the
\* gate with a live session: config.CompleteSetup, the other writer, looks again
\* under its lock (handler.go:3917-3920).
THEOREM SignedInChange == Spec => OnlyTheSignedInChange
  <1> DEFINE A == Configured /\ password' # password
                    => \E c \in Callers : At(c, "change", "gated") /\ call[c].pw = password'
  <1>1. Inv /\ [Next]_vars => [A]_vars
    <2> SUFFICES ASSUME Inv, Next, Configured, password' # password
                 PROVE  \E c \in Callers : At(c, "change", "gated") /\ call[c].pw = password'
      BY DEF vars
    <2>1. PICK c \in Callers : Serve(c)
      BY LifeConsole DEF Next, ServeCall, Passing, Expire, Restart
    <2>2. SavePassword(c)
      BY <2>1 DEF Serve, serverVars, Status, Gate, Match, ReadPassword, Issue, SetupCheck,
                  SetupStore, RevokeAll, Logout
    <2> QED BY <2>2 DEF SavePassword
  <1> QED BY <1>1, InvHolds, PTL DEF Spec, OnlyTheSignedInChange
=============================================================================
